SPECIFICATION Spec
CONSTANTS
    Objects = {o1, o2}
    NumTags = 1
    Horizon = 3
    Latest = latest
    NoInterval = none
    MaxInterval = 2
    Limit = 3
    GroupLimit = 1
    CheckSpan = 2
INVARIANTS
    GroupedResultsAreWhole
CHECK_DEADLOCK FALSE
