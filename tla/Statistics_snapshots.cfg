SPECIFICATION Spec
CONSTANTS
    Objects = {o1, o2}
    NumTags = 1
    Horizon = 3
    Latest = latest
    NoInterval = none
    MaxInterval = 2
    Limit = 2
    GroupLimit = 3
    CheckSpan = 2
INVARIANTS
    SnapshotsWithinLimit
CHECK_DEADLOCK FALSE
