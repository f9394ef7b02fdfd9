SPECIFICATION Spec
CONSTANTS
    Objects = {o1, o2}
    NumTags = 1
    Horizon = 3
    Latest = latest
    NoInterval = none
    MaxInterval = 2
    Limit = 3
    GroupLimit = 3
    CheckSpan = 2
INVARIANTS
    TypeOK
    SeriesCoversRange
    BinsShareOutTheRange
    SnapshotsAreExact
    LatestResultsHold
    SmallGroupedResultsAreWhole
CHECK_DEADLOCK FALSE
