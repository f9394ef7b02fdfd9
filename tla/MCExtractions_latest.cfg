SPECIFICATION Spec
CONSTANTS
    east = east
    west = west
    relation = relation
    Objects <- MCObjects
    Collections = {relation}
    Place <- MCPlace
    Boxes <- MCBoxes
    MemberFilters <- MCFilters
    HalfTurn = 4
    Pole = 1
    NumTags = 0
    Horizon = 4
    Latest = latest
    BatchSize = 1
INVARIANT LatestCollectionsAreSnapshots
CHECK_DEADLOCK FALSE
