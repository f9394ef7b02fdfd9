SPECIFICATION Spec
CONSTANTS
    east = east
    west = west
    relation = relation
    Objects <- MCObjects
    Collections = {relation}
    Place <- MCPlace
    Boxes <- FarBoxes
    MemberFilters <- MCFilters
    HalfTurn = 4
    Pole = 1
    NumTags = 0
    Horizon = 1
    Latest = latest
    BatchSize = 1
INVARIANT ExtractionsAreOfTheBox
CHECK_DEADLOCK FALSE
