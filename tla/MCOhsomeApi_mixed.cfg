SPECIFICATION Spec
CONSTANTS
    Requests = {r1, r2, r3}
    MaxStats = 1
    MaxExtraction = 2
    Offered = {"statistics", "metadata", "features", "collections", "members"}
    DatabaseErrors = {"InternalServerError"}
    MaxBatches = 1
    MaxMemberBatches = 0
SYMMETRY RequestSymmetry
INVARIANTS
    TypeOK
    ConnectionsAccountedFor
    StatsHoldersNeverWait
    OnlyCutResponsesLeaveConnections
    SelfBlockNeedsMembers
PROPERTIES
    ResponsesAreFinal
