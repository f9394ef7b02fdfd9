SPECIFICATION FairLifeSpec
CONSTANTS
    Requests = {r1, r2}
    MaxStats = 1
    MaxExtraction = 2
    Offered = {"statistics", "features", "collections", "members"}
    DatabaseErrors = {"ConnectionError"}
    MaxBatches = 1
    MaxMemberBatches = 1
INVARIANT
    PoolsOutliveTheirUsers
    FilesAreWhole
PROPERTIES
    ConnectionsReturn
    ImplementsResponses
    RequestsSettle
    ShutdownCompletes
