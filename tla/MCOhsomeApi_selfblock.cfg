SPECIFICATION Spec
CONSTANTS
    Requests = {r1, r2}
    MaxStats = 1
    MaxExtraction = 2
    Offered = {"members"}
    DatabaseErrors = {}
    MaxBatches = 0
    MaxMemberBatches = 0
INVARIANT FirstBatchSecuresConnection
