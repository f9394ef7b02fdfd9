SPECIFICATION Spec
CONSTANTS
    PoolAcquireTimeout = 1
    TimeoutStats = 2
    TimeoutExtraction = 3
    CloseDelay = 1
    MaxNow = 12
INVARIANTS
    TypeOK
    NoQueryTimeoutInExtraction
    
    
    ExtractionConnectionIsBounded
CHECK_DEADLOCK FALSE
