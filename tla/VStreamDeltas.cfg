SPECIFICATION ServiceSpec
CONSTANTS
    R = 2
    LeavingRequests = 0
    FailingRanks = 0
    Limit = 2
    NumRanks = 1
    Collectives = 1
    MaxBatches = 4
    MayFail <- MCFailing
    Requests <- MCRequests
    Bodies <- MCBodies
    Workers = 2
    MaxInputLength = 4
    MaxTotalTokens = 4
    MaxStopSequences = 1
    MaxModelLen = 4
    U32 = 16
    NoValue = NoValue
    MayLeave <- MCLeaving
INVARIANT ChunksAreDeltas
CHECK_DEADLOCK FALSE
