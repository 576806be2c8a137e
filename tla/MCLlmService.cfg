SPECIFICATION ServiceSpec
CONSTANTS
    R = 2
    LeavingRequests = 1
    FailingRanks = 1
    Limit = 1
    NumRanks = 2
    Collectives = 1
    MaxBatches = 3
    MayFail <- MCFailing
    Requests <- MCRequests
    Bodies <- MCBodies
    Workers = 2
    MaxInputLength = 4
    MaxTotalTokens = 4
    MaxStopSequences = 1
    MaxModelLen = 4
    U32 = 16
    NoValue = NoValue
    MayLeave <- MCLeaving
INVARIANTS
    ServiceTypeOK
    RanksKeepUp
    CollectivesMatch
    OwnAnswer
    StreamInOrder
    WithinTokenLimits
    NobodyCutOff
CHECK_DEADLOCK FALSE
PROPERTIES
    EveryCompletionAnswered
    EveryStreamEnds
    ProcessExits
