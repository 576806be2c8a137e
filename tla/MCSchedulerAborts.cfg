SPECIFICATION SpecWithAborts
CONSTANTS
    N = 3
    LastBestOf = 0
    SharedSequenceId = FALSE
    Requests <- MCRequests
    BestOf <- MCBestOf
    SequenceId <- MCSequenceId
    PromptLens = {1, 3, 9}
    MaxNewTokens = 3
    MaxModelLen = 6
    BlockSize = 2
    NumGpuBlocks = 3
    NumCpuBlocks = 0
    MaxBatchedTokens = 6
    MaxNumSequences = 2
    Chunked = FALSE
    DelayFactor = TRUE
INVARIANTS
    QueuesMatchStatus
    PreemptedBeforeNew
    AdmittedInArrivalOrder
CHECK_DEADLOCK FALSE
