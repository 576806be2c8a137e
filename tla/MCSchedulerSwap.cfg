SPECIFICATION Spec
CONSTANTS
    N = 4
    LastBestOf = 2
    SharedSequenceId = FALSE
    Requests <- MCRequests
    BestOf <- MCBestOf
    SequenceId <- MCSequenceId
    PromptLens = {1, 2, 7}
    MaxNewTokens = 3
    MaxModelLen = 6
    BlockSize = 1
    NumGpuBlocks = 3
    NumCpuBlocks = 6
    MaxBatchedTokens = 6
    MaxNumSequences = 3
    Chunked = FALSE
    DelayFactor = FALSE
INVARIANTS
    QueuesMatchStatus
    BlocksConserved
    BatchBacked
    PreemptedHoldNothing
    WithinBudget
    NoSchedulerError
    PreemptLatestFirst
CHECK_DEADLOCK FALSE
