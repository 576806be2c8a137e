SPECIFICATION Spec
CONSTANTS
    N = 4
    LastBestOf = 2
    SharedSequenceId = FALSE
    Requests <- MCRequests
    BestOf <- MCBestOf
    SequenceId <- MCSequenceId
    PromptLens = {1, 5, 7}
    MaxNewTokens = 3
    MaxModelLen = 8
    BlockSize = 1
    NumGpuBlocks = 6
    NumCpuBlocks = 12
    MaxBatchedTokens = 4
    MaxNumSequences = 4
    Chunked = TRUE
    DelayFactor = FALSE
INVARIANTS
    BatchBacked
    WithinBudget
    NeverSwapBothWays
CHECK_DEADLOCK FALSE
