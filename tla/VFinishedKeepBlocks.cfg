SPECIFICATION Spec
CONSTANTS
    N = 2
    LastBestOf = 0
    SharedSequenceId = FALSE
    Requests <- MCRequests
    BestOf <- MCBestOf
    SequenceId <- MCSequenceId
    PromptLens = {1}
    MaxNewTokens = 2
    MaxModelLen = 6
    BlockSize = 1
    NumGpuBlocks = 4
    NumCpuBlocks = 0
    MaxBatchedTokens = 6
    MaxNumSequences = 2
    Chunked = FALSE
    DelayFactor = FALSE
INVARIANT FinishedHoldNothing
CHECK_DEADLOCK FALSE
