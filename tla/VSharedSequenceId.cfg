SPECIFICATION Spec
CONSTANTS
    N = 2
    LastBestOf = 0
    SharedSequenceId = TRUE
    Requests <- MCRequests
    BestOf <- MCBestOf
    SequenceId <- MCSequenceId
    PromptLens = {1}
    MaxNewTokens = 3
    MaxModelLen = 6
    BlockSize = 1
    NumGpuBlocks = 6
    NumCpuBlocks = 0
    MaxBatchedTokens = 6
    MaxNumSequences = 2
    Chunked = FALSE
    DelayFactor = FALSE
INVARIANT BlocksConserved
CHECK_DEADLOCK FALSE
