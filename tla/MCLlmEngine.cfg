SPECIFICATION FairEngineSpec
CONSTANTS
    N = 3
    LastBestOf = 1
    NumStreaming = 1
    Requests <- MCRequests
    BestOf <- MCBestOf
    SequenceId <- MCSequenceId
    Streaming <- MCStreaming
    MayLeave = TRUE
    MayFail = TRUE
    PromptLens = {1, 2, 6}
    MaxNewTokens = 3
    MaxModelLen = 5
    BlockSize = 1
    NumGpuBlocks = 5
    NumCpuBlocks = 4
    MaxBatchedTokens = 5
    MaxNumSequences = 4
    Chunked = FALSE
    DelayFactor = TRUE
INVARIANTS
    EngineTypeOK
    NoPassWhileInFlight
    FinishedIsAnswered
    AnsweredIsOver
PROPERTY EveryRequestAnswered
CHECK_DEADLOCK FALSE
