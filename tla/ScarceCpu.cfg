CONSTANTS
    g1 = g1
    g2 = g2
    g3 = g3
    g4 = g4
    None = None
    Groups <- Four
    PromptLen <- FourPrompts
    OutputLen <- FourOutputs
    BlockSize = 2
    NumGpuBlocks = 4
    NumCpuBlocks = 2
    Watermark = 0
    MaxModelLen = 8
    MaxBatchedTokens = 3
    MaxNumSeqs = 2
    MaxSwapsPerIter = 2
    TopK = 2
    ScheduleInterval = 2
    DullMaxIters = 2
    DullPendingLimit = 4
    SlidingWindow = FALSE
    AsyncOutput = FALSE
SPECIFICATION Spec
INVARIANTS
    TypeOK
    FinishedIsReported
    PoolsSuffice
    ComputedIsCached
