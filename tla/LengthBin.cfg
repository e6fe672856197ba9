CONSTANTS
    g1 = g1
    g2 = g2
    g3 = g3
    g4 = g4
    None = None
    Groups <- Four
    PromptLen <- OversizedPrompts
    OutputLen <- OversizedOutputs
    BlockSize = 2
    NumGpuBlocks = 3
    NumCpuBlocks = 4
    Watermark = 0
    MaxModelLen = 8
    MaxBatchedTokens = 8
    MaxNumSeqs = 2
    MaxSwapsPerIter = 1
    TopK = 2
    ScheduleInterval = 3
    DullMaxIters = 2
    DullPendingLimit = 1
    SlidingWindow = FALSE
    AsyncOutput = FALSE
    Gains <- Densities
SPECIFICATION FairBinSpec
INVARIANTS
    BlocksConserved
    QueueIsStatus
PROPERTIES
    ImplementsLifecycle
    ChoiceIsAllowed
    EveryRequestAnswered
