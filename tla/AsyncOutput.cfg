CONSTANTS
    g1 = g1
    g2 = g2
    g3 = g3
    g4 = g4
    None = None
    Groups <- Three
    PromptLen <- ThreePrompts
    OutputLen <- ThreeOutputs
    BlockSize = 2
    NumGpuBlocks = 3
    NumCpuBlocks = 3
    Watermark = 0
    MaxModelLen = 4
    MaxBatchedTokens = 8
    MaxNumSeqs = 2
    MaxSwapsPerIter = 1
    TopK = 2
    ScheduleInterval = 3
    DullMaxIters = 2
    DullPendingLimit = 1
    SlidingWindow = FALSE
    AsyncOutput = TRUE
SPECIFICATION Spec
INVARIANTS
    TableFollowsStatus
    LiveIsQueued
PROPERTIES
    ImplementsLifecycle
