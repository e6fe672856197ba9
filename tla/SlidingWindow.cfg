CONSTANTS
    g1 = g1
    g2 = g2
    g3 = g3
    g4 = g4
    None = None
    Groups <- Four
    PromptLen <- FourPrompts
    OutputLen <- FourOutputs
    BlockSize = 2
    NumGpuBlocks = 3
    NumCpuBlocks = 4
    Watermark = 0
    MaxModelLen = 8
    MaxBatchedTokens = 2
    MaxNumSeqs = 2
    MaxSwapsPerIter = 1
    TopK = 2
    ScheduleInterval = 2
    DullMaxIters = 2
    DullPendingLimit = 4
    SlidingWindow = TRUE
    AsyncOutput = FALSE
    Gains <- TwoGains
SPECIFICATION BinSpec
INVARIANTS
    OneDecision
    BatchWithinBudget
    BatchIsRunnable
PROPERTIES
    FeasibleSurvives
    ChoiceIsAllowed
