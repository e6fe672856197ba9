CONSTANTS
    t1 = t1
    d1 = d1
    Collections <- TotAndDeep
    App <- MCApp
    Shape <- MCShape
    TotPattern <- WideTot
    DeepPattern <- ShortDeep
    AllNode = FALSE
    ByOutput = TRUE
    UseTotalDeadline = FALSE
    ClusterAt = 1
    Setups <- MCSetups
    Rounds = 2
    MaxElapsed = 1
SPECIFICATION Spec
CHECK_DEADLOCK FALSE
INVARIANTS
    InStep
    GraphIsOneRound
    LearnedOnce
    GraphIsComplete
    RatioIsFraction
