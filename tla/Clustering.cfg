CONSTANTS
    MaxPermuted = 6
    Graphs <- TwoGraphs
    Thresholds <- OneThreshold
    YieldEvery = 2
    MaxIterations = 3
    MaxFinished = 4
SPECIFICATION FairSpec
CHECK_DEADLOCK FALSE
INVARIANTS
    TypeOK
    MatchExists
    InClosestCluster
    ClosestIsFound
PROPERTIES
    EventuallyClustered
