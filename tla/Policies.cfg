CONSTANTS
    c1 = c1
    c2 = c2
    s = s
    t = t
    Groups = {c1, c2, s, t}
    Loads <- MCLoads
    Type <- MCType
    InputLen <- MCInputLen
    OutputLen <- MCOutputLen
    SLO <- MCSLO
    DecodeWeight = 8
    Least <- MCLeast
    Penalty = 1
    FinalPenalty = 2
    MaxStep = 1
    MaxTime = 4
    Policies = {"fcfs", "ltr", "srtf", "autellix", "slo"}
    Collection <- MCCollection
    Interval = 2
    WindowSize = 2
    DefaultUnit <- MCUnit
    DefaultLen = 3
    Predicted <- MCPredicted
    LeastTime <- MCLeast
    Quantum = 1
SPECIFICATION PolicySpec
INVARIANTS
    TimesAddUp
    GainCountsOnce
    DictIsLive
    CachedPeersAgree
PROPERTIES
    FreshAtInterval
    OrderKept
CHECK_DEADLOCK FALSE
