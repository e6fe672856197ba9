CONSTANTS
    MaxPermuted = 6
    MaxNodes = 3
    Inputs = {4, 5}
    OutputLens = {4, 6}
SPECIFICATION StagesSpec
CHECK_DEADLOCK FALSE
INVARIANTS
    OrderIsIrrelevant
    GreedyIsMatching
    TraceIsLearned
