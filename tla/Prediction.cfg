CONSTANTS
    short = short
    medium = medium
    long = long
    Requests = {short, medium, long}
    Size <- MCSize
    Chunk = 2
    Answer <- MCAnswer
    DefaultLen = 4
    Backlog = 2
SPECIFICATION Spec
INVARIANTS
    LengthIsOwn
    ShortIsPredicted
PROPERTY
    ThreadsEnd
CHECK_DEADLOCK FALSE
