SPECIFICATION FairSpec
CONSTANTS
    a = a
    b = b
    Thread = {a, b}
    NoStream = NoStream
    NoDetail = NoDetail
    NoCursor = NoCursor
    History <- TwoThreads
    MaxTurn = 4
    PageLimit = 1
    JumpLimit = 2
    QueueMax = 2
    MaxOps = 3
    Features = {"open", "scroll", "tick"}

PROPERTY RefreshKeepsTranscript
CHECK_DEADLOCK FALSE
