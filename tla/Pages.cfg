SPECIFICATION FairSpec
CONSTANTS
    a = a
    b = b
    Thread = {a, b}
    NoStream = NoStream
    NoDetail = NoDetail
    NoCursor = NoCursor
    History <- TwoThreads
    MaxTurn = 4
    PageLimit = 1
    JumpLimit = 2
    QueueMax = 2
    MaxOps = 6
    Features = {"open", "close", "overlay", "refresh", "scroll", "jump", "tick", "stream", "elsewhere"}
INVARIANTS PagesInv CursorsCover
PROPERTIES StreamOwnsContent JumpEnds
CHECK_DEADLOCK FALSE
