CONSTANTS
    Ids = {a, b}
    Window = 2
    WindowFloor = 1
    QueueDepth = 2
    FlushDepth = 1
    StampLag = 0
    StampSkew = 1
    Unreadable = {1}
    MaxTime = 4
    MaxInputs = 2
    LastStamp = 1
SPECIFICATION FairSpec
INVARIANTS
    NothingFromTheFuture
PROPERTIES
    PublishSettles
    FlushWorkEnds
CHECK_DEADLOCK FALSE
