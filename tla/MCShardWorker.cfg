CONSTANTS
    Ids = {a, b}
    Window = 2
    WindowFloor = 1
    QueueDepth = 2
    FlushDepth = 1
    StampLag = 1
    StampSkew = 0
    Unreadable = {2}
    MaxTime = 3
    MaxInputs = 3
    LastStamp = 3
SPECIFICATION Spec
SYMMETRY Symmetry
INVARIANTS
    PendqCoherent
    PublishAgesFromDecision
    KeptNeverLost
    BroadcastExact
PROPERTIES
    DecideOncePerWindow
    EvictionWithinLag
CHECK_DEADLOCK FALSE
