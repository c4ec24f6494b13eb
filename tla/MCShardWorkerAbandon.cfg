CONSTANTS
    Ids = {a, b}
    Window = 2
    WindowFloor = 1
    QueueDepth = 2
    FlushDepth = 1
    StampLag = 0
    StampSkew = 0
    Unreadable = {}
    MaxTime = 3
    MaxInputs = 3
    LastStamp = 3
SPECIFICATION Spec
PROPERTIES
    AbandonsOnlyExpired
CHECK_DEADLOCK FALSE
