CONSTANTS
    Ids = {a, b}
    SegmentSize = 3
    FooterFitsRecord = TRUE
    Window = 1
    StampLag = 0
    Faults = {"sync"}
    CrashKinds = {}
    MaxTime = 3
    MaxAppends = 3
    MaxCrashes = 0
    MaxFailedSyncs = 1
    LastInput = 3
SPECIFICATION Spec
INVARIANTS
    NoFalseMerge
CHECK_DEADLOCK FALSE
