CONSTANTS
    Ids = {a, b}
    SegmentSize = 3
    FooterFitsRecord = TRUE
    Window = 1
    StampLag = 0
    Faults = {"remove", "create", "reopen", "sync", "write"}
    CrashKinds = {"kill", "power"}
    MaxTime = 3
    MaxAppends = 4
    MaxCrashes = 1
    MaxFailedSyncs = 1
    LastInput = 3
SPECIFICATION Spec
SYMMETRY Symmetry
INVARIANTS
    CollectSound
CHECK_DEADLOCK FALSE
