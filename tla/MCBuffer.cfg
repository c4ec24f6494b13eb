CONSTANTS
    Ids = {a, b}
    SegmentSize = 2
    FooterFitsRecord = TRUE
    Window = 1
    StampLag = 1
    Faults = {"remove"}
    CrashKinds = {"power"}
    MaxTime = 5
    MaxAppends = 3
    MaxCrashes = 2
    MaxFailedSyncs = 1
    LastInput = 2
SPECIFICATION FairSpec
INVARIANTS
    Openable
    NoFalseMerge
    DiskAccounted
PROPERTIES
    ImplementsSpanBuffer
    ReclaimsAll
CHECK_DEADLOCK FALSE
