CONSTANTS
    Producers = {p1}
    Subscribers = {}
    Flushers = {f1}
    NShards = 1
    QueueDepth = 2
    MaxCalls = 2
    MaxTimeouts = 1
SPECIFICATION FairSpec
INVARIANTS
    InflightExact
    SendsNeverBlock
    FragmentsBeforeKeep
    NothingSilentlyShed
    NoStranded
    ShutdownComplete
PROPERTIES
    ShutdownDrains
    BlockedSendsEnd
CHECK_DEADLOCK FALSE
