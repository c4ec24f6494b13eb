CONSTANTS
    Producers = {p1}
    BusKinds = {"loopback", "nats"}
    QueueDepth = 1
    FlushDepth = 1
    LoopbackDepth = 1
    MaxBatches = 1
    MaxPeerKeeps <- PeerKeeps
    MaxTimeouts = 1
SPECIFICATION FairSpec
INVARIANTS
    AckedNeverDropped
    EndedIsQuiet
    BusClosesLast
PROPERTIES
    ShutdownEnds
    LoopbackPublishEnds
CHECK_DEADLOCK FALSE
