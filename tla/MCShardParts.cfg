CONSTANTS
    Ids = {"a", "b", "c"}
    InitialSlots = 2
    CompactFloor = 2
    SweepChunk = 2
    HashRange = 8
    Hashes <- AnyHash
    MaxPuts = 4
    MaxGen = 3
    DecidedIds = {"a", "b", "c", "d"}
    DecidedSlots = 4
    DecidedHashes <- AnyFibHash
    Deadlines = {1, 2}
    MaxMarks = 6
    Shards = {"s1", "s2"}
    SegmentSize = 2
    HeaderLen = 1
    TrailerLen = 1
    MaxRecord = 5
    RecordSizes = {1, 2, 5}
    FileSizes = {7}
    Limits = {3, 9}
    Window = 2
    WindowFloor = 1
    MaxRecovered = 1
    MaxAppends = 2
    MaxTime = 3
SPECIFICATION PartsSpec
INVARIANTS
    FindsWhatWasPut
    FullTurnReclaims
    DecidedFound
    SacrificeBounded
    NeverAllPinned
