CONSTANTS
    c1 = c1
    c2 = c2
    x = x
    y = y
    Collectors = {c1, c2}
    Detectors = {c1}
    Traces = {x, y}
    Routes <- SharedTrace
    asyncMaxPending = 1
    MaxFaults = 1
SPECIFICATION FairSpec
INVARIANTS
    PublishContract
    KeepSurvives
    DecidedCoversStream
PROPERTIES
    Completes
CHECK_DEADLOCK FALSE
