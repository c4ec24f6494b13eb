SPECIFICATION Spec
CONSTANTS
    Word = 65536
    Ms = 10
    Now = 1000
    BytesValues <- SomeBytes
    Configs <- MCConfigs
    Batches <- MCBatches
INVARIANTS
    FragmentsFaithful
    VerdictsRight
    TakenWhole
