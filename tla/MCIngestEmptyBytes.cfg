SPECIFICATION Spec
CONSTANTS
    Word = 65536
    Ms = 10
    Now = 1000
    BytesValues <- AnyBytes
    Configs <- MCConfigs
    Batches <- MCBatches
INVARIANTS
    FragmentsFaithful
