SPECIFICATION FairSpec
CONSTANTS
    Sets = {0}
    CachedTags = {9, 10, 11}
    UncachedTags = {1, 2, 3}
    CachedBit = 8
    ResetTag = 0
    LineWords = 2
    WordBytes = 2
    Lanes = {0, 1}
    Bytes <- MCBytes
    ZeroByte = 0
    Operations <- MCOperations
    MaxOngoing = 2
INVARIANT RefHoldsProgram
PROPERTIES
    DeliveredInOrder
    ReferenceAgrees
    WaitsEnd
