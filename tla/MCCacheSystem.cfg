SPECIFICATION Spec
CONSTANTS
    t1 = t1
    t2 = t2
    t3 = t3
    u1 = u1
    Sets = {0, 1}
    CachedTags = {t1, t2, t3}
    UncachedTags = {u1}
    ResetTag = 0
    LineWords = 2
    Lanes <- TwoLanes
    Bytes <- MCBytes
    ZeroByte = 0
    Requests <- MCRequests
    Memories <- MCMemories
INVARIANTS
    IInv
    NoDuplicateLine
    CleanLineIsCopy
    BurstInStep
PROPERTIES
    ReadsLastWrite
    CBusHeld
