SPECIFICATION FairSpec
CONSTANTS
    c1 = c1
    c2 = c2
    d1 = d1
    d2 = d2
    d3 = d3
    u1 = u1
    Sets = {0}
    CachedTags = {c1, d1, d2, d3}
    UncachedTags = {u1}
    ResetTag = 0
    LineWords = 2
    Lanes <- MCLanes
    Bytes <- TwoBytes
    ZeroByte = 0
    DRequests <- DataRequests
    IRequests <- CodeRequests
    Memories <- CodeMemory
INVARIANTS
    DeviceChecks
PROPERTIES
    DataCacheUndisturbed
    FetchedFrom
    FetchAnswered
    DataAnswered
