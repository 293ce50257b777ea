SPECIFICATION FairSpec
CONSTANTS
    Lines = {1}
    LineWords = 3
    Lanes = {0}
    Bytes <- MCBytes
    ZeroByte = 0
    Requests <- MCRequests
INVARIANTS
    BeatsInStep
    SavedIsLive
PROPERTIES
    BridgeIsBusMemory
    EveryRequestServed
