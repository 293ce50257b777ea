SPECIFICATION FairSpec
CONSTANTS
    NumInputs = 2
    Lines = {1}
    LineWords = 3
    Lanes = {0}
    Bytes <- MCBytes
    ZeroByte = 0
    Requests <- MCRequests
INVARIANTS
    DeviceChecks
    BeatsToOwner
    ServedUnderGrant
PROPERTIES
    DeviceIsBusMemory
    ServedIfOthersRest
