CONSTANTS
    Size = 12
    LastReg = 2
    Programs <- AllPrograms
    Memories <- McMemories
    CsrStates <- McCsrStates
    Lines = {TRUE, FALSE}
    Garbage <- McGarbage
SPECIFICATION FairSpec
INVARIANTS Inv Spaced
PROPERTIES InOrder DataHeld DataRests FetchHeld FlushCarriedOut DivisionAlone Retires
