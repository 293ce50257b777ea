\* A jump to a misaligned address, the word there being a load.
CONSTANTS
    Size = 12
    LastReg = 2
    Programs <- MisalignedPrograms
    Memories <- McMemories
    CsrStates <- McCsrStates
    Lines <- NoLines
    Garbage <- LoadWord
SPECIFICATION Spec
PROPERTY FetchFaultReported
