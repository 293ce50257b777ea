SPECIFICATION Spec
CONSTANTS
    Width = 4
    Requests <- AllRequests
INVARIANT SignedDivisionRight
