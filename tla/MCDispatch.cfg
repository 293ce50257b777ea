SPECIFICATION FairSpec
CONSTANTS
    N = 3
    Total = 4
INVARIANT VerdictRight
PROPERTIES
    OnceEach
    RunnerEnds
CHECK_DEADLOCK FALSE
