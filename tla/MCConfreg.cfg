SPECIFICATION ConsoleSpec
CONSTANTS
    Typed = {k1, k2}
    Text = {c1, nl, hi}
    Newline = nl
    High = {hi}
    BufferLimit = 3
    Regs = {r1}
    Values = {v1}
    Zero = v0
    MaxTyped = 3
    MaxSaid = 3
    MaxNum = 1
INVARIANTS
    ConsoleExact
    ScreenExact
CHECK_DEADLOCK FALSE
