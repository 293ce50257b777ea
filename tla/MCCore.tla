------------------------------- MODULE MCCore -------------------------------
(***************************************************************************)
(* Instances of Core for TLC: short programs of six instructions over two  *)
(* registers, the trap handler at the last two of them.                    *)
(***************************************************************************)
EXTENDS CoreProps

I(op, rd, rs1, rs2, imm) ==
    [op |-> op, rd |-> rd, rs1 |-> rs1, rs2 |-> rs2, imm |-> imm, csr |-> "mtvec"]

Nop == I("ALU", 0, 0, 0, 0)
Add == I("ALU", 1, 1, 2, 2)
Mul == I("MULT", 2, 1, 1, 2)
Load == I("LD", 1, 2, 0, 2)
BadLoad == I("LD", 1, 2, 0, 1)
Store == I("SD", 0, 1, 2, 0)
BadStore == I("SD", 0, 2, 1, 3)
Beq == I("BEQ", 0, 1, 2, 4)
Jalr == I("JALR", 2, 1, 0, 6)
BadJalr == I("JALR", 2, 0, 0, 3)
WriteMepc == [I("CSR", 2, 1, 0, 0) EXCEPT !.csr = "mepc"]
Enable == I("CSRI", 0, 0, 0, 1)
Disable == I("CSRI", 0, 0, 0, 0)
Ecall == I("ECALL", 0, 0, 0, 0)
Mret == I("MRET", 0, 0, 0, 0)
Unknown == I("UNKNOWN", 2, 0, 0, 0)
Mark == I("MARK", 0, 1, 0, 0)
Halt == I("BEQ", 0, 0, 0, 0)

\* Three instructions, a loop that goes nowhere, and the trap handler, which
\* swaps x1 and mepc and returns.
Body(a, b, c) ==
    [x \in PC |-> CASE x = 0 -> a [] x = 2 -> b [] x = 4 -> c [] x = 6 -> Halt
                    [] x = 8 -> WriteMepc [] OTHER -> Mret]

\* Every three of the instructions that meet on the data path, but for two that
\* ask nothing of the third place.
DataOps == {Add, Mul, Load, Store, Beq, Jalr}
DataPrograms ==
    {Body(a, b, c) : a \in DataOps, b \in DataOps, c \in DataOps \ {Add, Beq}}

\* Every way to leave the straight line, with interrupts enabled before it, and
\* behind a multiplication.
TrapOps == {BadLoad, BadStore, BadJalr, Unknown, Mark, Ecall, Enable, Disable, WriteMepc}
TrapPrograms ==
    {Body(Enable, b, Store) : b \in TrapOps}
        \cup {Body(Mul, b, Store) : b \in {BadJalr, Ecall, WriteMepc}}

AllPrograms == DataPrograms \cup TrapPrograms

\* A jump to the middle of the load at address 4, as in test-lab4.
MisalignedPrograms == {Body(Add, I("JALR", 2, 0, 0, 5), Load)}
LoadWord == {Load}

NoLines == {FALSE}
McGarbage == {Load, Mul, Mark}
McMemories == {[a \in PC |-> a]}
McCsrStates == {[mtvec |-> 8, mepc |-> 0, mcause |-> 0, mie |-> FALSE, mpie |-> FALSE,
                 mpp |-> 0, mode |-> 3]}
=============================================================================
