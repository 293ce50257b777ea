------------------------------- MODULE Instr -------------------------------
(***************************************************************************)
(* The instructions of the core and what each of them computes, shared by  *)
(* the sequential machine (Isa) and the five stage pipeline (Core).        *)
(*                                                                         *)
(* One operation stands for each class the control logic tells apart: ALU  *)
(* (one cycle), MULT (the multiplier and the dividers, many cycles), LD,   *)
(* SD, BEQ, JALR, CSR (csrrw of a register), CSRI (csrsi/csrci of          *)
(* mstatus.mie, rd = x0), ECALL, MRET, UNKNOWN, and MARK, the undecodable  *)
(* word 0x5006b at which the test programs end and which runs as a NOP.    *)
(* Words, addresses and program counters are numbers in units of two       *)
(* bytes: an odd one is misaligned and the next instruction is two on.     *)
(***************************************************************************)
EXTENDS Integers

CONSTANTS
    Size,       \* addresses, data and program counters are 0 .. Size-1
    LastReg     \* the registers are x0 .. x(LastReg)

ASSUME SizeAssumption == Size \in Nat /\ Size > 2 /\ Size % 2 = 0
ASSUME RegAssumption == LastReg \in Nat \ {0}

Word == 0 .. Size - 1
Reg == 0 .. LastReg
Aligned(a) == a % 2 = 0
PC == {a \in Word : Aligned(a)}

Ops == {"ALU", "MULT", "LD", "SD", "BEQ", "JALR", "CSR", "CSRI", "ECALL", "MRET",
        "UNKNOWN", "MARK"}
Csrs == {"mtvec", "mepc", "mie"}
Instruction == [op: Ops, rd: Reg, rs1: Reg, rs2: Reg, imm: Word, csr: Csrs \ {"mie"}]

\* Instructions that end in the csr unit, which then flushes the pipeline.
System == {"CSR", "CSRI", "ECALL", "MRET"}

IsMem(i) == i.op \in {"LD", "SD"}
IsBranch(i) == i.op \in {"BEQ", "JALR"}

\* The decoder knows no operation for the word.
Undecodable(i) == i.op \in {"UNKNOWN", "MARK"}

\* An undecodable word may have regwrite set (F7_CSR, F3 100): rd = x0 is the other
\* case.  The destination of MARK is cleared on its way to dataM.
RegWrite(i) == i.op \in {"ALU", "MULT", "LD", "JALR", "CSR", "UNKNOWN"}

Bug_PlusNoWrap(a, b) == a + b
\* An addition that wraps at the width of a register.
Plus(a, b) == (a + b) % Size
NextPC(a) == Plus(a, 2)

\* The value the execute stage computes from the two operands it was given.
Alu(i, a, b) ==
    CASE i.op = "ALU"          -> Plus(Plus(a, b), i.imm)
      [] i.op = "MULT"         -> Plus(a * b, i.imm)
      [] i.op \in {"LD", "SD"} -> Plus(a, i.imm)
      [] i.op = "JALR"         -> NextPC(a)
      [] i.op = "CSR"          -> a
      [] OTHER                 -> 0

\* Where the instruction at address a goes on, r1 and r2 being its registers.
Target(i, a, r1, r2) ==
    CASE i.op = "JALR"              -> Plus(r1, i.imm)
      [] i.op = "BEQ" /\ r1 = r2    -> Plus(a, i.imm)
      [] OTHER                      -> NextPC(a)

SetReg(regs, r, v) == [x \in Reg |-> IF x = r /\ r # 0 THEN v ELSE regs[x]]
-----------------------------------------------------------------------------
Errors == {"NOERROR", "FETCHERROR", "DECODEERRRE", "LOADERROR", "STOREERROR"}
InterruptCause == 63     \* the cause of an interrupt: bit 63 of mcause
Causes == {0, 2, 4, 6, 8, 11, InterruptCause}
CsrState == [mtvec: Word, mepc: Word, mcause: Causes,
             mie: BOOLEAN, mpie: BOOLEAN, mpp: {0, 3}, mode: {0, 3}]

Cause(error, mode) ==
    CASE error = "FETCHERROR"  -> 0
      [] error = "DECODEERRRE" -> 2
      [] error = "LOADERROR"   -> 4
      [] error = "STOREERROR"  -> 6
      [] OTHER                 -> IF mode = 0 THEN 8 ELSE 11

\* What entering the trap handler does to the csrs.
Trapped(c, cause, at) ==
    [c EXCEPT !.mepc = at, !.mcause = cause, !.mpie = c.mie, !.mie = FALSE,
              !.mpp = c.mode, !.mode = 3]

\* MRET: the new mode is read from mpp after mpp was cleared.
Returned(c) == [c EXCEPT !.mie = c.mpie, !.mpie = TRUE, !.mpp = 0, !.mode = 0]

\* A csr access: v is the register operand, or the immediate of CSRI, which
\* sets or clears mstatus.mie.
Written(c, name, v) ==
    CASE name = "mtvec" -> [c EXCEPT !.mtvec = v]
      [] name = "mepc"  -> [c EXCEPT !.mepc = v]
      [] name = "mie"   -> [c EXCEPT !.mie = (v # 0)]

ReadCsr(c, name) ==
    CASE name = "mtvec" -> c.mtvec
      [] name = "mepc"  -> c.mepc
      [] name = "mie"   -> 0

CsrName(i) == IF i.op = "CSRI" THEN "mie" ELSE i.csr

\* What stands for the pending instruction when there is none.
NoPending == [kind |-> "NONE"]
=============================================================================
