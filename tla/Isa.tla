-------------------------------- MODULE Isa --------------------------------
(***************************************************************************)
(* What the core promises: a machine that runs one instruction at a time.  *)
(*                                                                         *)
(* An instruction that ends in the csr unit, or in a trap, has two steps:  *)
(* its register effect, which leaves it pending, and Resolve.  Three       *)
(* things the program can see are the pipeline's own and not the RISC-V    *)
(* manual's: an interrupt is taken after its instruction has run and mepc  *)
(* names that same instruction (Execute), a faulting instruction has       *)
(* already written its destination register (Fault), and a fetch at a      *)
(* misaligned address may pass without a trap, or be interrupted instead   *)
(* (Misaligned).                                                           *)
(***************************************************************************)
EXTENDS Instr

CONSTANTS
    Programs,    \* the programs in the instruction memory
    Memories,    \* the first contents of the data memory
    CsrStates    \* the csrs as the program's prologue may leave them

VARIABLES program, pc, regs, mem, csr, pending

vars == <<program, pc, regs, mem, csr, pending>>

Pending == [pc: Word, kind: Errors \cup {"ECALL", "CSR", "CSRI", "MRET", "INTERRUPT"},
            csr: Csrs, src: Word]

Init ==
    /\ program \in Programs
    /\ pc = 0
    /\ regs = [r \in Reg |-> 0]
    /\ mem \in Memories
    /\ csr \in CsrStates
    /\ pending = NoPending

Pend(kind, name, src) == pending' = [pc |-> pc, kind |-> kind, csr |-> name, src |-> src]

\* A load, store, computation or jump that does not fault.
Execute ==
    LET i == program[pc]
        a == Plus(regs[i.rs1], i.imm)
        result == CASE i.op = "LD"   -> mem[a]
                    [] i.op = "JALR" -> NextPC(pc)
                    [] OTHER         -> Alu(i, regs[i.rs1], regs[i.rs2])
    IN  /\ pending = NoPending
        /\ Aligned(pc)
        /\ i.op \in {"ALU", "MULT", "LD", "SD", "BEQ", "JALR", "MARK"}
        /\ IsMem(i) => Aligned(a)
        /\ regs' = IF RegWrite(i) THEN SetReg(regs, i.rd, result) ELSE regs
        /\ mem' = IF i.op = "SD" THEN [mem EXCEPT ![a] = regs[i.rs2]] ELSE mem
        /\ \/ pc' = Target(i, pc, regs[i.rs1], regs[i.rs2]) /\ pending' = NoPending
           \/ csr.mie /\ Pend("INTERRUPT", "mie", 0) /\ pc' = pc
        /\ UNCHANGED <<program, csr>>

\* The register effect of a csr access, an environment call or a return.
Enter ==
    LET i == program[pc]
    IN  /\ pending = NoPending
        /\ Aligned(pc)
        /\ i.op \in System
        /\ regs' = IF RegWrite(i) THEN SetReg(regs, i.rd, ReadCsr(csr, CsrName(i))) ELSE regs
        /\ CASE i.op = "CSR"  -> Pend("CSR", i.csr, regs[i.rs1])
             [] i.op = "CSRI" -> Pend("CSRI", "mie", i.imm)
             [] OTHER         -> Pend(i.op, "mie", 0)
        /\ UNCHANGED <<program, pc, mem, csr>>

\* A word that does not decode, or a misaligned data address.
Fault ==
    LET i == program[pc]
        a == Plus(regs[i.rs1], i.imm)
        kind == CASE i.op = "UNKNOWN" -> "DECODEERRRE"
                  [] i.op = "LD"      -> "LOADERROR"
                  [] OTHER            -> "STOREERROR"
    IN  /\ pending = NoPending
        /\ Aligned(pc)
        /\ i.op = "UNKNOWN" \/ (IsMem(i) /\ ~Aligned(a))
        /\ \/ RegWrite(i) /\ \E v \in Word : regs' = SetReg(regs, i.rd, v)
           \/ ~RegWrite(i) /\ regs' = regs
        /\ Pend(kind, "mie", 0)
        /\ UNCHANGED <<program, pc, mem, csr>>

\* A misaligned program counter: a trap, or nothing at all; the pipeline may
\* drop two such fetches in one cycle.
Misaligned ==
    /\ pending = NoPending
    /\ ~Aligned(pc)
    /\ \/ /\ Pend("FETCHERROR", "mie", 0)
          /\ \E r \in Reg, v \in Word : regs' = SetReg(regs, r, v)
          /\ pc' = pc
       \/ /\ pc' \in {NextPC(pc), NextPC(NextPC(pc))}
          /\ UNCHANGED <<regs, pending>>
       \/ csr.mie /\ Pend("INTERRUPT", "mie", 0) /\ UNCHANGED <<pc, regs>>
    /\ UNCHANGED <<program, mem, csr>>

IsFault(p) == p.kind \in Errors \cup {"ECALL"}

\* The pending instruction takes its trap, its return or its csr write.
Resolve ==
    /\ pending # NoPending
    /\ \/ /\ IsFault(pending)
          /\ csr' = Trapped(csr, Cause(pending.kind, csr.mode), pending.pc)
          /\ pc' = csr.mtvec
       \/ /\ ~IsFault(pending) /\ csr.mie
          /\ csr' = Trapped(csr, InterruptCause, pending.pc)
          /\ pc' = csr.mtvec
       \/ /\ pending.kind \in {"CSR", "CSRI"}
          /\ csr' = Written(csr, pending.csr, pending.src)
          /\ pc' = NextPC(pending.pc)
       \/ /\ pending.kind = "MRET"
          /\ csr' = Returned(csr)
          /\ pc' = csr.mepc
    /\ pending' = NoPending
    /\ UNCHANGED <<program, regs, mem>>

Next == Execute \/ Enter \/ Fault \/ Misaligned \/ Resolve

Spec == Init /\ [][Next]_vars
=============================================================================
