-------------------------------- MODULE Core --------------------------------
(***************************************************************************)
(* The five stage pipeline of pipeline/core.sv, one action per clock.      *)
(*                                                                         *)
(* A stage register holds a Bubble or the instruction it was given with    *)
(* what the stages before it computed; the data of an invalid register is  *)
(* read nowhere unguarded, so it is not kept.  The wires of the clock are  *)
(* operators of in, what the caches and the multiplier answer in it:       *)
(* iok and dok are iresp.data_ok and dresp.data_ok, mok the data_ok of the *)
(* multiplier and dividers, word the fetched instruction and junk what a   *)
(* load at a misaligned address returns.                                   *)
(***************************************************************************)
EXTENDS Instr

CONSTANTS
    Programs,    \* the programs in the instruction memory
    Memories,    \* the first contents of the data memory
    CsrStates,   \* the csrs as the program's prologue may leave them
    Lines,       \* the values the interrupt line may take
    Garbage      \* what iresp.data may hold at a misaligned address

ASSUME ProgramAssumption == /\ Programs \subseteq [PC -> Instruction]
                            /\ Garbage \subseteq Instruction
                            /\ Garbage # {}
                            /\ Lines \subseteq BOOLEAN
ASSUME StateAssumption == /\ Memories \subseteq [PC -> Word]
                          /\ CsrStates \subseteq CsrState

VARIABLES program, pc, move, dataF, dataD, dataE, dataM, regs, csr, mem,
          ipend, dpend, intr

vars == <<program, pc, move, dataF, dataD, dataE, dataM, regs, csr, mem,
          ipend, dpend, intr>>

Bubble == [valid |-> FALSE]

Fetched == [valid: {TRUE}, pc: Word, instr: Instruction, error: Errors] \cup {Bubble}
Decoded == [valid: {TRUE}, pc: Word, instr: Instruction, error: Errors,
            srca: Word, rd1: Word, rd2: Word] \cup {Bubble}
Executed == [valid: {TRUE}, pc: Word, instr: Instruction, error: Errors,
             result: Word, rd2: Word, csr: Word] \cup {Bubble}
Accessed == [valid: {TRUE}, pc: Word, instr: Instruction, error: Errors,
             result: Word, csr: Word] \cup {Bubble}

PipeTypeOK ==
    /\ program \in [PC -> Instruction]
    /\ pc \in Word
    /\ dataF \in Fetched /\ dataD \in Decoded /\ dataE \in Executed /\ dataM \in Accessed
    /\ regs \in [Reg -> Word]
    /\ csr \in CsrState
    /\ mem \in [PC -> Word]
    /\ {move, ipend, dpend, intr} \subseteq BOOLEAN

Good(stage) == stage.valid /\ stage.error = "NOERROR"
-----------------------------------------------------------------------------
(* What dataM holds that the csr unit will flush the pipeline for. *)

Raised == dataM.valid /\ (dataM.error # "NOERROR" \/ dataM.instr.op = "ECALL")
Interrupt == dataM.valid /\ csr.mie /\ intr
Access == dataM.valid /\ dataM.instr.op \in {"CSR", "CSRI", "MRET"}

-----------------------------------------------------------------------------
(* The requests to the caches, and the stall of each stage. *)

DataValid == Good(dataE) /\ IsMem(dataE.instr)

\* The idle cycle after a change of pc forgotten.
Bug_FetchNoMove == Aligned(pc)

\* The fetch stops for a flush that waits for the fetch.
Bug_FetchStopsForFlush == ~move /\ Aligned(pc) /\ ~(Raised \/ Access)

FetchValid == ~move /\ Aligned(pc)

StopM(in) == DataValid /\ ~in.dok

\* A division by zero is answered at once; the multiplier and the dividers run
\* for a valid, faultless instruction only, and never answer another.
AluBusy(in) == dataD.instr.op = "MULT" /\ ~in.mok
StopE(in) == Good(dataD) /\ AluBusy(in)

Result == Alu(dataD.instr, dataD.srca, dataD.rd2)

\* What the memory stage hands on: a load's data, else the execute result.
MemResult(in) ==
    IF dataE.instr.op = "LD"
    THEN IF Aligned(dataE.result) THEN mem[dataE.result] ELSE in.junk
    ELSE dataE.result

Writes(stage, r) == Good(stage) /\ RegWrite(stage.instr) /\ stage.instr.rd = r

\* The write of the same cycle is not forwarded.
Bug_SelectNoWriteback(in, r) ==
    IF r = 0 THEN regs[0]
    ELSE IF Writes(dataD, r) THEN Result
    ELSE IF Writes(dataE, r) THEN MemResult(in)
    ELSE regs[r]

\* select.sv: the youngest older instruction that writes r, else the register.
Select(in, r) ==
    IF r = 0 THEN regs[0]
    ELSE IF Writes(dataD, r) THEN Result
    ELSE IF Writes(dataE, r) THEN MemResult(in)
    ELSE IF Writes(dataM, r) THEN dataM.result
    ELSE regs[r]

LoadUse(r) == r # 0 /\ Writes(dataD, r) /\ dataD.instr.op = "LD"

\* immediate.sv: only these operations wait for a load in the execute stage.
StopD ==
    /\ Good(dataF)
    /\ \/ dataF.instr.op \in {"ALU", "MULT"} /\ (LoadUse(dataF.instr.rs1) \/ LoadUse(dataF.instr.rs2))
       \/ dataF.instr.op \in {"LD", "SD", "CSR"} /\ LoadUse(dataF.instr.rs1)

Stop(in) == StopD \/ StopE(in) \/ StopM(in)
StopF(in) == Aligned(pc) /\ (~in.iok \/ Stop(in))

Branch == Good(dataD) /\ IsBranch(dataD.instr)
Jump == Target(dataD.instr, dataD.pc, dataD.rd1, dataD.rd2)
-----------------------------------------------------------------------------
(* The csr unit's flush, and what it leaves in the csrs and in pc. *)

FlushDE(in) == ~StopM(in) /\ (Raised \/ Interrupt \/ Access)

\* pc is taken to the handler under a fetch that the cache is working on.
Bug_FlushAllAtOnce(in) == FlushDE(in)

FlushAll(in) == FlushDE(in) /\ ~StopF(in)

CsrPc ==
    IF Raised \/ Interrupt THEN csr.mtvec
    ELSE IF dataM.instr.op = "MRET" THEN csr.mepc
    ELSE NextPC(dataM.pc)

CsrNext ==
    CASE Raised                  -> Trapped(csr, Cause(dataM.error, csr.mode), dataM.pc)
      [] ~Raised /\ Interrupt    -> Trapped(csr, InterruptCause, dataM.pc)
      [] OTHER                   ->
            IF dataM.instr.op = "MRET" THEN Returned(csr)
            ELSE Written(csr, CsrName(dataM.instr), dataM.csr)
-----------------------------------------------------------------------------
(* What the clock edge puts into each stage. *)

PcNext(in) ==
    IF FlushAll(in) THEN CsrPc
    ELSE IF Branch THEN Jump
    ELSE IF StopF(in) THEN pc
    ELSE NextPC(pc)

FetchStage(in) ==
    IF FlushAll(in) THEN Bubble
    ELSE IF Stop(in) THEN dataF
    ELSE IF Branch \/ (Aligned(pc) /\ ~in.iok) THEN Bubble
    ELSE [valid |-> TRUE, pc |-> pc, instr |-> in.word,
          error |-> IF Aligned(pc) THEN "NOERROR" ELSE "FETCHERROR"]

Decode(in) ==
    LET i == dataF.instr
        r1 == Select(in, i.rs1)
    IN  [valid |-> TRUE, pc |-> dataF.pc, instr |-> i,
         error |-> IF dataF.error = "NOERROR" /\ Undecodable(i) THEN "DECODEERRRE"
                   ELSE dataF.error,
         srca |-> CASE i.op = "JALR"           -> dataF.pc
                    [] i.op \in {"CSR", "CSRI"} -> ReadCsr(csr, CsrName(i))
                    [] OTHER                   -> r1,
         rd1 |-> r1,
         rd2 |-> Select(in, i.rs2)]

DecodeStage(in) ==
    IF FlushDE(in) THEN Bubble
    ELSE IF StopE(in) \/ StopM(in) THEN dataD
    ELSE IF Branch \/ StopD \/ ~dataF.valid THEN Bubble
    ELSE Decode(in)

\* The execute stage forgets that it is held, so the instruction is accessed twice.
Bug_ExecuteNotHeld(in) ==
    IF FlushDE(in) THEN Bubble
    ELSE IF ~dataD.valid \/ AluBusy(in) THEN Bubble
    ELSE [valid |-> TRUE, pc |-> dataD.pc, instr |-> dataD.instr, error |-> dataD.error,
          result |-> Result, rd2 |-> dataD.rd2,
          csr |-> IF dataD.instr.op = "CSRI" THEN dataD.instr.imm ELSE dataD.rd1]

\* A multiplication goes on to dataE in every cycle it waits.
Bug_ExecuteNotWaiting(in) ==
    IF FlushDE(in) THEN Bubble
    ELSE IF StopM(in) THEN dataE
    ELSE IF ~dataD.valid THEN Bubble
    ELSE [valid |-> TRUE, pc |-> dataD.pc, instr |-> dataD.instr, error |-> dataD.error,
          result |-> Result, rd2 |-> dataD.rd2,
          csr |-> IF dataD.instr.op = "CSRI" THEN dataD.instr.imm ELSE dataD.rd1]

ExecuteStage(in) ==
    IF FlushDE(in) THEN Bubble
    ELSE IF StopM(in) THEN dataE
    ELSE IF ~dataD.valid \/ AluBusy(in) THEN Bubble
    ELSE [valid |-> TRUE, pc |-> dataD.pc, instr |-> dataD.instr, error |-> dataD.error,
          result |-> Result, rd2 |-> dataD.rd2,
          csr |-> IF dataD.instr.op = "CSRI" THEN dataD.instr.imm ELSE dataD.rd1]

\* MARK loses its decode error here, and a failed fetch that left MARK behind
\* its fetch error.
AccessError ==
    IF dataE.instr.op = "MARK" THEN "NOERROR"
    ELSE IF Good(dataE) /\ IsMem(dataE.instr) /\ ~Aligned(dataE.result)
    THEN IF dataE.instr.op = "LD" THEN "LOADERROR" ELSE "STOREERROR"
    ELSE dataE.error

\* The memory stage is not held while the flush waits for the fetch.
Bug_MemoryNotHeld(in) ==
    IF FlushAll(in) THEN Bubble
    ELSE IF ~dataE.valid \/ (IsMem(dataE.instr) /\ ~in.dok) THEN Bubble
    ELSE [valid |-> TRUE, pc |-> dataE.pc, instr |-> dataE.instr, error |-> AccessError,
          result |-> MemResult(in), csr |-> dataE.csr]

\* A faulty load or store makes no request, gets no answer, and is dropped here.
MemoryStage(in) ==
    IF FlushAll(in) THEN Bubble
    ELSE IF FlushDE(in) THEN dataM
    ELSE IF ~dataE.valid \/ (IsMem(dataE.instr) /\ ~in.dok) THEN Bubble
    ELSE [valid |-> TRUE, pc |-> dataE.pc, instr |-> dataE.instr, error |-> AccessError,
          result |-> MemResult(in), csr |-> dataE.csr]

\* regs_nxt of the register file.
RegsNext ==
    IF dataM.valid /\ RegWrite(dataM.instr)
    THEN SetReg(regs, dataM.instr.rd, dataM.result) ELSE regs
-----------------------------------------------------------------------------
(***************************************************************************)
(* The inputs of a clock.  A cache answers a request no sooner than in its *)
(* second cycle (DCache: COMPARETAG, then READY; an uncached access waits  *)
(* for the arbiter).  An interrupt line that has started a flush stays up  *)
(* until the flush is done; otherwise the lines move freely.               *)
(***************************************************************************)
Inputs ==
    [iok: IF FetchValid /\ ipend THEN BOOLEAN ELSE {FALSE},
     dok: IF DataValid /\ dpend THEN BOOLEAN ELSE {FALSE},
     mok: IF dataD.valid /\ dataD.instr.op = "MULT" THEN BOOLEAN ELSE {FALSE},
     word: IF Aligned(pc) THEN {program[pc]} ELSE Garbage,
     junk: IF DataValid /\ ~Aligned(dataE.result) THEN Word ELSE {0}]

Clock(in) ==
    /\ pc' = PcNext(in)
    /\ move' = (pc # PcNext(in))
    /\ dataF' = FetchStage(in)
    /\ dataD' = DecodeStage(in)
    /\ dataE' = ExecuteStage(in)
    /\ dataM' = MemoryStage(in)
    /\ regs' = RegsNext
    /\ csr' = IF FlushAll(in) THEN CsrNext ELSE csr
    /\ mem' = IF in.dok /\ dataE.instr.op = "SD" /\ Aligned(dataE.result)
              THEN [mem EXCEPT ![dataE.result] = dataE.rd2] ELSE mem
    /\ ipend' = (FetchValid /\ ~in.iok)
    /\ dpend' = (DataValid /\ ~in.dok)
    /\ intr' \in IF Interrupt /\ FlushDE(in) /\ ~FlushAll(in) THEN {TRUE} ELSE Lines
    /\ UNCHANGED program

\* An empty pipeline at the first instruction of a program.
Init ==
    /\ program \in Programs
    /\ pc = 0
    /\ move \in BOOLEAN
    /\ dataF = Bubble /\ dataD = Bubble /\ dataE = Bubble /\ dataM = Bubble
    /\ regs = [r \in Reg |-> 0]
    /\ csr \in CsrStates
    /\ mem \in Memories
    /\ ipend = FALSE /\ dpend = FALSE
    /\ intr \in Lines

Step == \E in \in Inputs : Clock(in)

Next == Step

Spec == Init /\ [][Next]_vars
=============================================================================
