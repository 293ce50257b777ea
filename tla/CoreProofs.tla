----------------------------- MODULE CoreProofs -----------------------------
(***************************************************************************)
(* Proofs about the pipeline of Core, for every program, word size, number *)
(* of registers and latency of the caches.                                 *)
(* Inv (CoreProps) says how the stages are occupied, OrderInv what they    *)
(* hold; both are inductive, and InOrder follows from the two.             *)
(***************************************************************************)
EXTENDS CoreProps, TLAPS

-----------------------------------------------------------------------------
(* Words and the operators on them. *)

\* Addresses wrap around and stay addresses.
LEMMA PlusWord == ASSUME NEW a \in Nat, NEW b \in Nat PROVE Plus(a, b) \in Word
BY SizeAssumption DEF Plus, Word

\* The next instruction is another one, aligned if and only if this one is.
LEMMA NextPCMoves ==
    ASSUME NEW a \in Word
    PROVE  NextPC(a) \in Word /\ NextPC(a) # a /\ (Aligned(NextPC(a)) <=> Aligned(a))
<1>1. NextPC(a) \in Word
  <2>1. a \in Nat
    BY SizeAssumption DEF Word
  <2> QED
    BY <2>1, PlusWord DEF NextPC
<1>2. CASE a + 2 < Size
  <2>1. NextPC(a) = a + 2
    BY <1>2, SizeAssumption DEF NextPC, Plus, Word
  <2> QED
    BY <1>1, <2>1, SizeAssumption DEF Aligned, Word
<1>3. CASE a + 2 >= Size
  <2>1. NextPC(a) = a + 2 - Size
    BY <1>3, SizeAssumption DEF NextPC, Plus, Word
  <2> QED
    BY <1>1, <2>1, SizeAssumption DEF Aligned, Word
<1> QED
  BY <1>2, <1>3, SizeAssumption DEF Word

\* A product of words is a natural number.
LEMMA ProductNat == ASSUME NEW a \in Nat, NEW b \in Nat PROVE a * b \in Nat
OBVIOUS

\* The execute stage computes a word.
LEMMA AluWord ==
    ASSUME NEW i \in Instruction, NEW a \in Word, NEW b \in Word
    PROVE  Alu(i, a, b) \in Word
<1>1. a \in Nat /\ b \in Nat /\ i.imm \in Nat /\ 0 \in Word /\ Word \subseteq Nat
  BY SizeAssumption DEF Word, Instruction
<1>2. Plus(a, b) \in Word /\ Plus(a, i.imm) \in Word /\ Plus(Plus(a, b), i.imm) \in Word
  BY <1>1, PlusWord
<1>3. Plus(a * b, i.imm) \in Word
  BY <1>1, ProductNat, PlusWord
<1>4. NextPC(a) \in Word
  BY NextPCMoves
<1> QED
  BY <1>1, <1>2, <1>3, <1>4 DEF Alu

\* Control goes on at a word.
LEMMA TargetWord ==
    ASSUME NEW i \in Instruction, NEW a \in Word, NEW r1 \in Word, NEW r2 \in Word
    PROVE  Target(i, a, r1, r2) \in Word
<1>1. a \in Nat /\ r1 \in Nat /\ i.imm \in Nat
  BY SizeAssumption DEF Word, Instruction
<1>2. Plus(r1, i.imm) \in Word /\ Plus(a, i.imm) \in Word /\ NextPC(a) \in Word
  BY <1>1, PlusWord, NextPCMoves
<1> QED
  BY <1>2 DEF Target

\* A write of a word leaves a register file.
LEMMA SetRegType ==
    ASSUME NEW rf \in [Reg -> Word], NEW r, NEW v \in Word
    PROVE  SetReg(rf, r, v) \in [Reg -> Word]
BY DEF SetReg
-----------------------------------------------------------------------------
(* Types. *)

\* What the inputs of a clock are.
LEMMA InputTypes ==
    ASSUME TypeOK, NEW in \in Inputs
    PROVE  /\ in.iok \in BOOLEAN /\ in.dok \in BOOLEAN /\ in.mok \in BOOLEAN
           /\ in.word \in Instruction
           /\ in.junk \in Word
           /\ in.iok => FetchValid /\ ipend
           /\ in.dok => DataValid /\ dpend
<1>1. in.iok \in (IF FetchValid /\ ipend THEN BOOLEAN ELSE {FALSE})
  BY DEF Inputs
<1>2. in.dok \in (IF DataValid /\ dpend THEN BOOLEAN ELSE {FALSE})
  BY DEF Inputs
<1>3. in.mok \in BOOLEAN
  BY DEF Inputs
<1>4. in.word \in Instruction
  <2>1. in.word \in (IF Aligned(pc) THEN {program[pc]} ELSE Garbage)
    BY DEF Inputs
  <2>2. program \in [PC -> Instruction] /\ pc \in Word
    BY DEF TypeOK, PipeTypeOK
  <2> QED
    BY <2>1, <2>2, ProgramAssumption DEF PC
<1>5. in.junk \in Word
  BY SizeAssumption DEF Inputs, Word
<1> QED
  BY <1>1, <1>2, <1>3, <1>4, <1>5

\* What a stage that holds an instruction holds.
LEMMA StageTypes ==
    ASSUME TypeOK
    PROVE  /\ dataF.valid => /\ dataF.pc \in Word /\ dataF.instr \in Instruction
                             /\ dataF.error \in Errors
           /\ dataD.valid => /\ dataD.pc \in Word /\ dataD.instr \in Instruction
                             /\ dataD.error \in Errors
                             /\ dataD.srca \in Word /\ dataD.rd1 \in Word /\ dataD.rd2 \in Word
           /\ dataE.valid => /\ dataE.pc \in Word /\ dataE.instr \in Instruction
                             /\ dataE.error \in Errors
                             /\ dataE.result \in Word /\ dataE.rd2 \in Word /\ dataE.csr \in Word
           /\ dataM.valid => /\ dataM.pc \in Word /\ dataM.instr \in Instruction
                             /\ dataM.error \in Errors
                             /\ dataM.result \in Word /\ dataM.csr \in Word
<1>1. dataF \in Fetched /\ dataD \in Decoded /\ dataE \in Executed /\ dataM \in Accessed
  BY DEF TypeOK, PipeTypeOK
<1>2. ~Bubble.valid
  BY DEF Bubble
<1>3. ASSUME dataF.valid
      PROVE  dataF \in [valid: {TRUE}, pc: Word, instr: Instruction, error: Errors]
  BY <1>1, <1>2, <1>3 DEF Fetched
<1>4. ASSUME dataD.valid
      PROVE  dataD \in [valid: {TRUE}, pc: Word, instr: Instruction, error: Errors,
                        srca: Word, rd1: Word, rd2: Word]
  BY <1>1, <1>2, <1>4 DEF Decoded
<1>5. ASSUME dataE.valid
      PROVE  dataE \in [valid: {TRUE}, pc: Word, instr: Instruction, error: Errors,
                        result: Word, rd2: Word, csr: Word]
  BY <1>1, <1>2, <1>5 DEF Executed
<1>6. ASSUME dataM.valid
      PROVE  dataM \in [valid: {TRUE}, pc: Word, instr: Instruction, error: Errors,
                        result: Word, csr: Word]
  BY <1>1, <1>2, <1>6 DEF Accessed
<1> QED
  BY <1>3, <1>4, <1>5, <1>6

\* What the memory stage hands on is a word.
LEMMA MemResultWord ==
    ASSUME TypeOK, dataE.valid, NEW in \in Inputs
    PROVE  MemResult(in) \in Word
<1>1. dataE.result \in Word /\ mem \in [PC -> Word] /\ in.junk \in Word
  BY InputTypes, StageTypes DEF TypeOK, PipeTypeOK
<1> QED
  BY <1>1 DEF MemResult, PC

\* So is what the execute stage computes.
LEMMA ResultWord == ASSUME TypeOK, dataD.valid PROVE Result \in Word
<1>1. dataD.instr \in Instruction /\ dataD.srca \in Word /\ dataD.rd2 \in Word
  BY StageTypes
<1> QED
  BY <1>1, AluWord DEF Result

\* An operand is a word, wherever it comes from.
LEMMA SelectWord ==
    ASSUME TypeOK, NEW in \in Inputs, NEW r \in Reg
    PROVE  Select(in, r) \in Word
<1>1. regs[r] \in Word /\ regs[0] \in Word
  BY RegAssumption DEF TypeOK, PipeTypeOK, Reg
<1>2. Writes(dataD, r) => Result \in Word
  BY ResultWord DEF Writes, Good
<1>3. Writes(dataE, r) => MemResult(in) \in Word
  BY MemResultWord DEF Writes, Good
<1>4. Writes(dataM, r) => dataM.result \in Word
  BY StageTypes DEF Writes, Good
<1> QED
  BY <1>1, <1>2, <1>3, <1>4 DEF Select

\* Every stage is a bubble, what it was, or what the stage before it made.
LEMMA FetchStageType ==
    ASSUME TypeOK, NEW in \in Inputs
    PROVE  FetchStage(in) \in Fetched
<1>1. in.word \in Instruction /\ dataF \in Fetched /\ pc \in Word
  BY InputTypes DEF TypeOK, PipeTypeOK
<1>2. [valid |-> TRUE, pc |-> pc, instr |-> in.word,
       error |-> IF Aligned(pc) THEN "NOERROR" ELSE "FETCHERROR"] \in Fetched
  BY <1>1 DEF Fetched, Errors
<1> QED
  BY <1>1, <1>2 DEF FetchStage, Fetched

\* What decode makes of an instruction.
LEMMA DecodeType ==
    ASSUME TypeOK, dataF.valid, NEW in \in Inputs
    PROVE  Decode(in) \in Decoded
<1> DEFINE r1 == Select(in, dataF.instr.rs1)
           r2 == Select(in, dataF.instr.rs2)
           err == IF dataF.error = "NOERROR" /\ Undecodable(dataF.instr) THEN "DECODEERRRE"
                  ELSE dataF.error
           a == CASE dataF.instr.op = "JALR"           -> dataF.pc
                  [] dataF.instr.op \in {"CSR", "CSRI"} -> ReadCsr(csr, CsrName(dataF.instr))
                  [] OTHER                             -> r1
<1>1. dataF.instr \in Instruction /\ dataF.pc \in Word /\ dataF.error \in Errors
  BY StageTypes
<1>2. dataF.instr.rs1 \in Reg /\ dataF.instr.rs2 \in Reg /\ dataF.instr.csr \in {"mtvec", "mepc"}
  BY <1>1 DEF Instruction, Csrs
<1>3. r1 \in Word /\ r2 \in Word
  BY <1>2, SelectWord
<1>4. ReadCsr(csr, CsrName(dataF.instr)) \in Word
  <2>1. csr.mtvec \in Word /\ csr.mepc \in Word /\ 0 \in Word
    BY SizeAssumption DEF TypeOK, PipeTypeOK, CsrState, Word
  <2> QED
    BY <1>2, <2>1 DEF ReadCsr, CsrName
<1>5. a \in Word
  BY <1>1, <1>3, <1>4
<1>6. err \in Errors
  BY <1>1 DEF Errors
<1>7. Decode(in) = [valid |-> TRUE, pc |-> dataF.pc, instr |-> dataF.instr, error |-> err,
                    srca |-> a, rd1 |-> r1, rd2 |-> r2]
  BY DEF Decode
<1> HIDE DEF r1, r2, err, a
<1> QED
  BY <1>1, <1>3, <1>5, <1>6, <1>7 DEF Decoded

\* dataD keeps its type.
LEMMA DecodeStageType ==
    ASSUME TypeOK, NEW in \in Inputs
    PROVE  DecodeStage(in) \in Decoded
<1>1. dataD \in Decoded /\ Bubble \in Decoded
  BY DEF TypeOK, PipeTypeOK, Decoded
<1> QED
  BY <1>1, DecodeType DEF DecodeStage

\* dataE keeps its type.
LEMMA ExecuteStageType ==
    ASSUME TypeOK, NEW in \in Inputs
    PROVE  ExecuteStage(in) \in Executed
<1> DEFINE v == IF dataD.instr.op = "CSRI" THEN dataD.instr.imm ELSE dataD.rd1
<1>1. dataE \in Executed /\ Bubble \in Executed
  BY DEF TypeOK, PipeTypeOK, Executed
<1>2. ASSUME dataD.valid
      PROVE  [valid |-> TRUE, pc |-> dataD.pc, instr |-> dataD.instr, error |-> dataD.error,
              result |-> Result, rd2 |-> dataD.rd2, csr |-> v] \in Executed
  <2>1. /\ dataD.pc \in Word /\ dataD.instr \in Instruction /\ dataD.error \in Errors
        /\ dataD.rd1 \in Word /\ dataD.rd2 \in Word
    BY <1>2, StageTypes
  <2>2. v \in Word
    BY <2>1 DEF Instruction
  <2>3. Result \in Word
    BY <1>2, ResultWord
  <2> HIDE DEF v
  <2> QED
    BY <2>1, <2>2, <2>3 DEF Executed
<1> QED
  BY <1>1, <1>2 DEF ExecuteStage

\* dataM keeps its type.
LEMMA MemoryStageType ==
    ASSUME TypeOK, NEW in \in Inputs
    PROVE  MemoryStage(in) \in Accessed
<1>1. dataM \in Accessed /\ Bubble \in Accessed
  BY DEF TypeOK, PipeTypeOK, Accessed
<1>2. ASSUME dataE.valid
      PROVE  [valid |-> TRUE, pc |-> dataE.pc, instr |-> dataE.instr, error |-> AccessError,
              result |-> MemResult(in), csr |-> dataE.csr] \in Accessed
  <2>1. /\ dataE.pc \in Word /\ dataE.instr \in Instruction /\ dataE.error \in Errors
        /\ dataE.csr \in Word
    BY <1>2, StageTypes
  <2>2. AccessError \in Errors
    BY <2>1 DEF AccessError, Errors
  <2>3. MemResult(in) \in Word
    BY <1>2, MemResultWord
  <2> QED
    BY <2>1, <2>2, <2>3 DEF Accessed
<1> QED
  BY <1>1, <1>2 DEF MemoryStage

\* pc stays an address.
LEMMA PcNextWord ==
    ASSUME TypeOK, NEW in \in Inputs
    PROVE  PcNext(in) \in Word
<1>1. pc \in Word /\ csr.mtvec \in Word /\ csr.mepc \in Word
  BY DEF TypeOK, PipeTypeOK, CsrState
<1>2. dataM.valid => NextPC(dataM.pc) \in Word
  BY StageTypes, NextPCMoves
<1>3. FlushAll(in) => CsrPc \in Word
  BY <1>1, <1>2 DEF FlushAll, FlushDE, Raised, Interrupt, Access, CsrPc
<1>4. Branch => Jump \in Word
  BY StageTypes, TargetWord DEF Branch, Good, Jump
<1>5. NextPC(pc) \in Word
  BY <1>1, NextPCMoves
<1> QED
  BY <1>1, <1>3, <1>4, <1>5 DEF PcNext

\* The csrs stay csrs, whatever the flush writes.
LEMMA CsrNextType ==
    ASSUME TypeOK, dataM.valid, Raised \/ Interrupt \/ Access
    PROVE  CsrNext \in CsrState
<1>1. /\ csr \in CsrState /\ dataM.pc \in Word /\ dataM.csr \in Word
      /\ dataM.instr \in Instruction /\ dataM.error \in Errors
  BY StageTypes DEF TypeOK, PipeTypeOK
<1>2. /\ csr.mtvec \in Word /\ csr.mepc \in Word /\ csr.mcause \in Causes
      /\ csr.mie \in BOOLEAN /\ csr.mpie \in BOOLEAN /\ csr.mpp \in {0, 3} /\ csr.mode \in {0, 3}
  BY <1>1 DEF CsrState
<1>3. ASSUME NEW cause \in Causes
      PROVE  Trapped(csr, cause, dataM.pc) \in CsrState
  BY <1>1, <1>2, <1>3 DEF Trapped, CsrState
<1>4. Cause(dataM.error, csr.mode) \in Causes
  BY DEF Cause, Causes
<1>5. InterruptCause \in Causes
  BY DEF Causes
<1>6. Returned(csr) \in CsrState
  BY <1>1, <1>2 DEF Returned, CsrState
<1>7. CsrName(dataM.instr) \in Csrs
  BY <1>1 DEF CsrName, Csrs, Instruction
<1>8. ASSUME NEW name \in Csrs
      PROVE  Written(csr, name, dataM.csr) \in CsrState
  BY <1>1, <1>2, <1>8 DEF Written, CsrState, Csrs
<1> QED
  BY <1>3, <1>4, <1>5, <1>6, <1>7, <1>8 DEF CsrNext

\* Every clock keeps the types.
LEMMA TypeStep == ASSUME TypeOK, Step PROVE TypeOK'
<1>1. PICK in \in Inputs : Clock(in)
  BY DEF Step
<1>2. program' \in [PC -> Instruction]
  BY <1>1 DEF Clock, TypeOK, PipeTypeOK
<1>3. pc' \in Word
  BY <1>1, PcNextWord DEF Clock
<1>4. dataF' \in Fetched /\ dataD' \in Decoded /\ dataE' \in Executed /\ dataM' \in Accessed
  BY <1>1, FetchStageType, DecodeStageType, ExecuteStageType, MemoryStageType DEF Clock
<1>5. regs' \in [Reg -> Word]
  <2>1. regs \in [Reg -> Word] /\ (dataM.valid => dataM.result \in Word)
    BY StageTypes DEF TypeOK, PipeTypeOK
  <2>2. regs' = RegsNext
    BY <1>1 DEF Clock
  <2> QED
    BY <2>1, <2>2, SetRegType DEF RegsNext
<1>6. csr' \in CsrState
  <2>1. csr \in CsrState
    BY DEF TypeOK, PipeTypeOK
  <2>2. FlushAll(in) => dataM.valid /\ (Raised \/ Interrupt \/ Access)
    BY DEF FlushAll, FlushDE, Raised, Interrupt, Access
  <2> QED
    BY <1>1, <2>1, <2>2, CsrNextType DEF Clock
<1>7. mem' \in [PC -> Word]
  <2>1. mem \in [PC -> Word]
    BY DEF TypeOK, PipeTypeOK
  <2>2. in.dok => dataE.valid
    BY InputTypes DEF DataValid, Good
  <2>3. in.dok => dataE.rd2 \in Word
    BY <2>2, StageTypes
  <2>4. mem' = IF in.dok /\ dataE.instr.op = "SD" /\ Aligned(dataE.result)
               THEN [mem EXCEPT ![dataE.result] = dataE.rd2] ELSE mem
    BY <1>1 DEF Clock
  <2> QED
    BY <2>1, <2>3, <2>4
<1>8. move' \in BOOLEAN /\ ipend' \in BOOLEAN /\ dpend' \in BOOLEAN
  <2>1. move' = (pc # PcNext(in)) /\ ipend' = (FetchValid /\ ~in.iok)
        /\ dpend' = (DataValid /\ ~in.dok)
    BY <1>1 DEF Clock
  <2> QED
    BY <2>1
<1>9. intr' \in BOOLEAN
  <2>1. intr' \in IF Interrupt /\ FlushDE(in) /\ ~FlushAll(in) THEN {TRUE} ELSE Lines
    BY <1>1 DEF Clock
  <2> QED
    BY <2>1, ProgramAssumption
<1> QED
  BY <1>2, <1>3, <1>4, <1>5, <1>6, <1>7, <1>8, <1>9 DEF TypeOK, PipeTypeOK

\* The first state is typed.
LEMMA TypeInit == ASSUME Init PROVE TypeOK
<1>1. program \in [PC -> Instruction] /\ intr \in BOOLEAN
  BY ProgramAssumption DEF Init
<1>2. 0 \in Word /\ pc \in Word /\ regs \in [Reg -> Word]
  BY SizeAssumption DEF Init, Word
<1>3. csr \in CsrState /\ mem \in [PC -> Word]
  BY StateAssumption DEF Init
<1>4. dataF \in Fetched /\ dataD \in Decoded /\ dataE \in Executed /\ dataM \in Accessed
  BY DEF Init, Fetched, Decoded, Executed, Accessed
<1>5. move \in BOOLEAN /\ ipend \in BOOLEAN /\ dpend \in BOOLEAN
  BY DEF Init
<1> QED
  BY <1>1, <1>2, <1>3, <1>4, <1>5 DEF TypeOK, PipeTypeOK

\* A step that changes nothing keeps the types.
LEMMA TypeStutter == ASSUME TypeOK, UNCHANGED vars PROVE TypeOK'
BY DEF TypeOK, PipeTypeOK, vars

\* Every register of the pipeline holds a value of its kind, for every program.
THEOREM TypeCorrect == Spec => []TypeOK
<1>1. Init => TypeOK
  BY TypeInit
<1>2. TypeOK /\ [Next]_vars => TypeOK'
  BY TypeStep, TypeStutter DEF Next
<1> QED
  BY <1>1, <1>2, PTL DEF Spec
-----------------------------------------------------------------------------
(* The occupation of the stages. *)

\* An instruction is one that was fetched without an error.
LEMMA StageFacts ==
    ASSUME NEW s
    PROVE  /\ Good(s) => Real(s)
           /\ ~(Real(s) /\ Failed(s))
           /\ s = Bubble => ~Real(s) /\ ~Failed(s) /\ ~Good(s) /\ ~s.valid
BY DEF Good, Real, Failed, Bubble

\* No instruction waits in dataF: whatever stalls it would be its neighbour.
LEMMA FetchNeverHeld ==
    ASSUME Inv, Real(dataF), NEW in
    PROVE  ~Stop(in)
<1>1. ~Good(dataD)
  BY StageFacts DEF Inv, InFetch
<1>2. ~StopD /\ ~StopE(in)
  BY <1>1 DEF StopD, LoadUse, Writes, StopE
<1>3. ~StopM(in)
  BY StageFacts DEF Inv, InFetch, StopM, DataValid, IsMem
<1> QED
  BY <1>2, <1>3 DEF Stop

\* What waits in dataD waits for the multiplier.
LEMMA DecodeHeld ==
    ASSUME Inv, Real(dataD), NEW in
    PROVE  /\ ~StopM(in)
           /\ StopE(in) => Good(dataD) /\ dataD.instr.op = "MULT"
BY StageFacts DEF Inv, InDecode, StopM, DataValid, StopE, AluBusy

\* What a stage holds after a clock that makes it hold an instruction.
LEMMA NewFetch ==
    ASSUME TypeOK, Inv, NEW in \in Inputs, FetchStage(in).valid
    PROVE  \/ /\ Stop(in) /\ FetchStage(in) = dataF /\ ~Real(dataF)
           \/ /\ ~Stop(in) /\ ~FlushAll(in) /\ ~Branch
              /\ FetchStage(in).error = IF Aligned(pc) THEN "NOERROR" ELSE "FETCHERROR"
              /\ Aligned(pc) => in.iok
BY FetchNeverHeld, StageFacts DEF FetchStage

\* dataD is filled from dataF, or waits.
LEMMA NewDecode ==
    ASSUME TypeOK, Inv, NEW in \in Inputs, DecodeStage(in).valid
    PROVE  /\ ~FlushDE(in)
           /\ \/ (StopE(in) \/ StopM(in)) /\ DecodeStage(in) = dataD
              \/ /\ ~StopE(in) /\ ~StopM(in) /\ ~Branch /\ ~StopD /\ dataF.valid
                 /\ Real(DecodeStage(in)) <=> Real(dataF)
                 /\ Failed(DecodeStage(in)) <=> Failed(dataF)
<1>1. Decode(in).valid /\ Decode(in).error = (IF dataF.error = "NOERROR" /\ Undecodable(dataF.instr)
                                              THEN "DECODEERRRE" ELSE dataF.error)
  BY DEF Decode
<1> QED
  BY <1>1, StageFacts DEF DecodeStage, Real, Failed

\* dataE is filled from dataD, or waits for the data cache.
LEMMA NewExecute ==
    ASSUME TypeOK, Inv, NEW in \in Inputs, ExecuteStage(in).valid
    PROVE  /\ ~FlushDE(in)
           /\ \/ StopM(in) /\ ExecuteStage(in) = dataE
              \/ /\ ~StopM(in) /\ dataD.valid /\ ~AluBusy(in)
                 /\ ExecuteStage(in).error = dataD.error /\ ExecuteStage(in).instr = dataD.instr
BY StageFacts DEF ExecuteStage

\* dataM is filled from dataE, or waits for its flush; a failed fetch in dataE may
\* reach it as an instruction (AccessError).
LEMMA NewMemory ==
    ASSUME TypeOK, Inv, NEW in \in Inputs, MemoryStage(in).valid
    PROVE  /\ ~FlushAll(in)
           /\ \/ FlushDE(in) /\ MemoryStage(in) = dataM
              \/ /\ ~FlushDE(in) /\ dataE.valid
                 /\ Failed(MemoryStage(in)) => Failed(dataE)
<1>1. dataE.valid => (AccessError = "FETCHERROR" => dataE.error = "FETCHERROR")
  BY DEF AccessError, Good
<1> QED
  BY <1>1, StageFacts DEF MemoryStage, Real, Failed

\* pc leaves the instruction words only by a branch or a flush.
LEMMA OffTheWordsNext ==
    ASSUME TypeOK, NEW in \in Inputs
    PROVE  \/ FlushAll(in)
           \/ Branch
           \/ Aligned(PcNext(in)) <=> Aligned(pc)
<1>1. pc \in Word
  BY DEF TypeOK, PipeTypeOK
<1> QED
  BY <1>1, NextPCMoves DEF PcNext

\* A flush of all stages leaves all of them empty.
LEMMA FlushedAll ==
    ASSUME NEW in, FlushAll(in)
    PROVE  /\ FetchStage(in) = Bubble /\ DecodeStage(in) = Bubble
           /\ ExecuteStage(in) = Bubble /\ MemoryStage(in) = Bubble
BY DEF FlushAll, FetchStage, DecodeStage, ExecuteStage, MemoryStage

\* A branch in dataD is not held, and what follows it is dropped.
LEMMA BranchEmpties ==
    ASSUME TypeOK, Inv, NEW in \in Inputs, Branch
    PROVE  ~Real(FetchStage(in)) /\ DecodeStage(in) = Bubble
<1>1. ~StopE(in) /\ ~StopM(in)
  BY DecodeHeld, StageFacts DEF Branch, IsBranch
<1>2. DecodeStage(in) = Bubble
  BY <1>1 DEF DecodeStage
<1>3. ~Real(FetchStage(in))
  BY NewFetch DEF Real
<1> QED
  BY <1>2, <1>3

\* Every clock keeps the occupation.
LEMMA InvStep == ASSUME TypeOK, Inv, Step PROVE Inv'
<1>1. PICK in \in Inputs : Clock(in)
  BY DEF Step
<1>2. /\ dataF' = FetchStage(in) /\ dataD' = DecodeStage(in)
      /\ dataE' = ExecuteStage(in) /\ dataM' = MemoryStage(in)
      /\ pc' = PcNext(in) /\ move' = (pc # PcNext(in))
      /\ ipend' = (FetchValid /\ ~in.iok)
  BY <1>1 DEF Clock
<1>3. in.iok => FetchValid /\ ipend
  BY InputTypes
<1>4. pc \in Word
  BY DEF TypeOK, PipeTypeOK
<1>5. InFetch'
  <2> SUFFICES ASSUME Real(dataF')
               PROVE  move' /\ ~ipend' /\ ~Real(dataD') /\ (Real(dataE') => dataE'.instr.op = "MULT")
    BY DEF InFetch, Real
  <2>1. ~Stop(in) /\ ~FlushAll(in) /\ ~Branch /\ Aligned(pc) /\ in.iok
    BY <1>2, NewFetch, StageFacts DEF Real
  <2>2. PcNext(in) = NextPC(pc)
    BY <2>1 DEF PcNext, StopF
  <2>3. move' /\ ~ipend'
    BY <1>2, <1>4, <2>1, <2>2, NextPCMoves
  <2>4. ~Real(dataF)
    BY <1>3, <2>1 DEF Inv, InFetch
  <2>5. ~Real(dataD')
    BY <1>2, <2>1, <2>4, NewDecode DEF Real, Stop
  <2>6. ASSUME Real(dataE') PROVE dataE'.instr.op = "MULT"
    <3>1. Real(dataD) /\ dataE'.instr = dataD.instr
      BY <1>2, <2>1, <2>6, NewExecute DEF Real, Stop
    <3> QED
      BY <1>3, <2>1, <3>1 DEF Inv, InDecode
  <2> QED
    BY <2>3, <2>5, <2>6
<1>6. InDecode'
  <2> SUFFICES ASSUME Real(dataD')
               PROVE  ~Real(dataE') /\ (ipend' => Good(dataD') /\ dataD'.instr.op = "MULT")
    BY DEF InDecode, Real, Good
  <2>1. CASE (StopE(in) \/ StopM(in)) /\ dataD' = dataD
    <3>1. StopE(in) /\ ~StopM(in) /\ Good(dataD) /\ dataD.instr.op = "MULT"
      BY <2>1, DecodeHeld DEF Real
    <3>2. ~Real(dataE')
      BY <1>2, <3>1, NewExecute DEF Real, StopE
    <3> QED
      BY <2>1, <3>1, <3>2 DEF Good
  <2>2. CASE ~StopM(in) /\ Real(dataF)
    <3>1. ~Real(dataD) /\ move
      BY <2>2 DEF Inv, InFetch
    <3>2. ~Real(dataE')
      BY <1>2, <2>2, <3>1, NewExecute DEF Real
    <3>3. ~ipend'
      BY <1>2, <3>1 DEF FetchValid
    <3> QED
      BY <3>2, <3>3
  <2> QED
    BY <1>2, <2>1, <2>2, NewDecode DEF Real
<1>7. InExecute'
  <2> SUFFICES ASSUME Real(dataE') PROVE ~Real(dataM')
    BY DEF InExecute, Real
  <2>1. CASE StopM(in) /\ dataE' = dataE
    <3>1. MemoryStage(in) = Bubble
      BY <2>1, StageFacts DEF MemoryStage, StopM, DataValid, FlushAll, FlushDE, Good
    <3> QED
      BY <1>2, <3>1 DEF Real, Bubble
  <2>2. CASE Real(dataD) /\ ~FlushDE(in)
    <3>1. ~Real(dataE) /\ Aligned(pc)
      BY <2>2 DEF Inv, InDecode, OffTheWords
    <3>2. ~dataE.valid
      BY <3>1 DEF Inv, AfterFailure, Real, Failed
    <3> QED
      BY <1>2, <2>2, <3>2, NewMemory DEF Real
  <2> QED
    BY <1>2, <2>1, <2>2, NewExecute DEF Real
<1>8. OffTheWords'
  <2> SUFFICES ASSUME ~Aligned(pc') PROVE ~Real(dataF') /\ ~Real(dataD')
    BY DEF OffTheWords, Aligned, Real
  <2>1. CASE FlushAll(in)
    BY <1>2, <2>1, FlushedAll, StageFacts
  <2>2. CASE Branch
    BY <1>2, <2>2, BranchEmpties, StageFacts
  <2>3. CASE ~Aligned(pc)
    <3>1. ~Real(dataF) /\ ~Real(dataD)
      BY <2>3 DEF Inv, OffTheWords
    <3>2. ~Real(dataF')
      BY <1>2, <2>3, <3>1, NewFetch DEF Real
    <3>3. ~Real(dataD')
      BY <1>2, <3>1, NewDecode DEF Real
    <3> QED
      BY <3>2, <3>3
  <2>4. Aligned(pc') <=> Aligned(PcNext(in))
    BY <1>2 DEF Aligned
  <2> QED
    BY <2>1, <2>2, <2>3, <2>4, OffTheWordsNext
<1>9. AfterFailure'
  <2>1. ASSUME Failed(dataF') \/ Failed(dataD') \/ Failed(dataE') \/ Failed(dataM')
        PROVE  ~Aligned(pc')
    <3>1. ~FlushAll(in)
      BY <1>2, <2>1, FlushedAll, StageFacts
    <3>2. Failed(dataF') => Failed(dataF) \/ ~Aligned(pc)
      BY <1>2, NewFetch DEF Failed
    <3>3. Failed(dataD') => Failed(dataF) \/ Failed(dataD)
      BY <1>2, NewDecode DEF Failed
    <3>4. Failed(dataE') => Failed(dataD) \/ Failed(dataE)
      BY <1>2, NewExecute DEF Failed
    <3>5. Failed(dataM') => Failed(dataE) \/ Failed(dataM)
      BY <1>2, NewMemory DEF Failed
    <3>6. ~Aligned(pc)
      BY <2>1, <3>2, <3>3, <3>4, <3>5 DEF Inv, AfterFailure
    <3>7. ~Branch
      BY <3>6, StageFacts DEF Inv, OffTheWords, Branch
    <3>8. Aligned(pc') <=> Aligned(PcNext(in))
      BY <1>2 DEF Aligned
    <3> QED
      BY <3>1, <3>6, <3>7, <3>8, OffTheWordsNext
  <2>2. ASSUME Failed(dataM') PROVE ~Real(dataE')
    <3>1. CASE FlushDE(in)
      BY <1>2, <3>1, NewExecute DEF Real
    <3>2. CASE Failed(dataE)
      <4>1. ~Real(dataD)
        BY <3>2 DEF Inv, AfterFailure, OffTheWords
      <4>2. ~StopM(in)
        BY <3>2, StageFacts DEF StopM, DataValid
      <4> QED
        BY <1>2, <4>1, <4>2, NewExecute DEF Real
    <3> QED
      BY <1>2, <2>2, <3>1, <3>2, NewMemory DEF Failed
  <2>3. ((Failed(dataF) \/ Failed(dataD) \/ Failed(dataE) \/ Failed(dataM)) => ~Aligned(pc))'
    BY <2>1 DEF Failed, Aligned
  <2>4. (Failed(dataM) => ~Real(dataE))'
    BY <2>2 DEF Failed, Real
  <2> QED
    BY <2>3, <2>4 DEF AfterFailure
<1> QED
  BY <1>5, <1>6, <1>7, <1>8, <1>9 DEF Inv

\* The empty pipeline is spaced.
LEMMA InvInit == ASSUME Init PROVE Inv
<1>1. ~Real(dataF) /\ ~Real(dataD) /\ ~Real(dataE) /\ ~Real(dataM)
  BY StageFacts DEF Init
<1>2. ~Failed(dataF) /\ ~Failed(dataD) /\ ~Failed(dataE) /\ ~Failed(dataM)
  BY StageFacts DEF Init
<1> QED
  BY <1>1, <1>2 DEF Inv, InFetch, InDecode, InExecute, OffTheWords, AfterFailure

\* A step that changes nothing keeps the occupation.
LEMMA InvStutter == ASSUME Inv, UNCHANGED vars PROVE Inv'
BY DEF Inv, InFetch, InDecode, InExecute, OffTheWords, AfterFailure, Real, Failed, Good,
       Aligned, vars

\* Inv says of two neighbours what Spaced says.
LEMMA InvSpaced == ASSUME Inv PROVE Spaced
BY DEF Inv, InFetch, InDecode, InExecute, Spaced

\* The occupation of the pipeline is invariant: an instruction is in dataF only
\* in the cycle after pc moved, and failed fetches are followed by failed ones.
THEOREM Occupation == Spec => []Inv
<1>1. Init => Inv
  BY InvInit
<1>2. TypeOK /\ Inv /\ [Next]_vars => Inv'
  BY InvStep, InvStutter DEF Next
<1> QED
  BY <1>1, <1>2, TypeCorrect, PTL DEF Spec

\* No two neighbouring stages hold instructions at once, whatever the latency
\* of the caches and the multiplier: the missing load-use stalls of branches and
\* stored data, and the fault that would be lost behind a load, never matter.
THEOREM Spacing == Spec => []Spaced
<1>1. Inv => Spaced
  BY InvSpaced
<1> QED
  BY <1>1, Occupation, PTL
-----------------------------------------------------------------------------
(* What every clock keeps to. *)

\* What flushes the pipeline is an instruction or a failed fetch in dataM, and
\* then no load or store is in dataE.
LEMMA NoAccessBehindFlush == ASSUME Inv, Flushing PROVE ~DataValid
<1>1. Real(dataM) \/ Failed(dataM)
  BY DEF Flushing, Raised, Interrupt, Access, Real, Failed
<1>2. ~Real(dataE)
  BY <1>1 DEF Inv, InExecute, AfterFailure
<1> QED
  BY <1>2, StageFacts DEF DataValid

\* A data request that is not answered is held.
LEMMA DataHeldStep ==
    ASSUME Step, DataValid, dpend' PROVE dataE' = dataE
<1>1. PICK in \in Inputs : Clock(in)
  BY DEF Step
<1>2. StopM(in)
  BY <1>1 DEF Clock, StopM
<1> QED
  BY <1>1, <1>2 DEF Clock, ExecuteStage, FlushDE

\* A data request is held unchanged until it is answered.
THEOREM DataRequestHeld == Spec => DataHeld
<1>1. [Next]_vars => [DataValid /\ dpend' => dataE' = dataE]_vars
  BY DataHeldStep DEF Next
<1> QED
  BY <1>1, PTL DEF Spec, DataHeld

\* After an answer dataE takes what dataD holds, and dataD holds no instruction.
LEMMA DataRestsStep ==
    ASSUME TypeOK, Inv, Step, DataValid, ~dpend' PROVE ~DataValid'
<1>1. PICK in \in Inputs : Clock(in)
  BY DEF Step
<1>2. dataE' = ExecuteStage(in) /\ ~StopM(in)
  BY <1>1 DEF Clock, StopM
<1>3. Real(dataE)
  BY StageFacts DEF DataValid
<1>4. ~Real(dataD)
  BY <1>3 DEF Inv, InDecode
<1>5. ~Real(dataE')
  BY <1>2, <1>4, NewExecute DEF Real
<1> QED
  BY <1>5 DEF DataValid, Good, Real

\* The cycle after an answer has no data request.
THEOREM DataRequestRests == Spec => DataRests
<1>1. TypeOK /\ Inv /\ [Next]_vars => [DataValid /\ ~dpend' => ~DataValid']_vars
  BY DataRestsStep DEF Next
<1> QED
  BY <1>1, TypeCorrect, Occupation, PTL DEF Spec, DataRests

\* A fetch that is not answered keeps pc where it is and is asked for again.
LEMMA FetchHeldStep ==
    ASSUME TypeOK, Inv, Step, FetchValid, ipend, ipend' PROVE FetchValid' /\ pc' = pc
<1>1. PICK in \in Inputs : Clock(in)
  BY DEF Step
<1>2. ~in.iok /\ Aligned(pc)
  BY <1>1 DEF Clock, FetchValid
<1>3. StopF(in) /\ ~FlushAll(in)
  BY <1>2 DEF StopF, FlushAll
<1>4. ~Branch
  BY StageFacts DEF Inv, InDecode, Branch, IsBranch
<1>5. pc' = pc /\ ~move'
  BY <1>1, <1>3, <1>4 DEF Clock, PcNext
<1> QED
  BY <1>2, <1>5 DEF FetchValid, Aligned

\* A fetch the cache is at work on is neither withdrawn nor moved.
THEOREM FetchRequestHeld == Spec => FetchHeld
<1>1. TypeOK /\ Inv /\ [Next]_vars
      => [FetchValid /\ ipend /\ ipend' => FetchValid' /\ pc' = pc]_vars
  BY FetchHeldStep DEF Next
<1> QED
  BY <1>1, TypeCorrect, Occupation, PTL DEF Spec, FetchHeld

\* What asks for a flush stays in dataM, with its reason, until the flush.
LEMMA FlushStep ==
    ASSUME TypeOK, Inv, Step, Flushing
    PROVE  \/ Flushing' /\ dataM' = dataM
           \/ pc' = CsrPc /\ ~(dataF'.valid \/ dataD'.valid \/ dataE'.valid \/ dataM'.valid)
<1>1. PICK in \in Inputs : Clock(in)
  BY DEF Step
<1>2. FlushDE(in)
  BY NoAccessBehindFlush DEF FlushDE, StopM, Flushing
<1>3. CASE FlushAll(in)
  BY <1>1, <1>3, FlushedAll DEF Clock, PcNext, Bubble
<1>4. CASE ~FlushAll(in)
  <2>1. dataM' = dataM /\ csr' = csr
    BY <1>1, <1>2, <1>4 DEF Clock, MemoryStage
  <2>2. Interrupt => intr' = TRUE
    BY <1>1, <1>2, <1>4 DEF Clock
  <2>3. Flushing'
    BY <2>1, <2>2 DEF Flushing, Raised, Interrupt, Access
  <2> QED
    BY <2>1, <2>3
<1> QED
  BY <1>3, <1>4

\* No fault, csr access, return or interrupt in dataM is lost: it stays until
\* the flush that empties the pipeline and takes pc where it says.
THEOREM FlushNotLost == Spec => FlushCarriedOut
<1>1. TypeOK /\ Inv /\ [Next]_vars
      => [Flushing => \/ Flushing' /\ dataM' = dataM
                      \/ /\ pc' = CsrPc
                         /\ ~(dataF'.valid \/ dataD'.valid \/ dataE'.valid \/ dataM'.valid)]_vars
  BY FlushStep DEF Next
<1> QED
  BY <1>1, TypeCorrect, Occupation, PTL DEF Spec, FlushCarriedOut

\* dataD can stay as it is only by waiting for the multiplier, and then nothing
\* goes on to dataE; dataM is filled from dataE, which is empty too.
LEMMA DivisionStep ==
    ASSUME TypeOK, Inv, Step, Good(dataD), dataD.instr.op = "MULT", dataD' = dataD
    PROVE  ~dataE'.valid /\ ~dataM'.valid
<1>1. PICK in \in Inputs : Clock(in)
  BY DEF Step
<1>2. dataD' = DecodeStage(in) /\ dataE' = ExecuteStage(in) /\ dataM' = MemoryStage(in)
  BY <1>1 DEF Clock
<1>3. Real(dataD) /\ ~Real(dataF) /\ ~Real(dataE)
  BY StageFacts DEF Inv, InFetch, InDecode
<1>4. ~Failed(dataE) /\ ~Failed(dataM)
  BY <1>3 DEF Inv, OffTheWords, AfterFailure
<1>5. ~dataE.valid
  BY <1>3, <1>4 DEF Real, Failed
<1>6. StopE(in) /\ ~StopM(in) /\ ~FlushDE(in)
  BY <1>2, <1>3, NewDecode, DecodeHeld, StageFacts DEF Real, Good
<1>7. ~dataE'.valid
  BY <1>2, <1>6, NewExecute DEF StopE
<1>8. ~dataM'.valid
  BY <1>2, <1>5, <1>6, NewMemory
<1> QED
  BY <1>7, <1>8

\* A division that waits for its answer has nothing older behind it.
THEOREM DivisionUndisturbed == Spec => DivisionAlone
<1>1. TypeOK /\ Inv /\ [Next]_vars
      => [Good(dataD) /\ dataD.instr.op = "MULT" /\ dataD' = dataD
             => ~dataE'.valid /\ ~dataM'.valid]_vars
  BY DivisionStep DEF Next
<1> QED
  BY <1>1, TypeCorrect, Occupation, PTL DEF Spec, DivisionAlone
-----------------------------------------------------------------------------
(***************************************************************************)
(* The pipeline implements the sequential machine.                         *)
(*                                                                         *)
(* OrderInv says what the stages hold when no flush is under way: every    *)
(* stage the program's word at its address (Labels), each the address that *)
(* control reaches from the next older one (Chain), and in dataD and dataE *)
(* the operands and results the machine would compute from its registers   *)
(* (Operands).  While a flush waits for the fetch, what is younger than    *)
(* dataM is lost, and nothing is claimed of it.                            *)
(***************************************************************************)

\* The error decode gives a word that was fetched.
ErrorOf(i) == IF Undecodable(i) THEN "DECODEERRRE" ELSE "NOERROR"

\* The stage holds the program's word at its address.
FromProgram(stage) == Aligned(stage.pc) /\ stage.instr = program[stage.pc]

\* An instruction is the word at its address; a failed fetch has a misaligned one.
Labels ==
    /\ Real(dataF) => FromProgram(dataF) /\ dataF.error = "NOERROR"
    /\ Real(dataD) => FromProgram(dataD) /\ dataD.error = ErrorOf(dataD.instr)
    /\ Real(dataE) => FromProgram(dataE) /\ dataE.error = ErrorOf(dataE.instr)
    /\ Failed(dataF) => ~Aligned(dataF.pc)
    /\ Failed(dataD) => ~Aligned(dataD.pc)
    /\ Failed(dataE) => ~Aligned(dataE.pc)

\* The address of the oldest instruction in or before each stage.
PcF == IF dataF.valid THEN dataF.pc ELSE pc
PcD == IF dataD.valid THEN dataD.pc ELSE PcF
PcE == IF dataE.valid THEN dataE.pc ELSE PcD

\* Where control goes from the instruction in dataE.
Goes == Target(dataE.instr, dataE.pc, RegsNext[dataE.instr.rs1], RegsNext[dataE.instr.rs2])

\* Each stage holds the address control reaches from the stage after it; nothing
\* is in dataD behind an instruction in dataE, nor a failed fetch in dataF.
Chain ==
    /\ dataF.valid => pc = NextPC(dataF.pc)
    /\ dataD.valid => PcF = NextPC(dataD.pc)
    /\ Failed(dataE) => PcD = NextPC(dataE.pc)
    /\ Real(dataE) => /\ PcD = Goes
                      /\ ~dataD.valid
                      /\ ~Failed(dataF)

\* The first operand of the instruction i at address a.
Operand(i, a) ==
    CASE i.op = "JALR"           -> a
      [] i.op \in {"CSR", "CSRI"} -> ReadCsr(csr, CsrName(i))
      [] OTHER                   -> RegsNext[i.rs1]

\* dataD holds the operands of its instruction, dataE what it computes from them.
Operands ==
    /\ Real(dataD) => /\ dataD.srca = Operand(dataD.instr, dataD.pc)
                      /\ dataD.rd1 = RegsNext[dataD.instr.rs1]
                      /\ dataD.rd2 = RegsNext[dataD.instr.rs2]
    /\ Real(dataE) => /\ dataE.result = Alu(dataE.instr, Operand(dataE.instr, dataE.pc),
                                            RegsNext[dataE.instr.rs2])
                      /\ dataE.rd2 = RegsNext[dataE.instr.rs2]
                      /\ dataE.csr = IF dataE.instr.op = "CSRI" THEN dataE.instr.imm
                                     ELSE RegsNext[dataE.instr.rs1]

OrderInv == Labels /\ (~Flushing => Chain /\ Operands)
-----------------------------------------------------------------------------
\* A stage is a bubble or holds an instruction or a failed fetch.
LEMMA StageSplit ==
    /\ dataF.valid <=> Real(dataF) \/ Failed(dataF)
    /\ dataD.valid <=> Real(dataD) \/ Failed(dataD)
    /\ dataE.valid <=> Real(dataE) \/ Failed(dataE)
    /\ dataM.valid <=> Real(dataM) \/ Failed(dataM)
BY DEF Real, Failed

\* An instruction in dataD has bubbles on both sides of it, ...
LEMMA AroundDecode ==
    ASSUME Inv, Real(dataD)
    PROVE  ~dataF.valid /\ ~dataE.valid /\ Aligned(pc)
<1>1. Aligned(pc) /\ ~Real(dataF) /\ ~Real(dataE)
  BY DEF Inv, InFetch, InDecode, OffTheWords
<1>2. ~Failed(dataF) /\ ~Failed(dataE)
  BY <1>1 DEF Inv, AfterFailure
<1> QED
  BY <1>1, <1>2, StageSplit

\* ... one in dataF has only a multiplication before it, ...
LEMMA AroundFetch ==
    ASSUME Inv, Real(dataF)
    PROVE  /\ ~dataD.valid /\ Aligned(pc)
           /\ dataE.valid => Real(dataE) /\ dataE.instr.op = "MULT"
<1>1. Aligned(pc) /\ ~Real(dataD) /\ (Real(dataE) => dataE.instr.op = "MULT")
  BY DEF Inv, InFetch, OffTheWords
<1>2. ~Failed(dataD) /\ ~Failed(dataE)
  BY <1>1 DEF Inv, AfterFailure
<1> QED
  BY <1>1, <1>2, StageSplit

\* ... and one in dataE has nothing before it in dataM.
LEMMA AroundExecute == ASSUME Inv, Real(dataE) PROVE ~dataM.valid
BY StageSplit DEF Inv, InExecute, AfterFailure

\* What is not valid is a bubble.
LEMMA Bubbles ==
    ASSUME TypeOK
    PROVE  /\ ~dataD.valid => dataD = Bubble
           /\ ~dataE.valid => dataE = Bubble
BY DEF TypeOK, PipeTypeOK, Decoded, Executed

\* Without a flush dataM holds a plain instruction, and nothing is squashed.
LEMMA NoFlush ==
    ASSUME ~Flushing, NEW in
    PROVE  /\ ~FlushDE(in) /\ ~FlushAll(in)
           /\ dataM.valid => Good(dataM)
BY DEF Flushing, FlushDE, FlushAll, Raised, Good

\* The register file a clock later: what is written is what dataM now holds.
LEMMA NextRegs ==
    ASSUME NEW in, Clock(in)
    PROVE  RegsNext' = IF dataM'.valid /\ RegWrite(dataM'.instr)
                       THEN SetReg(RegsNext, dataM'.instr.rd, dataM'.result)
                       ELSE RegsNext
<1>1. regs' = RegsNext
  BY DEF Clock
<1> QED
  BY <1>1 DEF RegsNext, RegWrite
-----------------------------------------------------------------------------
\* While the data cache or the multiplier is waited for, only dataM moves on.
LEMMA Waiting ==
    ASSUME TypeOK, Inv, OrderInv, ~Flushing, NEW in \in Inputs, Clock(in), StopM(in) \/ StopE(in)
    PROVE  /\ dataF' = dataF /\ dataD' = dataD /\ dataE' = dataE /\ dataM' = Bubble
           /\ pc' = pc /\ csr' = csr /\ mem' = mem /\ program' = program
           /\ RegsNext' = RegsNext
           /\ ~Flushing'
<1>1. ~FlushDE(in) /\ ~FlushAll(in)
  BY NoFlush
<1>2. Stop(in)
  BY DEF Stop
<1>3. csr' = csr /\ program' = program /\ dataF' = dataF /\ dataD' = dataD
  BY <1>1, <1>2 DEF Clock, FetchStage, DecodeStage
<1>4. CASE StopM(in)
  <2>1. Real(dataE) /\ Good(dataE) /\ IsMem(dataE.instr) /\ ~in.dok
    BY <1>4, StageFacts DEF StopM, DataValid
  <2>2. dataE' = dataE /\ dataM' = Bubble /\ mem' = mem
    BY <1>1, <1>4, <2>1 DEF Clock, ExecuteStage, MemoryStage
  <2>3. ~dataD.valid /\ ~dataF.valid
    <3>1. ~Real(dataF)
      BY <2>1, AroundFetch DEF IsMem, Real
    <3> QED
      BY <2>1, <3>1, StageSplit DEF OrderInv, Chain
  <2>4. Aligned(pc)
    <3>1. pc = NextPC(dataE.pc)
      BY <2>1, <2>3 DEF OrderInv, Chain, PcD, PcF, Goes, Target, IsMem
    <3> QED
      BY <2>1, <3>1, StageTypes, NextPCMoves DEF OrderInv, Labels, FromProgram, Real
  <2>5. pc' = pc
    BY <1>1, <1>2, <2>3, <2>4 DEF Clock, PcNext, StopF, Branch, Good
  <2>6. RegsNext' = RegsNext
    BY <2>2, NextRegs DEF Bubble
  <2> QED
    BY <1>3, <2>2, <2>5, <2>6 DEF Flushing, Raised, Interrupt, Access, Bubble
<1>5. CASE StopE(in) /\ ~StopM(in)
  <2>1. Real(dataD) /\ dataD.instr.op = "MULT" /\ AluBusy(in)
    BY <1>5, StageFacts DEF StopE, AluBusy
  <2>2. ~dataF.valid /\ ~dataE.valid /\ Aligned(pc)
    BY <2>1, AroundDecode
  <2>3. dataE = Bubble
    BY <2>2, Bubbles
  <2>4. dataE' = dataE /\ dataM' = Bubble /\ mem' = mem
    <3>1. ~in.dok
      BY <2>2, InputTypes DEF DataValid, Good
    <3> QED
      BY <1>1, <1>5, <2>1, <2>2, <2>3, <3>1 DEF Clock, ExecuteStage, MemoryStage
  <2>5. pc' = pc
    BY <1>1, <1>2, <2>1, <2>2 DEF Clock, PcNext, StopF, Branch, IsBranch
  <2>6. RegsNext' = RegsNext
    BY <2>4, NextRegs DEF Bubble
  <2> QED
    BY <1>3, <2>4, <2>5, <2>6 DEF Flushing, Raised, Interrupt, Access, Bubble
<1> QED
  BY <1>4, <1>5
-----------------------------------------------------------------------------
\* In every other clock each stage takes what the one before it holds.
LEMMA Moves ==
    ASSUME TypeOK, Inv, ~Flushing, NEW in \in Inputs, Clock(in), ~StopM(in), ~StopE(in)
    PROVE  /\ ~Stop(in)
           /\ csr' = csr /\ program' = program
           /\ dataM' = IF ~dataE.valid \/ (IsMem(dataE.instr) /\ ~in.dok) THEN Bubble
                       ELSE [valid |-> TRUE, pc |-> dataE.pc, instr |-> dataE.instr,
                             error |-> AccessError, result |-> MemResult(in), csr |-> dataE.csr]
           /\ dataE' = IF ~dataD.valid \/ AluBusy(in) THEN Bubble
                       ELSE [valid |-> TRUE, pc |-> dataD.pc, instr |-> dataD.instr,
                             error |-> dataD.error, result |-> Result, rd2 |-> dataD.rd2,
                             csr |-> IF dataD.instr.op = "CSRI" THEN dataD.instr.imm
                                     ELSE dataD.rd1]
           /\ dataD' = IF Branch \/ ~dataF.valid THEN Bubble ELSE Decode(in)
           /\ dataF' = IF Branch \/ (Aligned(pc) /\ ~in.iok) THEN Bubble
                       ELSE [valid |-> TRUE, pc |-> pc, instr |-> in.word,
                             error |-> IF Aligned(pc) THEN "NOERROR" ELSE "FETCHERROR"]
           /\ pc' = IF Branch THEN Jump
                    ELSE IF Aligned(pc) /\ ~in.iok THEN pc ELSE NextPC(pc)
<1>1. ~FlushDE(in) /\ ~FlushAll(in)
  BY NoFlush
<1>2. ~StopD
  <2>1. ~(Good(dataF) /\ Good(dataD))
    BY StageFacts, AroundFetch, StageSplit
  <2> QED
    BY <2>1 DEF StopD, LoadUse, Writes
<1>3. ~Stop(in)
  BY <1>2 DEF Stop
<1> QED
  BY <1>1, <1>2, <1>3 DEF Clock, FetchStage, DecodeStage, ExecuteStage, MemoryStage, PcNext, StopF

\* The oldest address after dataE stays, or is the one a branch goes to.
LEMMA ChainMoves ==
    ASSUME TypeOK, Inv, OrderInv, ~Flushing, NEW in \in Inputs, Clock(in),
           ~StopM(in), ~StopE(in)
    PROVE  /\ PcD' = IF Branch THEN Jump ELSE PcF
           /\ dataF'.valid => pc' = NextPC(dataF'.pc)
           /\ dataD'.valid => PcF' = NextPC(dataD'.pc)
<1>1. Decode(in).valid /\ Decode(in).pc = dataF.pc
  BY DEF Decode
<1>2. PcF' = IF Branch THEN Jump ELSE pc
  BY Moves DEF PcF, Bubble
<1>3. PcD' = IF Branch THEN Jump ELSE PcF
  BY <1>1, <1>2, Moves DEF PcD, PcF, Bubble
<1>4. dataF'.valid => pc' = NextPC(dataF'.pc)
  BY Moves DEF Bubble
<1>5. dataD'.valid => PcF' = NextPC(dataD'.pc)
  BY <1>1, <1>2, Moves DEF Bubble, OrderInv, Chain
<1> QED
  BY <1>3, <1>4, <1>5

\* An instruction leaves dataD for dataE, alone; a failed fetch does too, or is
\* dropped for the word it was decoded from.
LEMMA DecodeLeaves ==
    ASSUME TypeOK, Inv, OrderInv, ~Flushing, NEW in \in Inputs, Clock(in),
           ~StopM(in), ~StopE(in)
    PROVE  /\ ~dataD.valid => ~dataE'.valid /\ ~Branch
           /\ Failed(dataD) => (dataE'.valid => Failed(dataE')) /\ ~Branch
           /\ Real(dataD) => /\ dataE'.valid /\ Real(dataE')
                             /\ ~dataM'.valid /\ ~dataD'.valid /\ ~Failed(dataF')
                             /\ RegsNext' = RegsNext
           /\ dataE'.valid => dataE'.pc = dataD.pc /\ dataE'.instr = dataD.instr
                              /\ dataE'.error = dataD.error
<1>1. ~dataD.valid => ~dataE'.valid /\ ~Branch
  BY Moves DEF Bubble, Branch, Good
<1>2. Failed(dataD) => (dataE'.valid => Failed(dataE')) /\ ~Branch
  BY Moves DEF Bubble, Branch, Good, Failed
<1>3. ASSUME Real(dataD)
      PROVE  /\ dataE'.valid /\ Real(dataE')
             /\ ~dataM'.valid /\ ~dataD'.valid /\ ~Failed(dataF')
             /\ RegsNext' = RegsNext
  <2>1. ~dataF.valid /\ ~dataE.valid /\ Aligned(pc)
    BY <1>3, AroundDecode
  <2>2. ~AluBusy(in)
    BY <1>3 DEF OrderInv, Labels, ErrorOf, Undecodable, StopE, Good, AluBusy, Real
  <2>3. dataE'.valid /\ Real(dataE')
    BY <1>3, <2>2, Moves DEF Real
  <2>4. ~dataM'.valid /\ ~dataD'.valid /\ ~Failed(dataF')
    BY <2>1, Moves DEF Bubble, Failed
  <2> QED
    BY <2>3, <2>4, NextRegs
<1>4. dataE'.valid => dataE'.pc = dataD.pc /\ dataE'.instr = dataD.instr
                      /\ dataE'.error = dataD.error
  BY Moves DEF Bubble
<1> QED
  BY <1>1, <1>2, <1>3, <1>4

\* A branch in dataD goes where its registers say.
LEMMA BranchGoes ==
    ASSUME TypeOK, Inv, OrderInv, ~Flushing, Real(dataD)
    PROVE  (IF Branch THEN Jump ELSE PcF)
                = Target(dataD.instr, dataD.pc,
                         RegsNext[dataD.instr.rs1], RegsNext[dataD.instr.rs2])
<1>1. /\ dataD.rd1 = RegsNext[dataD.instr.rs1] /\ dataD.rd2 = RegsNext[dataD.instr.rs2]
      /\ dataD.error = ErrorOf(dataD.instr)
      /\ PcF = NextPC(dataD.pc)
  BY DEF OrderInv, Chain, Operands, Labels, Real
<1>2. CASE Branch
  BY <1>1, <1>2 DEF Jump
<1>3. CASE ~Branch
  <2>1. ~IsBranch(dataD.instr)
    BY <1>1, <1>3 DEF Branch, Good, ErrorOf, Undecodable, IsBranch, Real
  <2> QED
    BY <1>1, <1>3, <2>1 DEF Target, IsBranch
<1> QED
  BY <1>2, <1>3

\* The addresses of the stages keep following each other.
LEMMA ChainStep ==
    ASSUME TypeOK, Inv, OrderInv, ~Flushing, NEW in \in Inputs, Clock(in),
           ~StopM(in), ~StopE(in)
    PROVE  Chain'
<1>1. /\ PcD' = IF Branch THEN Jump ELSE PcF
      /\ dataF'.valid => pc' = NextPC(dataF'.pc)
      /\ dataD'.valid => PcF' = NextPC(dataD'.pc)
  BY ChainMoves
<1>2. ASSUME Failed(dataE') PROVE PcD' = NextPC(dataE'.pc)
  <2>1. Failed(dataD) /\ ~Branch /\ dataE'.pc = dataD.pc
    BY <1>2, DecodeLeaves, StageSplit DEF Real, Failed
  <2> QED
    BY <1>1, <2>1 DEF OrderInv, Chain, Failed
<1>3. ASSUME Real(dataE')
      PROVE  PcD' = Goes' /\ ~dataD'.valid /\ ~Failed(dataF')
  <2>1. Real(dataD)
    BY <1>3, DecodeLeaves, StageSplit DEF Real, Failed
  <2>2. /\ dataE'.pc = dataD.pc /\ dataE'.instr = dataD.instr /\ RegsNext' = RegsNext
        /\ ~dataD'.valid /\ ~Failed(dataF')
    BY <2>1, DecodeLeaves
  <2>3. Goes' = Target(dataD.instr, dataD.pc,
                       RegsNext[dataD.instr.rs1], RegsNext[dataD.instr.rs2])
    BY <2>2 DEF Goes
  <2> QED
    BY <1>1, <2>1, <2>2, <2>3, BranchGoes
<1> QED
  BY <1>1, <1>2, <1>3 DEF Chain, Failed, Real

\* What an instruction in dataF reads is what the register file will hold when
\* it is in dataD.
LEMMA SelectReads ==
    ASSUME TypeOK, Inv, OrderInv, ~Flushing, NEW in \in Inputs, Clock(in),
           ~StopM(in), ~StopE(in), Real(dataF), NEW r \in Reg
    PROVE  Select(in, r) = RegsNext'[r]
<1>1. ~dataD.valid /\ (dataE.valid => Real(dataE) /\ dataE.instr.op = "MULT")
  BY AroundFetch
<1>2. ~Writes(dataD, r)
  BY <1>1 DEF Writes, Good
<1>3. Writes(dataM, r) <=> dataM.valid /\ RegWrite(dataM.instr) /\ dataM.instr.rd = r
  BY NoFlush DEF Writes, Good
<1>4. RegsNext[r] = IF r # 0 /\ Writes(dataM, r) THEN dataM.result ELSE regs[r]
  BY <1>3 DEF RegsNext, SetReg
<1>5. CASE ~dataE.valid
  <2>1. ~dataM'.valid
    BY <1>5, Moves DEF Bubble
  <2>2. ~Writes(dataE, r)
    BY <1>5 DEF Writes, Good
  <2> QED
    BY <1>2, <1>4, <2>1, <2>2, NextRegs DEF Select
<1>6. CASE dataE.valid
  <2>1. ~dataM.valid /\ dataE.error = "NOERROR"
    BY <1>1, <1>6, AroundExecute DEF OrderInv, Labels, ErrorOf, Undecodable
  <2>2. Writes(dataE, r) <=> dataE.instr.rd = r
    BY <1>1, <1>6, <2>1 DEF Writes, Good, RegWrite
  <2>3. dataM'.valid /\ dataM'.instr = dataE.instr /\ dataM'.result = MemResult(in)
    BY <1>1, <1>6, Moves DEF IsMem
  <2>4. RegsNext' = SetReg(RegsNext, dataE.instr.rd, MemResult(in))
    BY <1>1, <1>6, <2>3, NextRegs DEF RegWrite
  <2>5. RegsNext'[r] = IF r = dataE.instr.rd /\ dataE.instr.rd # 0 THEN MemResult(in)
                      ELSE RegsNext[r]
    BY <2>4 DEF SetReg
  <2>6. RegsNext[r] = regs[r] /\ ~Writes(dataM, r)
    BY <1>4, <2>1 DEF Writes, Good
  <2> QED
    BY <1>2, <2>2, <2>5, <2>6 DEF Select
<1> QED
  BY <1>5, <1>6

\* The operands read in dataF, and what dataE computes from them, are those of
\* the machine.
LEMMA OperandsStep ==
    ASSUME TypeOK, Inv, OrderInv, ~Flushing, NEW in \in Inputs, Clock(in),
           ~StopM(in), ~StopE(in)
    PROVE  Operands'
<1>1. ASSUME Real(dataD')
      PROVE  /\ dataD'.srca = Operand(dataD.instr, dataD.pc)'
             /\ dataD'.rd1 = RegsNext'[dataD'.instr.rs1]
             /\ dataD'.rd2 = RegsNext'[dataD'.instr.rs2]
  <2>1. dataD' = Decode(in) /\ dataF.valid
    BY <1>1, Moves DEF Real, Bubble
  <2>2. Real(dataF) /\ dataF.instr \in Instruction
    BY <1>1, <2>1, StageTypes DEF Decode, Real
  <2>3. dataF.instr.rs1 \in Reg /\ dataF.instr.rs2 \in Reg
    BY <2>2 DEF Instruction
  <2>4. /\ Select(in, dataF.instr.rs1) = RegsNext'[dataF.instr.rs1]
        /\ Select(in, dataF.instr.rs2) = RegsNext'[dataF.instr.rs2]
    BY <2>2, <2>3, SelectReads
  <2>5. csr' = csr
    BY Moves
  <2> QED
    BY <2>1, <2>4, <2>5 DEF Decode, Operand, ReadCsr, CsrName
<1>2. ASSUME Real(dataE')
      PROVE  /\ dataE'.result = Alu(dataE.instr, Operand(dataE.instr, dataE.pc),
                                    RegsNext[dataE.instr.rs2])'
             /\ dataE'.rd2 = RegsNext'[dataE'.instr.rs2]
             /\ dataE'.csr = IF dataE'.instr.op = "CSRI" THEN dataE'.instr.imm
                             ELSE RegsNext'[dataE'.instr.rs1]
  <2>1. Real(dataD)
    BY <1>2, DecodeLeaves, StageSplit DEF Real, Failed
  <2>2. /\ dataE'.pc = dataD.pc /\ dataE'.instr = dataD.instr /\ RegsNext' = RegsNext
    BY <2>1, DecodeLeaves
  <2>3. /\ dataE'.result = Result /\ dataE'.rd2 = dataD.rd2
        /\ dataE'.csr = IF dataD.instr.op = "CSRI" THEN dataD.instr.imm ELSE dataD.rd1
    BY <1>2, Moves DEF Real, Bubble
  <2>4. /\ dataD.srca = Operand(dataD.instr, dataD.pc)
        /\ dataD.rd1 = RegsNext[dataD.instr.rs1]
        /\ dataD.rd2 = RegsNext[dataD.instr.rs2]
    BY <2>1 DEF OrderInv, Operands
  <2>5. Operand(dataE.instr, dataE.pc)' = Operand(dataD.instr, dataD.pc)
    BY <2>2, Moves DEF Operand, ReadCsr, CsrName
  <2>6. Alu(dataE.instr, Operand(dataE.instr, dataE.pc), RegsNext[dataE.instr.rs2])'
        = Alu(dataD.instr, Operand(dataD.instr, dataD.pc), RegsNext[dataD.instr.rs2])
    BY <2>2, <2>5
  <2> QED
    BY <2>2, <2>3, <2>4, <2>6 DEF Result
<1> QED
  BY <1>1, <1>2 DEF Operands, Real
-----------------------------------------------------------------------------
\* Every stage keeps naming the program's word at its address.
LEMMA LabelsStep ==
    ASSUME TypeOK, Inv, Labels, NEW in \in Inputs, Clock(in)
    PROVE  Labels'
<1>1. /\ dataF' = FetchStage(in) /\ dataD' = DecodeStage(in) /\ dataE' = ExecuteStage(in)
      /\ program' = program
  BY DEF Clock
<1>2. Aligned(pc) => in.word = program[pc]
  BY DEF Inputs
<1>4. /\ Real(dataF') => FromProgram(dataF') /\ dataF'.error = "NOERROR"
      /\ Failed(dataF') => ~Aligned(dataF'.pc)
  <2>1. \/ dataF' = dataF
        \/ dataF' = Bubble
        \/ dataF' = [valid |-> TRUE, pc |-> pc, instr |-> in.word,
                     error |-> IF Aligned(pc) THEN "NOERROR" ELSE "FETCHERROR"]
    BY <1>1 DEF FetchStage
  <2> QED
    BY <1>1, <1>2, <2>1 DEF Labels, Real, Failed, FromProgram, Bubble
<1>5. /\ Real(dataD') => FromProgram(dataD') /\ dataD'.error = ErrorOf(dataD'.instr)
      /\ Failed(dataD') => ~Aligned(dataD'.pc)
  <2>1. \/ dataD' = dataD
        \/ dataD' = Bubble
        \/ dataF.valid /\ dataD' = Decode(in)
    BY <1>1 DEF DecodeStage
  <2>2. CASE dataF.valid /\ dataD' = Decode(in)
    <3>1. /\ dataD'.pc = dataF.pc /\ dataD'.instr = dataF.instr /\ dataD'.valid
          /\ dataD'.error = IF dataF.error = "NOERROR" /\ Undecodable(dataF.instr)
                            THEN "DECODEERRRE" ELSE dataF.error
      BY <2>2 DEF Decode
    <3> QED
      BY <2>2, <3>1 DEF Labels, Real, Failed, FromProgram, ErrorOf
  <2> QED
    BY <1>1, <2>1, <2>2 DEF Labels, Real, Failed, FromProgram, Bubble
<1>6. /\ Real(dataE') => FromProgram(dataE') /\ dataE'.error = ErrorOf(dataE'.instr)
      /\ Failed(dataE') => ~Aligned(dataE'.pc)
  <2>1. \/ dataE' = dataE
        \/ dataE' = Bubble
        \/ /\ dataD.valid /\ dataE'.valid
           /\ dataE'.pc = dataD.pc /\ dataE'.instr = dataD.instr /\ dataE'.error = dataD.error
    BY <1>1 DEF ExecuteStage
  <2> QED
    BY <1>1, <2>1 DEF Labels, Real, Failed, FromProgram, Bubble
<1> QED
  BY <1>1, <1>4, <1>5, <1>6 DEF Labels, Real, Failed, FromProgram, Aligned

\* A clock that squashes nothing it should keep keeps the order.
LEMMA OrderStep ==
    ASSUME TypeOK, Inv, OrderInv, Step
    PROVE  OrderInv'
<1>1. PICK in \in Inputs : Clock(in)
  BY DEF Step
<1>2. Labels'
  BY <1>1, LabelsStep DEF OrderInv
<1>3. CASE Flushing
  <2> SUFFICES ASSUME ~Flushing' PROVE Chain' /\ Operands'
    BY <1>2 DEF OrderInv
  <2>1. ~(dataF'.valid \/ dataD'.valid \/ dataE'.valid \/ dataM'.valid)
    BY <1>3, FlushStep
  <2> QED
    BY <2>1 DEF Chain, Operands, Real, Failed
<1>4. CASE ~Flushing /\ (StopM(in) \/ StopE(in))
  <2>1. /\ dataF' = dataF /\ dataD' = dataD /\ dataE' = dataE
        /\ pc' = pc /\ csr' = csr /\ RegsNext' = RegsNext
    BY <1>1, <1>4, Waiting
  <2>2. Chain /\ Operands
    BY <1>4 DEF OrderInv
  <2>3. Chain'
    BY <2>1, <2>2 DEF Chain, PcD, PcF, Goes, Real, Failed
  <2>5. Operands'
    BY <2>1, <2>2 DEF Operands, Real, Operand, ReadCsr, CsrName
  <2> QED
    BY <1>2, <2>3, <2>5 DEF OrderInv
<1>5. CASE ~Flushing /\ ~StopM(in) /\ ~StopE(in)
  <2>1. Chain' /\ Operands'
    BY <1>1, <1>5, ChainStep, OperandsStep
  <2> QED
    BY <1>2, <2>1 DEF OrderInv
<1> QED
  BY <1>3, <1>4, <1>5

\* The empty pipeline has nothing out of order.
LEMMA OrderInit == ASSUME Init PROVE OrderInv
BY DEF Init, OrderInv, Labels, Chain, Operands, Real, Failed, Bubble

\* A step that changes nothing keeps the order.
LEMMA OrderStutter == ASSUME OrderInv, UNCHANGED vars PROVE OrderInv'
<1>1. UNCHANGED <<program, pc, dataF, dataD, dataE, dataM, regs, csr, intr>>
  BY DEF vars
<1>2. RegsNext' = RegsNext /\ (Flushing' <=> Flushing)
  BY <1>1 DEF RegsNext, Flushing, Raised, Interrupt, Access
<1>3. Labels'
  BY <1>1 DEF OrderInv, Labels, Real, Failed, FromProgram
<1>4. ~Flushing => Chain'
  BY <1>1, <1>2 DEF OrderInv, Chain, PcD, PcF, Goes, Real, Failed
<1>5. ~Flushing => Operands'
  BY <1>1, <1>2 DEF OrderInv, Operands, Real, Operand, ReadCsr, CsrName
<1> QED
  BY <1>2, <1>3, <1>4, <1>5 DEF OrderInv

\* The pipeline's contents are in program order, with the machine's operands,
\* whenever no flush is under way.
THEOREM InstructionOrder == Spec => []OrderInv
<1>1. Init => OrderInv
  BY OrderInit
<1>2. TypeOK /\ Inv /\ OrderInv /\ [Next]_vars => OrderInv'
  BY OrderStep, OrderStutter DEF Next
<1> QED
  BY <1>1, <1>2, TypeCorrect, Occupation, PTL DEF Spec
-----------------------------------------------------------------------------
(* The sequential machine. *)

\* The machine computes as the pipeline does.
LEMMA SameInstructions ==
    /\ Machine!NoPending = NoPending
    /\ Machine!System = System /\ Machine!Errors = Errors
    /\ Machine!Word = Word /\ Machine!Reg = Reg
    /\ Machine!InterruptCause = InterruptCause
    /\ \A a : (Machine!Aligned(a) <=> Aligned(a)) /\ Machine!NextPC(a) = NextPC(a)
    /\ \A a, b : Machine!Plus(a, b) = Plus(a, b)
    /\ \A i : /\ Machine!IsMem(i) <=> IsMem(i)
              /\ Machine!RegWrite(i) <=> RegWrite(i)
              /\ Machine!CsrName(i) = CsrName(i)
    /\ \A i, a, b : Machine!Alu(i, a, b) = Alu(i, a, b)
    /\ \A i, a, b, c : Machine!Target(i, a, b, c) = Target(i, a, b, c)
    /\ \A r, i, v : Machine!SetReg(r, i, v) = SetReg(r, i, v)
    /\ \A e, m : Machine!Cause(e, m) = Cause(e, m)
    /\ \A c, k, a : Machine!Trapped(c, k, a) = Trapped(c, k, a)
    /\ \A c : Machine!Returned(c) = Returned(c)
    /\ \A c, n, v : Machine!Written(c, n, v) = Written(c, n, v)
    /\ \A c, n : Machine!ReadCsr(c, n) = ReadCsr(c, n)
<1>1. /\ Machine!NoPending = NoPending
      /\ Machine!System = System /\ Machine!Errors = Errors
      /\ Machine!Word = Word /\ Machine!Reg = Reg
      /\ Machine!InterruptCause = InterruptCause
  BY DEF Machine!NoPending, NoPending, Machine!System, System, Machine!Errors, Errors,
         Machine!Word, Word, Machine!Reg, Reg, Machine!InterruptCause, InterruptCause
<1>2. \A a, b : Machine!Plus(a, b) = Plus(a, b)
  BY DEF Machine!Plus, Plus
<1>3. \A a : (Machine!Aligned(a) <=> Aligned(a)) /\ Machine!NextPC(a) = NextPC(a)
  BY <1>2 DEF Machine!Aligned, Aligned, Machine!NextPC, NextPC
<1>4. \A i : /\ Machine!IsMem(i) <=> IsMem(i)
             /\ Machine!RegWrite(i) <=> RegWrite(i)
             /\ Machine!CsrName(i) = CsrName(i)
  BY DEF Machine!IsMem, IsMem, Machine!RegWrite, RegWrite, Machine!CsrName, CsrName
<1>5. \A i, a, b : Machine!Alu(i, a, b) = Alu(i, a, b)
  BY <1>2, <1>3 DEF Machine!Alu, Alu
<1>6. \A i, a, b, c : Machine!Target(i, a, b, c) = Target(i, a, b, c)
  BY <1>2, <1>3 DEF Machine!Target, Target
<1>7. \A r, i, v : Machine!SetReg(r, i, v) = SetReg(r, i, v)
  BY <1>1 DEF Machine!SetReg, SetReg
<1>8. \A e, m : Machine!Cause(e, m) = Cause(e, m)
  BY DEF Machine!Cause, Cause
<1>9. \A c, k, a : Machine!Trapped(c, k, a) = Trapped(c, k, a)
  BY DEF Machine!Trapped, Trapped
<1>10. \A c : Machine!Returned(c) = Returned(c)
  BY DEF Machine!Returned, Returned
<1>11. \A c, n, v : Machine!Written(c, n, v) = Written(c, n, v)
  BY DEF Machine!Written, Written
<1>12. \A c, n : Machine!ReadCsr(c, n) = ReadCsr(c, n)
  BY DEF Machine!ReadCsr, ReadCsr
<1> QED
  BY <1>1, <1>2, <1>3, <1>4, <1>5, <1>6, <1>7, <1>8, <1>9, <1>10, <1>11, <1>12

\* Writing what is already there.
LEMMA SetRegAgain ==
    ASSUME NEW rf \in [Reg -> Word], NEW r, NEW v
    PROVE  /\ SetReg(SetReg(rf, r, v), r, v) = SetReg(rf, r, v)
           /\ SetReg(rf, 0, v) = rf
BY DEF SetReg

\* While a flush waits for the fetch the machine waits too.
LEMMA AsWaitingFlush ==
    ASSUME TypeOK, Inv, Flushing, NEW in \in Inputs, Clock(in), ~FlushAll(in)
    PROVE  UNCHANGED Machine!vars
<1>1. FlushDE(in) /\ ~in.dok
  BY NoAccessBehindFlush, InputTypes DEF FlushDE, StopM, Flushing
<1>2. dataM' = dataM /\ csr' = csr /\ mem' = mem /\ program' = program
  BY <1>1 DEF Clock, MemoryStage
<1>3. Interrupt => intr' = TRUE
  BY <1>1 DEF Clock
<1>4. Flushing' /\ (Raised' <=> Raised)
  BY <1>2, <1>3 DEF Flushing, Raised, Interrupt, Access
<1>5. pcBar' = pcBar
  BY <1>2, <1>4 DEF pcBar
<1>6. pendingBar' = pendingBar
  BY <1>2, <1>4 DEF pendingBar, CsrName
<1>7. RegsNext' = RegsNext
  <2>1. regs \in [Reg -> Word]
    BY DEF TypeOK, PipeTypeOK
  <2> QED
    BY <1>2, <2>1, NextRegs, SetRegAgain DEF RegsNext
<1> QED
  BY <1>2, <1>5, <1>6, <1>7 DEF Machine!vars

\* The flush is the second step of a pending instruction.
LEMMA AsFlush ==
    ASSUME TypeOK, Inv, Flushing, NEW in \in Inputs, Clock(in), FlushAll(in)
    PROVE  Machine!Resolve
<1>1. ~in.dok
  BY NoAccessBehindFlush, InputTypes
<1>2. /\ ~dataF'.valid /\ ~dataD'.valid /\ ~dataE'.valid /\ ~dataM'.valid
      /\ pc' = CsrPc /\ csr' = CsrNext /\ mem' = mem /\ program' = program
  BY <1>1, FlushedAll DEF Clock, PcNext, Bubble
<1>3. ~Flushing' /\ pcBar' = CsrPc
  BY <1>2 DEF Flushing, Raised, Interrupt, Access, pcBar
<1>4. pendingBar' = NoPending /\ RegsNext' = RegsNext
  BY <1>2, <1>3, NextRegs DEF pendingBar
<1>5. /\ pcBar = dataM.pc /\ pendingBar.pc = dataM.pc
      /\ pendingBar.kind = IF dataM.error # "NOERROR" THEN dataM.error
                           ELSE IF dataM.instr.op \in System THEN dataM.instr.op
                           ELSE "INTERRUPT"
      /\ pendingBar.csr = IF Raised \/ dataM.instr.op \notin {"CSR", "CSRI"} THEN "mie"
                          ELSE CsrName(dataM.instr)
      /\ pendingBar.src = IF Raised \/ dataM.instr.op \notin {"CSR", "CSRI"} THEN 0
                          ELSE dataM.csr
  BY DEF pcBar, pendingBar
<1>6. dataM.valid /\ dataM.error \in Errors
  BY StageTypes DEF Flushing, Raised, Interrupt, Access
<1>7. pendingBar # NoPending
  <2>1. pendingBar.kind # "NONE"
    BY <1>5, <1>6 DEF Errors, System
  <2> QED
    BY <2>1 DEF NoPending
<1>8. Machine!IsFault(pendingBar) <=> Raised
  BY <1>5, <1>6, SameInstructions DEF Machine!IsFault, Raised, Errors, System
<1>9. CASE Raised
  <2>1. Cause(pendingBar.kind, csr.mode) = Cause(dataM.error, csr.mode)
    BY <1>5, <1>6, <1>9 DEF Raised, Cause, System
  <2>2. /\ csr' = Trapped(csr, Cause(pendingBar.kind, csr.mode), pendingBar.pc)
        /\ pcBar' = csr.mtvec
    BY <1>2, <1>3, <1>5, <1>9, <2>1 DEF CsrNext, CsrPc
  <2> QED
    BY <1>2, <1>4, <1>7, <1>8, <1>9, <2>2, SameInstructions DEF Machine!Resolve
<1>10. CASE ~Raised /\ Interrupt
  <2>1. /\ csr' = Trapped(csr, InterruptCause, pendingBar.pc)
        /\ pcBar' = csr.mtvec /\ csr.mie
    BY <1>2, <1>3, <1>5, <1>10 DEF CsrNext, CsrPc, Interrupt
  <2> QED
    BY <1>2, <1>4, <1>7, <1>8, <1>10, <2>1, SameInstructions DEF Machine!Resolve
<1>11. CASE ~Raised /\ ~Interrupt /\ dataM.instr.op = "MRET"
  <2>1. pendingBar.kind = "MRET"
    BY <1>5, <1>6, <1>11 DEF Raised, System
  <2>2. csr' = Returned(csr) /\ pcBar' = csr.mepc
    BY <1>2, <1>3, <1>11 DEF CsrNext, CsrPc
  <2> QED
    BY <1>2, <1>4, <1>7, <2>1, <2>2, SameInstructions DEF Machine!Resolve
<1>12. CASE ~Raised /\ ~Interrupt /\ dataM.instr.op \in {"CSR", "CSRI"}
  <2>1. pendingBar.kind \in {"CSR", "CSRI"}
    BY <1>5, <1>6, <1>12 DEF Raised, System
  <2>2. csr' = Written(csr, pendingBar.csr, pendingBar.src) /\ pcBar' = NextPC(pendingBar.pc)
    BY <1>2, <1>3, <1>5, <1>12 DEF CsrNext, CsrPc
  <2> QED
    BY <1>2, <1>4, <1>7, <2>1, <2>2, SameInstructions DEF Machine!Resolve
<1> QED
  BY <1>9, <1>10, <1>11, <1>12 DEF Flushing, Access
-----------------------------------------------------------------------------
\* The oldest instruction after dataE stays the same; a failed fetch in dataD
\* may be dropped.
LEMMA NextToExecute ==
    ASSUME TypeOK, Inv, OrderInv, ~Flushing, NEW in \in Inputs, Clock(in),
           ~StopM(in), ~StopE(in)
    PROVE  \/ PcE' = PcD
           \/ Failed(dataD) /\ PcE' = NextPC(PcD)
<1>1. PcD' = IF Branch THEN Jump ELSE PcF
  BY ChainMoves
<1>2. CASE ~dataD.valid
  BY <1>1, <1>2, DecodeLeaves DEF PcE, PcD
<1>3. CASE dataE'.valid
  <2>1. dataD.valid /\ dataE'.pc = dataD.pc
    BY <1>3, DecodeLeaves
  <2> QED
    BY <1>3, <2>1 DEF PcE, PcD
<1>4. CASE dataD.valid /\ ~dataE'.valid
  <2>1. Failed(dataD) /\ ~Branch
    BY <1>4, DecodeLeaves, StageSplit
  <2>2. PcF = NextPC(dataD.pc)
    BY <1>4 DEF OrderInv, Chain
  <2> QED
    BY <1>1, <1>4, <2>1, <2>2 DEF PcE, PcD
<1> QED
  BY <1>2, <1>3, <1>4

\* When dataM takes nothing, no register, memory word or flush changes.
LEMMA NothingRetires ==
    ASSUME TypeOK, Inv, OrderInv, ~Flushing, NEW in \in Inputs, Clock(in),
           ~StopM(in), ~StopE(in), ~dataM'.valid
    PROVE  /\ RegsNext' = RegsNext /\ mem' = mem /\ csr' = csr /\ program' = program
           /\ pendingBar' = NoPending /\ pendingBar = NoPending
           /\ pcBar = PcE /\ pcBar' = PcE'
<1>1. ~Flushing'
  BY DEF Flushing, Raised, Interrupt, Access
<1>2. mem' = mem
  <2>1. in.dok => dataE.valid
    BY InputTypes DEF DataValid, Good
  <2>2. ~in.dok
    <3>1. in.dok => IsMem(dataE.instr)
      BY InputTypes DEF DataValid
    <3> QED
      BY <2>1, <3>1, Moves
  <2> QED
    BY <2>2 DEF Clock
<1>3. csr' = csr /\ program' = program /\ RegsNext' = RegsNext
  BY NextRegs, Moves
<1> QED
  BY <1>1, <1>2, <1>3 DEF pendingBar, pcBar, PcE, PcD, PcF

\* Behind an empty dataE the machine waits, or a failed fetch is dropped.
LEMMA AsEmpty ==
    ASSUME TypeOK, Inv, OrderInv, ~Flushing, NEW in \in Inputs, Clock(in),
           ~StopM(in), ~StopE(in), ~dataE.valid
    PROVE  Machine!Misaligned \/ UNCHANGED Machine!vars
<1>1. ~dataM'.valid
  BY Moves DEF Bubble
<1>2. pcBar = PcD
  BY <1>1, NothingRetires DEF PcE
<1>3. CASE PcE' = PcD
  BY <1>1, <1>2, <1>3, NothingRetires DEF Machine!vars
<1>4. CASE Failed(dataD) /\ PcE' = NextPC(PcD)
  <2>1. ~Aligned(pcBar)
    BY <1>2, <1>4 DEF PcD, OrderInv, Labels, Failed
  <2> QED
    BY <1>1, <1>2, <1>4, <2>1, NothingRetires, SameInstructions DEF Machine!Misaligned
<1> QED
  BY <1>3, <1>4, NextToExecute

\* A failed fetch in dataE is trapped or dropped, or passes for the word it left.
LEMMA AsFailed ==
    ASSUME TypeOK, Inv, OrderInv, ~Flushing, NEW in \in Inputs, Clock(in),
           ~StopM(in), ~StopE(in), Failed(dataE)
    PROVE  Machine!Misaligned
<1>1. dataE.valid /\ ~Aligned(dataE.pc) /\ PcD = NextPC(dataE.pc)
  BY DEF OrderInv, Labels, Chain, Failed
<1>2. pcBar = dataE.pc /\ pendingBar = NoPending
  BY <1>1 DEF pcBar, pendingBar
<1>3. ~in.dok
  BY InputTypes DEF DataValid, Good, Failed
<1>4. csr' = csr /\ program' = program /\ mem' = mem
  BY <1>3, Moves DEF Clock
<1>5. CASE ~dataM'.valid
  <2>1. pcBar' \in {NextPC(pcBar), NextPC(NextPC(pcBar))}
    BY <1>1, <1>2, <1>5, NothingRetires, NextToExecute
  <2> QED
    BY <1>1, <1>2, <1>5, <2>1, NothingRetires, SameInstructions DEF Machine!Misaligned
<1>6. CASE dataM'.valid /\ dataE.instr.op # "MARK"
  <2>1. /\ dataM'.error = "FETCHERROR" /\ dataM'.pc = dataE.pc
        /\ dataM'.instr = dataE.instr /\ dataM'.result = MemResult(in)
    BY <1>6, Moves DEF Bubble, AccessError, Good, Failed
  <2>2. Flushing' /\ Raised'
    BY <1>6, <2>1 DEF Flushing, Raised
  <2>3. pcBar' = pcBar
    BY <1>2, <2>1, <2>2 DEF pcBar
  <2>4. pendingBar' = [pc |-> pcBar, kind |-> "FETCHERROR", csr |-> "mie", src |-> 0]
    BY <1>2, <2>1, <2>2 DEF pendingBar
  <2>5. \E r \in Reg, v \in Word : RegsNext' = SetReg(RegsNext, r, v)
    <3>1. /\ dataE.instr.rd \in Reg /\ MemResult(in) \in Word /\ 0 \in Word /\ 0 \in Reg
      BY <1>1, StageTypes, MemResultWord, SizeAssumption, RegAssumption
         DEF Instruction, Word, Reg
    <3>2. CASE RegWrite(dataE.instr)
      BY <1>6, <2>1, <3>1, <3>2, NextRegs
    <3>3. CASE ~RegWrite(dataE.instr)
      <4>1. RegsNext \in [Reg -> Word]
        BY StageTypes, SetRegType DEF RegsNext, TypeOK, PipeTypeOK
      <4>2. RegsNext' = SetReg(RegsNext, 0, 0)
        BY <1>6, <2>1, <3>3, <4>1, NextRegs, SetRegAgain
      <4> QED
        BY <3>1, <4>2
    <3> QED
      BY <3>2, <3>3
  <2>6. Machine!Pend("FETCHERROR", "mie", 0)
    BY <2>4 DEF Machine!Pend
  <2> QED
    BY <1>1, <1>2, <1>4, <2>3, <2>5, <2>6, SameInstructions DEF Machine!Misaligned
<1>7. CASE dataM'.valid /\ dataE.instr.op = "MARK"
  <2>1. /\ dataM'.error = "NOERROR" /\ dataM'.pc = dataE.pc
        /\ dataM'.instr = dataE.instr
    BY <1>7, Moves DEF Bubble, AccessError
  <2>2. RegsNext' = RegsNext
    BY <1>7, <2>1, NextRegs DEF RegWrite
  <2>3. Flushing' <=> csr'.mie /\ intr'
    BY <1>7, <2>1 DEF Flushing, Raised, Interrupt, Access
  <2>4. CASE Flushing'
    <3>1. pcBar' = pcBar
      BY <1>2, <2>1, <2>4 DEF pcBar
    <3>2. pendingBar' = [pc |-> pcBar, kind |-> "INTERRUPT", csr |-> "mie", src |-> 0]
      BY <1>2, <1>7, <2>1, <2>4 DEF pendingBar, Raised, System
    <3>3. Machine!Pend("INTERRUPT", "mie", 0)
      BY <3>2 DEF Machine!Pend
    <3> QED
      BY <1>1, <1>2, <1>4, <2>2, <2>3, <2>4, <3>1, <3>3, SameInstructions
         DEF Machine!Misaligned
  <2>5. CASE ~Flushing'
    <3>1. pendingBar' = NoPending
      BY <2>5 DEF pendingBar
    <3>2. pcBar' = PcE'
      BY <2>5 DEF pcBar, PcE, PcD, PcF
    <3>3. pcBar' \in {NextPC(pcBar), NextPC(NextPC(pcBar))}
      BY <1>1, <1>2, <3>2, NextToExecute
    <3> QED
      BY <1>1, <1>2, <1>4, <2>2, <3>1, <3>3, SameInstructions DEF Machine!Misaligned
  <2> QED
    BY <2>4, <2>5
<1> QED
  BY <1>5, <1>6, <1>7
-----------------------------------------------------------------------------
\* An instruction in dataE retires.
LEMMA Retiring ==
    ASSUME TypeOK, Inv, OrderInv, ~Flushing, NEW in \in Inputs, Clock(in),
           ~StopM(in), ~StopE(in), Real(dataE)
    PROVE  /\ dataE.valid /\ dataE.instr \in Instruction /\ dataE.error = ErrorOf(dataE.instr)
           /\ dataM'.valid /\ dataM'.pc = dataE.pc /\ dataM'.instr = dataE.instr
           /\ dataM'.error = AccessError /\ dataM'.csr = dataE.csr
           /\ pcBar = dataE.pc /\ Aligned(pcBar) /\ program[pcBar] = dataE.instr
           /\ pendingBar = NoPending
           /\ program' = program /\ csr' = csr
           /\ RegsNext' = IF RegWrite(dataE.instr)
                          THEN SetReg(RegsNext, dataE.instr.rd, MemResult(in)) ELSE RegsNext
           /\ mem' = IF dataE.instr.op = "SD" /\ Aligned(dataE.result)
                     THEN [mem EXCEPT ![dataE.result] = dataE.rd2] ELSE mem
           /\ pcBar' = IF Flushing' THEN dataE.pc ELSE Goes
<1>1. dataE.valid /\ dataE.error = ErrorOf(dataE.instr) /\ FromProgram(dataE)
  BY DEF OrderInv, Labels, Real
<1>2. dataE.instr \in Instruction
  BY <1>1, StageTypes
<1>3. IsMem(dataE.instr) => DataValid /\ in.dok
  <2>1. IsMem(dataE.instr) => Good(dataE)
    BY <1>1 DEF IsMem, Good, ErrorOf, Undecodable
  <2> QED
    BY <2>1 DEF DataValid, StopM
<1>4. /\ dataM'.valid /\ dataM'.pc = dataE.pc /\ dataM'.instr = dataE.instr
      /\ dataM'.error = AccessError /\ dataM'.csr = dataE.csr /\ dataM'.result = MemResult(in)
      /\ program' = program /\ csr' = csr
  BY <1>1, <1>3, Moves
<1>5. pcBar = dataE.pc /\ pendingBar = NoPending
  BY <1>1 DEF pcBar, pendingBar
<1>6. mem' = IF dataE.instr.op = "SD" /\ Aligned(dataE.result)
             THEN [mem EXCEPT ![dataE.result] = dataE.rd2] ELSE mem
  BY <1>3 DEF Clock, IsMem
<1>7. PcE' = Goes
  <2>1. ~dataD.valid /\ PcD = Goes
    BY DEF OrderInv, Chain
  <2> QED
    BY <2>1, NextToExecute DEF Failed
<1>8. pcBar' = IF Flushing' THEN dataE.pc ELSE Goes
  BY <1>4, <1>7 DEF pcBar, PcE, PcD, PcF
<1> QED
  BY <1>1, <1>2, <1>4, <1>5, <1>6, <1>8, NextRegs DEF FromProgram

\* What it hands on is what the machine computes.
LEMMA RetiredResult ==
    ASSUME TypeOK, Inv, OrderInv, ~Flushing, NEW in, Real(dataE)
    PROVE  /\ IsMem(dataE.instr)
                => dataE.result = Plus(RegsNext[dataE.instr.rs1], dataE.instr.imm)
           /\ dataE.instr.op \in {"ALU", "MULT"}
                => MemResult(in) = Alu(dataE.instr, RegsNext[dataE.instr.rs1],
                                       RegsNext[dataE.instr.rs2])
           /\ dataE.instr.op = "JALR" => MemResult(in) = NextPC(dataE.pc)
           /\ dataE.instr.op = "LD" /\ Aligned(dataE.result)
                => MemResult(in) = mem[dataE.result]
           /\ dataE.instr.op = "CSR"
                => MemResult(in) = ReadCsr(csr, CsrName(dataE.instr))
           /\ dataE.rd2 = RegsNext[dataE.instr.rs2]
           /\ dataE.csr = IF dataE.instr.op = "CSRI" THEN dataE.instr.imm
                          ELSE RegsNext[dataE.instr.rs1]
<1>1. /\ dataE.result = Alu(dataE.instr, Operand(dataE.instr, dataE.pc),
                            RegsNext[dataE.instr.rs2])
      /\ dataE.rd2 = RegsNext[dataE.instr.rs2]
      /\ dataE.csr = IF dataE.instr.op = "CSRI" THEN dataE.instr.imm
                     ELSE RegsNext[dataE.instr.rs1]
  BY DEF OrderInv, Operands
<1>2. IsMem(dataE.instr) => dataE.result = Plus(RegsNext[dataE.instr.rs1], dataE.instr.imm)
  BY <1>1 DEF IsMem, Alu, Operand
<1>3. dataE.instr.op \in {"ALU", "MULT"}
         => MemResult(in) = Alu(dataE.instr, RegsNext[dataE.instr.rs1],
                                RegsNext[dataE.instr.rs2])
  BY <1>1 DEF Operand, MemResult
<1>4. dataE.instr.op = "JALR" => MemResult(in) = NextPC(dataE.pc)
  BY <1>1 DEF Operand, MemResult, Alu
<1>5. dataE.instr.op = "LD" /\ Aligned(dataE.result) => MemResult(in) = mem[dataE.result]
  BY DEF MemResult
<1>6. dataE.instr.op = "CSR" => MemResult(in) = ReadCsr(csr, CsrName(dataE.instr))
  BY <1>1 DEF Operand, MemResult, Alu
<1> QED
  BY <1>1, <1>2, <1>3, <1>4, <1>5, <1>6

\* A load, store, computation or jump that does not fault.
LEMMA AsExecuted ==
    ASSUME TypeOK, Inv, OrderInv, ~Flushing, NEW in \in Inputs, Clock(in),
           ~StopM(in), ~StopE(in), Real(dataE),
           dataE.instr.op \in {"ALU", "MULT", "LD", "SD", "BEQ", "JALR", "MARK"},
           IsMem(dataE.instr) => Aligned(dataE.result)
    PROVE  Machine!Execute
<1> DEFINE i == dataE.instr
           a == Plus(RegsNext[i.rs1], i.imm)
           result == CASE i.op = "LD"   -> mem[a]
                       [] i.op = "JALR" -> NextPC(dataE.pc)
                       [] OTHER         -> Alu(i, RegsNext[i.rs1], RegsNext[i.rs2])
<1>1. IsMem(i) => dataE.result = a
  BY RetiredResult
<1>2. AccessError = "NOERROR"
  BY Retiring DEF AccessError, ErrorOf, Undecodable
<1>3. Flushing' <=> csr'.mie /\ intr'
  BY <1>2, Retiring DEF Flushing, Raised, Interrupt, Access
<1>4. pendingBar' = IF Flushing' THEN [pc |-> pcBar, kind |-> "INTERRUPT", csr |-> "mie",
                                      src |-> 0]
                    ELSE NoPending
  BY <1>2, Retiring DEF pendingBar, Raised, System
<1>5. RegsNext' = IF RegWrite(i) THEN SetReg(RegsNext, i.rd, result) ELSE RegsNext
  <2>1. RegWrite(i) => MemResult(in) = result
    BY <1>1, RetiredResult DEF RegWrite, IsMem
  <2> HIDE DEF result
  <2> QED
    BY <2>1, Retiring
<1>6. mem' = IF i.op = "SD" THEN [mem EXCEPT ![a] = RegsNext[i.rs2]] ELSE mem
  BY <1>1, Retiring, RetiredResult DEF IsMem
<1>7. \/ /\ pcBar' = Target(i, pcBar, RegsNext[i.rs1], RegsNext[i.rs2])
         /\ pendingBar' = NoPending
      \/ /\ csr.mie /\ Machine!Pend("INTERRUPT", "mie", 0) /\ pcBar' = pcBar
  BY <1>3, <1>4, Retiring DEF Goes, Machine!Pend
<1>8. /\ program[pcBar] = i /\ pcBar = dataE.pc /\ Aligned(pcBar) /\ pendingBar = NoPending
      /\ program' = program /\ csr' = csr
  BY Retiring
<1>9. IsMem(i) => Aligned(a)
  BY <1>1
<1> HIDE DEF result
<1>10. Machine!SetReg(RegsNext, i.rd, result) = SetReg(RegsNext, i.rd, result)
  BY SameInstructions
<1> USE DEF result
<1> QED
  BY <1>5, <1>6, <1>7, <1>8, <1>9, <1>10, SameInstructions DEF Machine!Execute

\* The register effect of what ends in the csr unit.
LEMMA AsEntered ==
    ASSUME TypeOK, Inv, OrderInv, ~Flushing, NEW in \in Inputs, Clock(in),
           ~StopM(in), ~StopE(in), Real(dataE), dataE.instr.op \in System
    PROVE  Machine!Enter
<1> DEFINE i == dataE.instr
<1>1. AccessError = "NOERROR" /\ dataM'.error = "NOERROR" /\ dataM'.instr.op = i.op
  BY Retiring DEF AccessError, ErrorOf, Undecodable, IsMem, System
<1>2. (Raised' <=> i.op = "ECALL") /\ Flushing'
  BY <1>1, Retiring DEF Flushing, Raised, Access, System
<1>3. pcBar' = pcBar
  BY <1>2, Retiring
<1>4. pendingBar' = [pc |-> pcBar, kind |-> i.op,
                     csr |-> IF i.op \in {"CSR", "CSRI"} THEN CsrName(i) ELSE "mie",
                     src |-> IF i.op \in {"CSR", "CSRI"} THEN dataE.csr ELSE 0]
  <2>1. dataM'.pc = pcBar /\ dataM'.instr = i /\ dataM'.csr = dataE.csr
    BY Retiring
  <2>2. CsrName(dataM.instr)' = CsrName(i)
    BY <2>1 DEF CsrName
  <2> QED
    BY <1>1, <1>2, <2>1, <2>2 DEF pendingBar
<1>5. CASE i.op = "CSR"
  <2>1. Machine!Pend("CSR", i.csr, RegsNext[i.rs1])
    BY <1>4, <1>5, RetiredResult DEF Machine!Pend, CsrName
  <2>2. RegsNext' = SetReg(RegsNext, i.rd, ReadCsr(csr, CsrName(i)))
    BY <1>5, Retiring, RetiredResult DEF RegWrite
  <2> QED
    BY <1>3, <1>5, <2>1, <2>2, Retiring, SameInstructions DEF Machine!Enter, IsMem, RegWrite
<1>6. CASE i.op = "CSRI"
  <2>1. Machine!Pend("CSRI", "mie", i.imm)
    BY <1>4, <1>6, RetiredResult DEF Machine!Pend, CsrName
  <2> QED
    BY <1>3, <1>6, <2>1, Retiring, SameInstructions DEF Machine!Enter, RegWrite, System
<1>7. CASE i.op \in {"ECALL", "MRET"}
  <2>1. Machine!Pend(i.op, "mie", 0)
    BY <1>4, <1>7 DEF Machine!Pend
  <2> QED
    BY <1>3, <1>7, <2>1, Retiring, SameInstructions DEF Machine!Enter, RegWrite, System
<1> QED
  BY <1>5, <1>6, <1>7 DEF System

\* A word that does not decode, or a misaligned data address.
LEMMA AsFault ==
    ASSUME TypeOK, Inv, OrderInv, ~Flushing, NEW in \in Inputs, Clock(in),
           ~StopM(in), ~StopE(in), Real(dataE),
           \/ dataE.instr.op = "UNKNOWN"
           \/ IsMem(dataE.instr) /\ ~Aligned(dataE.result)
    PROVE  Machine!Fault
<1> DEFINE i == dataE.instr
           a == Plus(RegsNext[i.rs1], i.imm)
           kind == CASE i.op = "UNKNOWN" -> "DECODEERRRE"
                     [] i.op = "LD"      -> "LOADERROR"
                     [] OTHER            -> "STOREERROR"
<1>1. i.op = "UNKNOWN" \/ (IsMem(i) /\ ~Aligned(a))
  BY RetiredResult
<1>2. dataM'.error = kind
  BY Retiring DEF AccessError, ErrorOf, Undecodable, Good, IsMem
<1>3. Flushing' /\ Raised'
  BY <1>2, Retiring DEF Flushing, Raised
<1>4. pcBar' = pcBar
  BY <1>3, Retiring
<1>5. kind # "NOERROR"
  OBVIOUS
<1>6. pendingBar' = [pc |-> pcBar, kind |-> kind, csr |-> "mie", src |-> 0]
  <2> HIDE DEF kind
  <2> QED
    BY <1>2, <1>3, <1>5, Retiring DEF pendingBar
<1>7. \/ RegWrite(i) /\ \E v \in Word : RegsNext' = SetReg(RegsNext, i.rd, v)
      \/ ~RegWrite(i) /\ RegsNext' = RegsNext
  BY Retiring, MemResultWord
<1>8. mem' = mem
  BY Retiring DEF IsMem
<1>9. Machine!Pend(kind, "mie", 0)
  <2> HIDE DEF kind
  <2> QED
    BY <1>6 DEF Machine!Pend
<1> QED
  BY <1>1, <1>4, <1>7, <1>8, <1>9, Retiring, SameInstructions DEF Machine!Fault

\* Every clock is a step of the machine, or none.
LEMMA AsMachine ==
    ASSUME TypeOK, Inv, OrderInv, Step
    PROVE  [Machine!Next]_(Machine!vars)
<1>1. PICK in \in Inputs : Clock(in)
  BY DEF Step
<1>2. CASE Flushing
  BY <1>1, <1>2, AsFlush, AsWaitingFlush DEF Machine!Next
<1>3. CASE ~Flushing /\ (StopM(in) \/ StopE(in))
  BY <1>1, <1>3, Waiting DEF Machine!vars, pcBar, pendingBar
<1>4. CASE ~Flushing /\ ~StopM(in) /\ ~StopE(in)
  <2>1. CASE ~dataE.valid
    BY <1>1, <1>4, <2>1, AsEmpty DEF Machine!Next
  <2>2. CASE Failed(dataE)
    BY <1>1, <1>4, <2>2, AsFailed DEF Machine!Next
  <2>3. CASE Real(dataE)
    <3>1. dataE.instr.op \in Ops
      BY <1>1, <1>4, <2>3, Retiring DEF Instruction
    <3>2. \/ /\ dataE.instr.op \in {"ALU", "MULT", "LD", "SD", "BEQ", "JALR", "MARK"}
             /\ IsMem(dataE.instr) => Aligned(dataE.result)
          \/ dataE.instr.op \in System
          \/ dataE.instr.op = "UNKNOWN"
          \/ IsMem(dataE.instr) /\ ~Aligned(dataE.result)
      <4>1. CASE IsMem(dataE.instr) /\ ~Aligned(dataE.result)
        BY <4>1
      <4>2. CASE IsMem(dataE.instr) => Aligned(dataE.result)
        BY <3>1, <4>2 DEF Ops, System
      <4> QED
        BY <4>1, <4>2
    <3> QED
      BY <1>1, <1>4, <2>3, <3>2, AsExecuted, AsEntered, AsFault DEF Machine!Next
  <2> QED
    BY <2>1, <2>2, <2>3, StageSplit
<1> QED
  BY <1>2, <1>3, <1>4

\* The machine starts where the pipeline does.
LEMMA AsInit == ASSUME Init PROVE Machine!Init
<1>1. ~Flushing /\ RegsNext = regs
  BY DEF Init, Flushing, Raised, Interrupt, Access, RegsNext, Bubble
<1>2. pcBar = pc /\ pendingBar = NoPending
  BY <1>1 DEF Init, pcBar, pendingBar, Bubble
<1> QED
  BY <1>1, <1>2, SameInstructions DEF Init, Machine!Init

\* A step that changes nothing is none of the machine's.
LEMMA AsStutter == ASSUME UNCHANGED vars PROVE UNCHANGED Machine!vars
<1>1. UNCHANGED <<program, pc, dataF, dataD, dataE, dataM, regs, csr, mem, intr>>
  BY DEF vars
<1>2. RegsNext' = RegsNext /\ (Flushing' <=> Flushing) /\ (Raised' <=> Raised)
  BY <1>1 DEF RegsNext, Flushing, Raised, Interrupt, Access
<1>3. pcBar' = pcBar /\ pendingBar' = pendingBar
  BY <1>1, <1>2 DEF pcBar, pendingBar, CsrName
<1> QED
  BY <1>1, <1>2, <1>3 DEF Machine!vars

\* The pipeline runs every program as the sequential machine does, whatever the
\* latency of the caches and the multiplier and whenever interrupts come: every
\* instruction once, in order, with the operands and the memory of those before
\* it, and traps, returns and csr writes between two instructions.
THEOREM PipelineImplementsIsa == Spec => InOrder
<1>1. Init => Machine!Init
  BY AsInit
<1>2. TypeOK /\ Inv /\ OrderInv /\ [Next]_vars => [Machine!Next]_(Machine!vars)
  BY AsMachine, AsStutter DEF Next
<1> QED
  BY <1>1, <1>2, TypeCorrect, Occupation, InstructionOrder, PTL DEF Spec, InOrder, Machine!Spec
=============================================================================
