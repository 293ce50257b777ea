----------------------------- MODULE CoreProps -----------------------------
(***************************************************************************)
(* What the pipeline of Core keeps to: the sequential machine it refines,  *)
(* and what it promises the two caches and itself in every clock.          *)
(***************************************************************************)
EXTENDS Core

\* Every register of the pipeline holds a value of its kind.
TypeOK == PipeTypeOK

(***************************************************************************)
(* The state of the sequential machine: the registers as the register file *)
(* writes them at the next edge (what Difftest is shown), and the address  *)
(* of the oldest instruction that has not reached dataM.  An instruction   *)
(* in dataM that will flush is pending.                                    *)
(***************************************************************************)
Flushing == Raised \/ Interrupt \/ Access

pendingBar ==
    IF ~Flushing THEN NoPending
    ELSE [pc |-> dataM.pc,
          kind |-> IF dataM.error # "NOERROR" THEN dataM.error
                   ELSE IF dataM.instr.op \in System THEN dataM.instr.op
                   ELSE "INTERRUPT",
          csr |-> IF Raised \/ dataM.instr.op \notin {"CSR", "CSRI"} THEN "mie"
                  ELSE CsrName(dataM.instr),
          src |-> IF Raised \/ dataM.instr.op \notin {"CSR", "CSRI"} THEN 0 ELSE dataM.csr]

pcBar ==
    IF Flushing THEN dataM.pc
    ELSE IF dataE.valid THEN dataE.pc
    ELSE IF dataD.valid THEN dataD.pc
    ELSE IF dataF.valid THEN dataF.pc
    ELSE pc

Machine == INSTANCE Isa WITH pc <- pcBar, regs <- RegsNext, pending <- pendingBar

\* The pipeline runs the program as the sequential machine does: every
\* instruction once, in order, with the operands and the memory of those before
\* it, none of a path that was not taken, and traps, returns and csr writes
\* between two instructions.
InOrder == Machine!Spec
-----------------------------------------------------------------------------
\* An instruction that was fetched, as opposed to a fetch that failed.
Real(stage) == stage.valid /\ stage.error # "FETCHERROR"

\* No two neighbouring stages hold instructions at once.  The operands of
\* branches, jumps and stored data are read without waiting for a load in the
\* next stage (immediate.sv), and a fault in dataM is lost behind a load or
\* store in dataE (memory.sv, csr.sv): only this spacing keeps both from
\* mattering.
Spaced ==
    /\ ~(Real(dataF) /\ Real(dataD))
    /\ ~(Real(dataD) /\ Real(dataE))
    /\ ~(Real(dataE) /\ Real(dataM))

(***************************************************************************)
(* Why the pipeline is spaced.  pc has just moved when an instruction      *)
(* enters dataF, so the cache can have the next one only after this one    *)
(* has left dataF, and after it has left dataD unless the multiplier holds *)
(* it there; and a failed fetch is followed by failed fetches only, until  *)
(* the flush.                                                              *)
(***************************************************************************)
Failed(stage) == stage.valid /\ stage.error = "FETCHERROR"

InFetch == Real(dataF) => /\ move /\ ~ipend
                          /\ ~Real(dataD)
                          /\ Real(dataE) => dataE.instr.op = "MULT"

InDecode == Real(dataD) => /\ ~Real(dataE)
                           /\ ipend => Good(dataD) /\ dataD.instr.op = "MULT"

InExecute == Real(dataE) => ~Real(dataM)

OffTheWords == ~Aligned(pc) => ~Real(dataF) /\ ~Real(dataD)

AfterFailure ==
    /\ Failed(dataF) \/ Failed(dataD) \/ Failed(dataE) \/ Failed(dataM) => ~Aligned(pc)
    /\ Failed(dataM) => ~Real(dataE)

\* The inductive invariant of the pipeline's occupation.
Inv == InFetch /\ InDecode /\ InExecute /\ OffTheWords /\ AfterFailure

\* A fault, a csr access, a return or an interrupt in dataM stays there until
\* the flush it asks for empties the pipeline: nothing overwrites it.
FlushCarriedOut ==
    [][Flushing => \/ Flushing' /\ dataM' = dataM
                   \/ pc' = CsrPc /\ ~(dataF'.valid \/ dataD'.valid \/ dataE'.valid \/ dataM'.valid)]_vars

\* A fetch the cache has gone to work on (its second cycle, not answered) is
\* neither withdrawn nor moved: ICache cannot abandon its bus transaction.
FetchHeld == [][FetchValid /\ ipend /\ ipend' => FetchValid' /\ pc' = pc]_vars

\* A data request is held unchanged until it is answered.
DataHeld == [][DataValid /\ dpend' => dataE' = dataE]_vars

\* The cycle after an answer has no data request: DCache needs it, because an
\* uncached access leaves its state machine anywhere, and the arbiter gives
\* the bus to the fetch in it.
DataRests == [][DataValid /\ ~dpend' => ~DataValid']_vars

\* A multiplication or division that has been in dataD for a cycle has no older
\* instruction behind it that could flush or hold it: the divider, which keeps
\* data_ok when its request is withdrawn (div.sv), would answer the next
\* division at once.
DivisionAlone ==
    [][Good(dataD) /\ dataD.instr.op = "MULT" /\ dataD' = dataD
        => ~dataE'.valid /\ ~dataM'.valid]_vars

\* A fetch at a misaligned address ends in a trap: what dataE holds of it
\* reaches the csr unit.
FetchFaultReported ==
    [][~Flushing /\ dataE.valid /\ dataE.error = "FETCHERROR" => dataM'.valid]_vars
-----------------------------------------------------------------------------
(* The caches and the multiplier answer in the end. *)

AnswerFetch == \E in \in Inputs : in.iok /\ Clock(in)
AnswerData == \E in \in Inputs : in.dok /\ Clock(in)
AnswerMultiply == \E in \in Inputs : in.mok /\ Clock(in)

FairSpec ==
    /\ Spec
    /\ WF_vars(Step)
    /\ WF_vars(AnswerFetch) /\ WF_vars(AnswerData) /\ WF_vars(AnswerMultiply)

\* The core never stops: instructions reach dataM again and again, unless it runs
\* off at a misaligned address (see FetchFaultReported), and no flush waits for
\* ever for the fetch it would overrule.
Retires == /\ []<>(dataM.valid) \/ <>[](~Aligned(pc))
           /\ []<>(~Flushing)
=============================================================================
