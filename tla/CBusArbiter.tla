---------------------------- MODULE CBusArbiter -----------------------------
(***************************************************************************)
(* vsrc/util/CBusArbiter.sv: gives the one cache bus to one of NumInputs   *)
(* masters for a whole transaction.  The grant is taken in a cycle in      *)
(* which the output is silent, lowest input first, and is kept until the   *)
(* last beat.  saved_req is kept by the code and never read; it is left    *)
(* out.  The masters' wires are the function ireqs; the response of the    *)
(* slave is a parameter.                                                   *)
(***************************************************************************)
EXTENDS Words

CONSTANT NumInputs
ASSUME InputAssumption == NumInputs \in Nat \ {0}

Inputs == 0 .. (NumInputs - 1)

VARIABLES
    ireqs,      \* the request wires of the masters
    busy,       \* is the bus granted?
    grant       \* to whom ("index" in the code)

ArbiterInit == busy = FALSE /\ grant = 0

oreq == IF busy THEN ireqs[grant] ELSE Silent

Bug_SelectLast ==
    IF \E i \in Inputs : ireqs[i].valid
      THEN CHOOSE i \in Inputs : ireqs[i].valid /\ \A j \in Inputs : j > i => ~ireqs[j].valid
      ELSE 0
\* The preferred request: the valid one with the lowest index, else input 0.
select ==
    IF \E i \in Inputs : ireqs[i].valid
      THEN CHOOSE i \in Inputs : ireqs[i].valid /\ \A j \in Inputs : j < i => ~ireqs[j].valid
      ELSE 0

Bug_RespondToAll(i, oresp) == IF busy THEN oresp ELSE NoResponse
\* The response input i sees.
iresp(i, oresp) == IF busy /\ grant = i THEN oresp ELSE NoResponse

Bug_RegrantEveryBeat(oresp) ==
    IF busy
      THEN busy' = ~oresp.ready /\ UNCHANGED grant
      ELSE busy' = ireqs[select].valid /\ grant' = select
Bug_NeverRelease(oresp) ==
    IF busy THEN UNCHANGED <<busy, grant>>
            ELSE busy' = ireqs[select].valid /\ grant' = select
\* One rising edge.
ArbiterEdge(oresp) ==
    IF busy
      THEN busy' = ~oresp.last /\ UNCHANGED grant
      ELSE busy' = ireqs[select].valid /\ grant' = select
=============================================================================
