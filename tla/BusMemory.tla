----------------------------- MODULE BusMemory ------------------------------
(***************************************************************************)
(* What a slave of the cache bus promises, CBusDevice and CBusToAXI alike  *)
(* ("class CBusDevice should match the behavior of module CBusToAXI",      *)
(* verilate/include/memory.h:87): the beats of a request are served one    *)
(* after another, with any pauses, the last one marked; a write beat has   *)
(* taken effect when it is answered, and a read beat shows what the write  *)
(* beats before it left.                                                   *)
(***************************************************************************)
EXTENDS BusMaster

VARIABLES
    creq,     \* the request wires
    beat,     \* the beats of it that were served
    mem,
    rsp       \* the response of the last cycle

busvars == <<creq, beat, mem, rsp>>

Init ==
    /\ creq = Silent
    /\ beat = 0
    /\ mem \in [Addr -> Word]
    /\ rsp = NoResponse

Here == Wrapped(creq.addr, creq.len, beat)
Answer == [ready |-> TRUE, last |-> beat + 1 = creq.len,
           data  |-> IF creq.write THEN ZeroWord ELSE mem[Here]]

Serve ==
    /\ creq.valid
    /\ rsp' = Answer
    /\ beat' = IF Answer.last THEN 0 ELSE beat + 1
    /\ mem' = IF creq.write THEN [mem EXCEPT ![Here] = Merge(@, creq.strobe, creq.data)]
                            ELSE mem
    /\ creq' \in Follows(creq, Answer)

Pass ==
    /\ rsp' = NoResponse
    /\ creq' \in Follows(creq, NoResponse)
    /\ UNCHANGED <<beat, mem>>

Next == Serve \/ Pass

Spec == Init /\ [][Next]_busvars
=============================================================================
