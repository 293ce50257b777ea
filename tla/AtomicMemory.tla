---------------------------- MODULE AtomicMemory ----------------------------
(***************************************************************************)
(* What a DBus slave promises its master, with or without a cache behind   *)
(* it: one request at a time, held until it is answered; a store takes     *)
(* effect on the addressed lanes once, at one moment between its request   *)
(* and its answer; a load returns what the last effective store left.      *)
(***************************************************************************)
CONSTANTS Addr, Lanes, Bytes, ZeroByte

Word     == [Lanes -> Bytes]
ZeroWord == [l \in Lanes |-> ZeroByte]
Merge(old, strobe, new) ==
    [l \in Lanes |-> IF l \in strobe THEN new[l] ELSE old[l]]

Request   == [valid : {TRUE}, addr : Addr, strobe : SUBSET Lanes, data : Word]
NoRequest == [valid |-> FALSE]
NoAnswer  == [ok |-> FALSE, data |-> ZeroWord]

VARIABLES
    amem,     \* the contents of the memory
    req,      \* the request being served
    done,     \* has the store being served taken effect?
    rsp       \* the answer given at the last clock edge

avars == <<amem, req, done, rsp>>

IsStoreReq == req.strobe # {}
Stored == [amem EXCEPT ![req.addr] = Merge(@, req.strobe, req.data)]

Init ==
    /\ amem \in [Addr -> Word]
    /\ req = NoRequest
    /\ done = FALSE
    /\ rsp = NoAnswer

Send ==
    /\ ~req.valid
    /\ req' \in Request
    /\ rsp' = NoAnswer
    /\ UNCHANGED <<amem, done>>

Settle ==                        \* a cycle that only clears the last answer
    /\ rsp' = NoAnswer
    /\ UNCHANGED <<amem, req, done>>

Apply ==
    /\ req.valid /\ IsStoreReq /\ ~done
    /\ amem' = Stored
    /\ done' = TRUE
    /\ rsp' = NoAnswer
    /\ UNCHANGED req

AnswerLoad ==
    /\ req.valid /\ ~IsStoreReq
    /\ rsp' = [ok |-> TRUE, data |-> amem[req.addr]]
    /\ req' \in Request \cup {NoRequest}
    /\ UNCHANGED <<amem, done>>

\* The answer may come with the effect (an uncached store) or after it.
AnswerStore ==
    /\ req.valid /\ IsStoreReq
    /\ amem' = IF done THEN amem ELSE Stored
    /\ done' = FALSE
    /\ rsp' = [ok |-> TRUE, data |-> ZeroWord]
    /\ req' \in Request \cup {NoRequest}

Next == Send \/ Settle \/ Apply \/ AnswerLoad \/ AnswerStore

Spec == Init /\ [][Next]_avars
=============================================================================
