----------------------------- MODULE AxiBridge ------------------------------
(***************************************************************************)
(* vsrc/util/CBusToAXI.sv: one cache bus request at a time as an AXI       *)
(* transaction.  The five channels are issued together, AR and R for a     *)
(* read, AW, W and B for a write, and each is crossed off as it ends; the  *)
(* next request is taken when none is left.  Addresses and lengths come    *)
(* from the request saved then, the data of a write from the live wires.   *)
(*                                                                         *)
(* What the slave does in a cycle is the parameter s: the channels go on   *)
(* which it is ready (AR, AW, W) or valid (R, B), and rlast and rdata.     *)
(***************************************************************************)
EXTENDS Words

VARIABLES
    creq,         \* the request wires of the cache bus
    in_issue,     \* the channels of the transaction that have not ended
    saved_req,
    count         \* the beats left after the current one

Channels == {"AR", "R", "AW", "W", "B"}
CountValues == 256       \* mlen_t has eight bits

Bug_NoResponseAwaited == IF creq.write THEN {"AW", "W"} ELSE {"AR", "R"}
\* The channels a request needs.
next_issue == IF creq.write THEN {"AW", "W", "B"} ELSE {"AR", "R"}
is_last == count = 0

handshake(s) == in_issue \cap s.go

Bug_WriteEndsAtFirst(s) == {c \in handshake(s) : c = "R" => s.rlast}
\* A burst channel ends with its last beat.
ended(s) == {c \in handshake(s) : (c = "R" => s.rlast) /\ (c = "W" => is_last)}

Bug_LastIgnoresCount(s) ==
    LET ready == handshake(s) \cap {"W", "R"} # {}
    IN  [ready |-> ready, last |-> ready /\ ("R" \in in_issue => s.rlast), data |-> s.rdata]
\* The response on the cache bus.
cresp(s) ==
    LET ready == handshake(s) \cap {"W", "R"} # {}
    IN  [ready |-> ready,
         last  |-> ready /\ ("R" \in in_issue => s.rlast) /\ is_last,
         data  |-> s.rdata]

BridgeInit == in_issue = {} /\ saved_req = Silent /\ count = 0

Bug_CountFromLen(s) ==
    IF in_issue # {}
      THEN /\ count' = IF cresp(s).ready /\ ~cresp(s).last
                         THEN (count + CountValues - 1) % CountValues ELSE count
           /\ in_issue' = in_issue \ ended(s)
           /\ UNCHANGED saved_req
      ELSE /\ in_issue' = IF creq.valid THEN next_issue ELSE {}
           /\ saved_req' = creq
           /\ count' = IF creq.valid THEN creq.len ELSE 0
\* One rising edge.  saved_req and count follow the wires while no transaction
\* is under way; the length of a silent request is not kept.
BridgeEdge(s) ==
    IF in_issue # {}
      THEN /\ count' = IF cresp(s).ready /\ ~cresp(s).last
                         THEN (count + CountValues - 1) % CountValues ELSE count
           /\ in_issue' = in_issue \ ended(s)
           /\ UNCHANGED saved_req
      ELSE /\ in_issue' = IF creq.valid THEN next_issue ELSE {}
           /\ saved_req' = creq
           /\ count' = IF creq.valid THEN creq.len - 1 ELSE 0
=============================================================================
