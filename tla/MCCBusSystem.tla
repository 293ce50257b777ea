--------------------------- MODULE MCCBusSystem -----------------------------
(* Instances of CBusSystem for TLC.                                         *)
EXTENDS CBusSystem

\* Line bursts start at the line's first word, as the caches issue them; one
\* burst starts in the middle to exercise the wrap; single beats anywhere.
MCRequests ==
    {[valid |-> TRUE, write |-> w, addr |-> [line |-> 1, word |-> o], len |-> n,
      strobe |-> IF w THEN Lanes ELSE {}, data |-> [l \in Lanes |-> IF w THEN 1 ELSE 0]] :
        w \in BOOLEAN, o \in {0, 1}, n \in {1, LineWords}}
MCBytes == {0, 1}
=============================================================================
