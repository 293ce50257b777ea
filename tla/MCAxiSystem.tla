----------------------------- MODULE MCAxiSystem ----------------------------
(* Instances of AxiSystem for TLC.                                         *)
EXTENDS AxiSystem

MCBytes == {0, 1}
Byte(v) == [l \in Lanes |-> v]
MCRequests ==
    {[valid |-> TRUE, write |-> FALSE, addr |-> [line |-> 1, word |-> o], len |-> n,
      strobe |-> {}, data |-> Byte(0)] : o \in Offsets, n \in {1, LineWords}}
      \cup
    {[valid |-> TRUE, write |-> TRUE, addr |-> [line |-> 1, word |-> o], len |-> n,
      strobe |-> Lanes, data |-> Byte(v)] :
        o \in Offsets, n \in {1, LineWords}, v \in MCBytes}
=============================================================================
