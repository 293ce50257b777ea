---------------------------- MODULE MCMemSystem -----------------------------
(* Instances of MemSystem for TLC: code in lines c1, data in lines d1..d3.  *)
EXTENDS MemSystem

CONSTANTS c1, c2, d1, d2, d3, u1

MCLanes == {0}
Byte(v) == [l \in MCLanes |-> v]
Load(a)     == [valid |-> TRUE, addr |-> a, strobe |-> {}, data |-> Byte(0)]
Store(a, v) == [valid |-> TRUE, addr |-> a, strobe |-> MCLanes, data |-> Byte(v)]
A(t, o) == [tag |-> t, set |-> 0, word |-> o]

\* Two dirty lines and a clean one for two ways, an uncached word, and code.
\* Code words are 1, data words 0 except for the word stored to.
TwoBytes == {0, 1}
DataRequests ==
    {Load(A(d2, 0)), Load(A(u1, 0)), Store(A(d3, 0), 0), Store(A(d1, 1), 1)}
CodeRequests == {Load(A(c1, 0))}
CodeMemory == {[a \in Addr |-> Byte(IF a.tag \in {c1, c2} THEN 1 ELSE 0)]}
=============================================================================
