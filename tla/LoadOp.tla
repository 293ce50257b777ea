------------------------------- MODULE LoadOp -------------------------------
(***************************************************************************)
(* The byte lanes of an access of the test bench: LoadOp of                *)
(* verilate/include/bus.h.  The sixteen values of its enumeration and the  *)
(* five tables over them are one formula each: an operation is a size and  *)
(* the first lane it touches, both in bytes, and a 64 bit mask is the set  *)
(* of lanes it covers.                                                     *)
(***************************************************************************)
EXTENDS Words

CONSTANT WordBytes       \* 8 in the code

ASSUME LaneAssumption == WordBytes \in Nat \ {0} /\ Lanes = 0 .. WordBytes - 1

\* The widths an access may have: 1, 2, 4 and 8 of 8 bytes.
Widths == {w \in 1 .. WordBytes : WordBytes % w = 0}

LoadOps == {op \in [size : Widths, shift : Lanes] : op.shift % op.size = 0}

Bug_parse(width, offset) == [size |-> width, shift |-> 0]
\* LoadOp::parse: the low bits of the address, rounded down to the width.
parse(width, offset) == [size |-> width, shift |-> (offset \div width) * width]

\* LoadOp::strobe and LoadOp::mask cover the same lanes.
strobe(op) == {l \in Lanes : op.shift <= l /\ l < op.shift + op.size}
mask(op)   == strobe(op)

\* LoadOp::place shifts data up to its lanes and leaves what is above as it is.
place(op, data) ==
    [l \in Lanes |-> IF l < op.shift THEN ZeroByte ELSE data[l - op.shift]]

\* LoadOp::apply, to a word and to memory of the size of the access.
apply(op, data) ==
    [l \in Lanes |-> IF l + op.shift < WordBytes THEN data[l + op.shift] ELSE ZeroByte]
applyTo(op, data) == [i \in 0 .. op.size - 1 |-> apply(op, data)[i]]
=============================================================================
