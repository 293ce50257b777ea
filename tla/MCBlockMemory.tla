---------------------------- MODULE MCBlockMemory ----------------------------
(* An instance of BlockMemory for TLC with the widths of the code, and     *)
(* images that end in either half of a word.                               *)
EXTENDS BlockMemory

EightLanes == 0 .. 7
Image(n) == [i \in 1 .. n |-> 1 + (i % 2)]
SomeImages == {Image(n) : n \in {0, 4, 5, 8, 11}}
=============================================================================
