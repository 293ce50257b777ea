---------------------------- MODULE MCCacheBench ----------------------------
(***************************************************************************)
(* An instance of CacheBench for TLC: one set, three lines for its two     *)
(* ways, words of two lanes; bit 31 is 8 in a tag.                         *)
(***************************************************************************)
EXTENDS CacheBench

MCBytes == {0, 1}
A(t, o) == [tag |-> t, set |-> 0, word |-> o]

\* The lanes of a value, the first one first.
Value(v) == [i \in 0 .. Len(v) - 1 |-> v[i + 1]]
Op(kind, at, offset, width, v) ==
    [kind |-> kind, at |-> at, offset |-> offset, width |-> width, value |-> Value(v)]

\* One word is written byte-wise and as a whole; the other lines drive it out.
MCOperations ==
    {Op("store", A(1, 1), 1, 1, <<1>>), Op("store", A(1, 1), 0, 2, <<0, 0>>),
     Op("load", A(1, 1), 1, 1, <<>>), Op("expect", A(1, 1), 0, 2, <<>>),
     Op("load", A(2, 0), 0, 2, <<>>), Op("store", A(3, 0), 0, 1, <<0>>)}
=============================================================================
