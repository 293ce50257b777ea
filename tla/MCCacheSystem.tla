--------------------------- MODULE MCCacheSystem ----------------------------
(***************************************************************************)
(* An instance of CacheSystem for TLC: two sets of words of two lanes,     *)
(* three tags over the two ways of the first set, and an uncached word.    *)
(***************************************************************************)
EXTENDS CacheInv

CONSTANTS t1, t2, t3, u1

TwoLanes == {0, 1}
MCBytes == {0, 1}
Both(v) == [l \in TwoLanes |-> v]

Load(a)        == [valid |-> TRUE, addr |-> a, strobe |-> {}, data |-> Both(0)]
Store(a, s, v) == [valid |-> TRUE, addr |-> a, strobe |-> s, data |-> Both(v)]
A(t, s, o) == [tag |-> t, set |-> s, word |-> o]

(***************************************************************************)
(* One word of one line is told apart by its value, lane by lane, and one  *)
(* uncached word; every other word is 0.  A value that goes astray, lost   *)
(* or written elsewhere, shows at one of them.  The second set is asked    *)
(* for one word only, which is enough for the registers one set leaves     *)
(* behind to be used by the other.                                         *)
(***************************************************************************)
Tracked  == A(t1, 0, 1)
OtherSet == A(t1, 1, 0)
Direct   == A(u1, 0, 0)

MCRequests ==
    {Load(A(t, 0, 0)) : t \in {t2, t3}}
        \cup {Load(a) : a \in {Tracked, OtherSet, Direct}}
        \cup {Store(Tracked, {0}, 1), Store(Tracked, TwoLanes, 0),
              Store(OtherSet, TwoLanes, 0), Store(Direct, {0}, 1)}
MCMemories == {[a \in Addr |-> Both(0)]}
=============================================================================
