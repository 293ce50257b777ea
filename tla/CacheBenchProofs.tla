-------------------------- MODULE CacheBenchProofs --------------------------
(***************************************************************************)
(* What the tests of the data cache may rely on, for every cache, every    *)
(* set of operations and every delay of the device.                        *)
(*                                                                         *)
(* The reference cache holds what a flat memory would, after any calls in  *)
(* any order (ReferenceRight).  RefSound is inductive as it stands: a      *)
(* clean victim may be dropped because it is a copy, and a dirty one is    *)
(* found in memory afterwards because no other way holds its line.         *)
(*                                                                         *)
(* Between two calls of a compared test it holds what the test has stored  *)
(* (ReferenceHoldsProgram).  A call changes the test's own memory when it  *)
(* is made and the reference cache when it returns; in between (Pending)   *)
(* the two differ by the one store, and that the store's lanes are the     *)
(* test's bytes is a matter of LoadOp (StoreLanes).                        *)
(*                                                                         *)
(* Each task is answered with what the test believed in when it was        *)
(* submitted (TestsDeliveredInOrder), so the comparison with the reference *)
(* cache never fails either (ComparisonNeverFails).  The argument is below *)
(* "The cache under the tests".                                            *)
(***************************************************************************)
EXTENDS CacheBench, TLAPS

-----------------------------------------------------------------------------
(* The reference cache.                                                    *)

\* A sequence of calls on a reference cache that starts empty.
Calls ==
    \/ \E a \in Ref!RefAddr : Ref!RefLoad(a)
    \/ \E a \in Ref!RefAddr, s \in SUBSET Lanes, d \in Ref!Word : Ref!RefStore(a, s, d)
RefSpec == prog \in [Ref!RefAddr -> Ref!Word] /\ Ref!RefInit(prog) /\ [][Calls]_<<ref, prog>>

\* r and the flat memory p hold the same.
Agree(r, p) == Ref!RefSound(r) /\ \A b \in Ref!RefAddr : Ref!RefValue(r, b) = p[b]
-----------------------------------------------------------------------------
LEMMA MergeType ==
  ASSUME NEW v \in Ref!Word, NEW s \in SUBSET Lanes, NEW d \in Ref!Word
  PROVE  Ref!Merge(v, s, d) \in Ref!Word
  BY DEF Ref!Merge, Ref!Word

\* An address is in one way at most, and its value is found there or in memory.
LEMMA ValueIs ==
  ASSUME NEW r, Ref!RefSound(r), NEW b \in Ref!RefAddr
  PROVE  /\ ~(Ref!Has(r, b, 0) /\ Ref!Has(r, b, 1))
         /\ \A w \in Ref!Ways : Ref!Has(r, b, w) =>
                /\ Ref!HitLine(r, b) = <<b.set, w>> /\ Ref!StoreLine(r, b) = <<b.set, w>>
                /\ Ref!RefValue(r, b) = r.data[<<<<b.set, w>>, b.word>>]
         /\ (\A w \in Ref!Ways : ~Ref!Has(r, b, w)) => Ref!RefValue(r, b) = r.mem[b]
<1>1. b.set \in Sets BY DEF Ref!RefAddr
<1>2. ~(Ref!Has(r, b, 0) /\ Ref!Has(r, b, 1))
  BY <1>1 DEF Ref!RefSound, Ref!Has
<1>3. ASSUME NEW w \in Ref!Ways, Ref!Has(r, b, w)
      PROVE  Ref!HitLine(r, b) = <<b.set, w>> /\ Ref!StoreLine(r, b) = <<b.set, w>>
  BY <1>2, <1>3 DEF Ref!HitLine, Ref!StoreLine, Ref!Ways
<1>4. QED BY <1>2, <1>3 DEF Ref!RefValue

\* What a replacement makes of r: line l for address a, the rest kept.
Refilled(r, a, l, n) ==
    /\ n \in Ref!RefType
    /\ n.valid[l] /\ ~n.dirty[l] /\ n.tag[l] = a.tag
    /\ \A k \in Ref!Lines : k # l =>
           /\ n.valid[k] = r.valid[k] /\ n.dirty[k] = r.dirty[k] /\ n.tag[k] = r.tag[k]
           /\ \A o \in 0 .. LineWords - 1 : n.data[<<k, o>>] = r.data[<<k, o>>]
    /\ \A o \in 0 .. LineWords - 1 : n.data[<<l, o>>] = n.mem[[a EXCEPT !.word = o]]
    /\ \A b \in Ref!RefAddr :
           n.mem[b] = IF r.dirty[l] /\ b.set = a.set /\ b.tag = r.tag[l]
                        THEN r.data[<<l, b.word>>] ELSE r.mem[b]

LEMMA ReplacedParts ==
  ASSUME NEW r, Ref!RefSound(r), NEW a \in Ref!RefAddr, NEW v \in Ref!Ways
  PROVE  Refilled(r, a, <<a.set, v>>, Ref!Replaced(r, a, <<a.set, v>>))
<1> DEFINE l == <<a.set, v>>
           n == Ref!Replaced(r, a, l)
<1>1. l \in Ref!Lines /\ l[1] = a.set /\ a.tag \in MemTags BY DEF Ref!Lines, Ref!RefAddr
<1>2. /\ r.cnt \in [Sets -> Ref!Ways]
      /\ r.valid \in [Ref!Lines -> BOOLEAN] /\ r.dirty \in [Ref!Lines -> BOOLEAN]
      /\ r.tag \in [Ref!Lines -> MemTags \cup {ResetTag}]
      /\ r.data \in [Ref!Lines \X (0 .. LineWords - 1) -> Ref!Word]
      /\ r.mem \in [Ref!RefAddr -> Ref!Word]
  BY DEF Ref!RefSound, Ref!RefType
<1>3. /\ n.cnt = [r.cnt EXCEPT ![a.set] = 1 - @]
      /\ n.valid = [r.valid EXCEPT ![l] = TRUE]
      /\ n.dirty = [r.dirty EXCEPT ![l] = FALSE]
      /\ n.tag = [r.tag EXCEPT ![l] = a.tag]
      /\ n.data = [x \in DOMAIN r.data |->
                     IF x[1] = l THEN Ref!WrittenBack(r, l)[[a EXCEPT !.word = x[2]]]
                                 ELSE r.data[x]]
      /\ n.mem = Ref!WrittenBack(r, l)
      /\ n = [cnt |-> n.cnt, valid |-> n.valid, dirty |-> n.dirty, tag |-> n.tag,
              data |-> n.data, mem |-> n.mem]
  BY DEF Ref!Replaced
<1>4. \A o \in 0 .. LineWords - 1 : [a EXCEPT !.word = o] \in Ref!RefAddr
  BY DEF Ref!RefAddr
<1>5. Ref!WrittenBack(r, l) \in [Ref!RefAddr -> Ref!Word]
  <2>1. \A b \in Ref!RefAddr : <<l, b.word>> \in Ref!Lines \X (0 .. LineWords - 1)
    BY <1>1 DEF Ref!RefAddr
  <2>2. QED BY <1>2, <2>1 DEF Ref!WrittenBack
<1>6. n.cnt \in [Sets -> Ref!Ways]
  <2>1. a.set \in Sets BY DEF Ref!RefAddr
  <2>2. \A c \in Ref!Ways : 1 - c \in Ref!Ways BY DEF Ref!Ways
  <2> HIDE DEF l, n
  <2>3. QED BY <1>2, <1>3, <2>1, <2>2
<1>7. n.data \in [Ref!Lines \X (0 .. LineWords - 1) -> Ref!Word]
  <2>1. DOMAIN r.data = Ref!Lines \X (0 .. LineWords - 1) BY <1>2
  <2>2. \A x \in Ref!Lines \X (0 .. LineWords - 1) :
            /\ x[2] \in 0 .. LineWords - 1 /\ r.data[x] \in Ref!Word
            /\ Ref!WrittenBack(r, l)[[a EXCEPT !.word = x[2]]] \in Ref!Word
    BY <1>2, <1>4, <1>5
  <2> HIDE DEF l, n
  <2>3. QED BY <1>3, <2>1, <2>2
<1>8. /\ n.valid \in [Ref!Lines -> BOOLEAN] /\ n.dirty \in [Ref!Lines -> BOOLEAN]
      /\ n.tag \in [Ref!Lines -> MemTags \cup {ResetTag}]
  <2> HIDE DEF l, n
  <2>1. QED BY <1>1, <1>2, <1>3
<1>9. n \in Ref!RefType
  <2> HIDE DEF l, n
  <2>1. n.mem \in [Ref!RefAddr -> Ref!Word] BY <1>3, <1>5
  <2>2. QED BY <1>3, <1>6, <1>7, <1>8, <2>1 DEF Ref!RefType
<1>10. n.valid[l] /\ ~n.dirty[l] /\ n.tag[l] = a.tag
  <2> HIDE DEF l, n
  <2>1. QED BY <1>1, <1>2, <1>3
<1>11. ASSUME NEW k \in Ref!Lines, k # l
       PROVE  /\ n.valid[k] = r.valid[k] /\ n.dirty[k] = r.dirty[k] /\ n.tag[k] = r.tag[k]
              /\ \A o \in 0 .. LineWords - 1 : n.data[<<k, o>>] = r.data[<<k, o>>]
  <2> HIDE DEF l, n
  <2>1. QED BY <1>2, <1>3, <1>11
<1>12. \A o \in 0 .. LineWords - 1 : n.data[<<l, o>>] = n.mem[[a EXCEPT !.word = o]]
  <2> HIDE DEF l, n
  <2>1. QED BY <1>1, <1>2, <1>3
<1>13. \A b \in Ref!RefAddr :
         n.mem[b] = IF r.dirty[l] /\ b.set = a.set /\ b.tag = r.tag[l]
                      THEN r.data[<<l, b.word>>] ELSE r.mem[b]
  <2> HIDE DEF l, n
  <2>1. QED BY <1>1, <1>3 DEF Ref!WrittenBack
<1> HIDE DEF n
<1>14. Refilled(r, a, l, n) BY <1>9, <1>10, <1>11, <1>12, <1>13 DEF Refilled
<1>15. QED BY <1>14 DEF n

LEMMA ReplacedSound ==
  ASSUME NEW r, Ref!RefSound(r), NEW a \in Ref!RefAddr, NEW v \in Ref!Ways,
         \A w \in Ref!Ways : ~Ref!Has(r, a, w)
  PROVE  Ref!RefSound(Ref!Replaced(r, a, <<a.set, v>>))
<1> DEFINE l == <<a.set, v>>
           n == Ref!Replaced(r, a, l)
<1>0. l \in Ref!Lines /\ l[1] = a.set /\ a.tag \in MemTags /\ a.set \in Sets
  BY DEF Ref!Lines, Ref!RefAddr
<1>1. Refilled(r, a, l, n) BY ReplacedParts
<1> HIDE DEF n
<1>2. ASSUME NEW s \in Sets, n.valid[<<s, 0>>], n.valid[<<s, 1>>]
      PROVE  n.tag[<<s, 0>>] # n.tag[<<s, 1>>]
  <2>1. <<s, 0>> \in Ref!Lines /\ <<s, 1>> \in Ref!Lines BY DEF Ref!Lines, Ref!Ways
  <2>2. CASE s # a.set BY <1>1, <1>2, <2>1, <2>2 DEF Ref!RefSound, Refilled
  <2>3. CASE s = a.set BY <1>1, <1>2, <2>1, <2>3 DEF Ref!Has, Ref!Ways, Refilled
  <2>4. QED BY <2>2, <2>3
<1>3. \A k \in Ref!Lines : n.valid[k] => n.tag[k] \in MemTags
  BY <1>0, <1>1 DEF Ref!RefSound, Refilled
<1>4. \A k \in Ref!Lines : n.dirty[k] => n.valid[k]
  BY <1>0, <1>1 DEF Ref!RefSound, Refilled
<1>5. ASSUME NEW k \in Ref!Lines, NEW o \in 0 .. LineWords - 1, n.valid[k], ~n.dirty[k]
      PROVE  n.data[<<k, o>>] = n.mem[[tag |-> n.tag[k], set |-> k[1], word |-> o]]
  <2>1. CASE k = l
    <3>1. [tag |-> n.tag[k], set |-> k[1], word |-> o] = [a EXCEPT !.word = o]
      BY <1>1, <2>1 DEF Ref!RefAddr, Refilled
    <3>2. QED BY <1>1, <2>1, <3>1 DEF Refilled
  <2>2. CASE k # l
    <3> DEFINE b == [tag |-> r.tag[k], set |-> k[1], word |-> o]
    <3>1. k[1] \in Sets /\ k = <<k[1], k[2]>> /\ k[2] \in Ref!Ways BY DEF Ref!Lines
    <3>2. /\ r.valid[k] /\ ~r.dirty[k] /\ n.tag[k] = r.tag[k] /\ r.tag[k] \in MemTags
          /\ n.data[<<k, o>>] = r.data[<<k, o>>] /\ r.data[<<k, o>>] = r.mem[b]
      BY <1>1, <1>5, <2>2 DEF Ref!RefSound, Refilled
    <3>3. b \in Ref!RefAddr BY <3>1, <3>2 DEF Ref!RefAddr
    <3>4. ~(r.dirty[l] /\ b.set = a.set /\ b.tag = r.tag[l])
      <4> SUFFICES ASSUME r.dirty[l], k[1] = a.set, r.tag[k] = r.tag[l] PROVE FALSE
        OBVIOUS
      <4>1. r.valid[l] BY <1>0 DEF Ref!RefSound
      <4>2. k[2] # v BY <2>2, <3>1
      <4>3. r.valid[<<a.set, 0>>] /\ r.valid[<<a.set, 1>>] /\ r.tag[<<a.set, 0>>] = r.tag[<<a.set, 1>>]
        BY <3>1, <3>2, <4>1, <4>2 DEF Ref!Ways
      <4>4. QED BY <1>0, <4>3 DEF Ref!RefSound
    <3>5. n.mem[b] = r.mem[b] BY <1>1, <3>3, <3>4 DEF Refilled
    <3>6. QED BY <3>2, <3>5
  <2>3. QED BY <2>1, <2>2
<1>6. QED BY <1>1, <1>2, <1>3, <1>4, <1>5 DEF Ref!RefSound, n, Refilled

\* A replacement loses nothing: a dirty victim is in memory afterwards.
LEMMA ReplacedKeeps ==
  ASSUME NEW r, Ref!RefSound(r), NEW a \in Ref!RefAddr, NEW v \in Ref!Ways,
         \A w \in Ref!Ways : ~Ref!Has(r, a, w), NEW b \in Ref!RefAddr
  PROVE  Ref!RefValue(Ref!Replaced(r, a, <<a.set, v>>), b) = Ref!RefValue(r, b)
<1> DEFINE l == <<a.set, v>>
           n == Ref!Replaced(r, a, l)
<1>0. l \in Ref!Lines /\ b.word \in 0 .. LineWords - 1 /\ \A w \in Ref!Ways : <<b.set, w>> \in Ref!Lines
  BY DEF Ref!Lines, Ref!RefAddr
<1>1. Refilled(r, a, l, n) BY ReplacedParts
<1>2. Ref!RefSound(n) BY ReplacedSound
<1> HIDE DEF n
<1>3. \A w \in Ref!Ways : <<b.set, w>> # l => (Ref!Has(n, b, w) <=> Ref!Has(r, b, w))
  BY <1>0, <1>1 DEF Ref!Has, Refilled
<1>4. r.dirty[l] => r.valid[l] BY <1>0 DEF Ref!RefSound
<1>5. CASE b.set = a.set /\ b.tag = a.tag
  <2>1. b = [a EXCEPT !.word = b.word] BY <1>5 DEF Ref!RefAddr
  <2>2. Ref!Has(n, b, v) BY <1>1, <1>5 DEF Ref!Has, Refilled
  <2>3. Ref!RefValue(n, b) = n.data[<<l, b.word>>] BY <1>2, <1>5, <2>2, ValueIs
  <2>4. \A w \in Ref!Ways : ~Ref!Has(r, b, w) BY <1>5 DEF Ref!Has
  <2>5. Ref!RefValue(r, b) = r.mem[b] BY <2>4, ValueIs
  <2>6. ~(r.dirty[l] /\ b.tag = r.tag[l]) BY <1>4, <1>5, <2>4 DEF Ref!Has
  <2>7. n.data[<<l, b.word>>] = n.mem[b] BY <1>0, <1>1, <2>1 DEF Refilled
  <2>8. n.mem[b] = r.mem[b] BY <1>1, <2>6 DEF Refilled
  <2>9. QED BY <2>3, <2>5, <2>7, <2>8 DEF n
<1>6. CASE ~(b.set = a.set /\ b.tag = a.tag)
  <2>1. \A w \in Ref!Ways : <<b.set, w>> = l => ~Ref!Has(n, b, w)
    BY <1>1, <1>6 DEF Ref!Has, Refilled
  <2>2. ASSUME NEW w \in Ref!Ways, Ref!Has(r, b, w) PROVE Ref!RefValue(n, b) = Ref!RefValue(r, b)
    <3>1. Ref!RefValue(r, b) = r.data[<<<<b.set, w>>, b.word>>] BY <2>2, ValueIs
    <3>2. CASE <<b.set, w>> = l
      <4>1. \A u \in Ref!Ways : ~Ref!Has(n, b, u)
        BY <1>3, <2>1, <2>2, <3>2, ValueIs DEF Ref!Ways
      <4>2. Ref!RefValue(n, b) = n.mem[b] BY <1>2, <4>1, ValueIs
      <4>3. b.set = a.set /\ b.tag = r.tag[l] /\ r.valid[l] BY <2>2, <3>2 DEF Ref!Has
      <4>4. ~r.dirty[l] => r.data[<<l, b.word>>] = r.mem[b]
        <5>1. b = [tag |-> r.tag[l], set |-> l[1], word |-> b.word]
          BY <4>3 DEF Ref!RefAddr
        <5>2. QED BY <1>0, <4>3, <5>1 DEF Ref!RefSound
      <4>5. QED BY <1>1, <3>1, <3>2, <4>2, <4>3, <4>4 DEF Refilled
    <3>3. CASE <<b.set, w>> # l
      <4>1. Ref!RefValue(n, b) = n.data[<<<<b.set, w>>, b.word>>]
        BY <1>2, <1>3, <2>2, <3>3, ValueIs
      <4>2. QED BY <1>0, <1>1, <3>1, <3>3, <4>1 DEF Refilled
    <3>4. QED BY <3>2, <3>3
  <2>3. ASSUME \A w \in Ref!Ways : ~Ref!Has(r, b, w) PROVE Ref!RefValue(n, b) = Ref!RefValue(r, b)
    <3>1. \A w \in Ref!Ways : ~Ref!Has(n, b, w) BY <1>3, <2>1, <2>3
    <3>2. Ref!RefValue(n, b) = n.mem[b] /\ Ref!RefValue(r, b) = r.mem[b]
      BY <1>2, <2>3, <3>1, ValueIs
    <3>3. ~(r.dirty[l] /\ b.set = a.set /\ b.tag = r.tag[l])
      BY <1>4, <2>3 DEF Ref!Has
    <3>4. QED BY <1>1, <3>2, <3>3 DEF Refilled
  <2>4. QED BY <2>2, <2>3 DEF n
<1>7. QED BY <1>5, <1>6

-----------------------------------------------------------------------------
\* What load leaves: the line is in one way, and nothing has another value.
LEMMA LoadedIs ==
  ASSUME NEW r, Ref!RefSound(r), NEW a \in Ref!RefAddr
  PROVE  /\ Ref!RefSound(Ref!Loaded(r, a))
         /\ \A b \in Ref!RefAddr : Ref!RefValue(Ref!Loaded(r, a), b) = Ref!RefValue(r, b)
         /\ \E w \in Ref!Ways : Ref!Has(Ref!Loaded(r, a), a, w)
<1>1. CASE \E w \in Ref!Ways : Ref!Has(r, a, w)
  BY <1>1 DEF Ref!Loaded
<1>2. CASE \A w \in Ref!Ways : ~Ref!Has(r, a, w)
  <2> DEFINE v == Ref!Victim(r, a.set)
  <2>1. v \in Ref!Ways BY DEF Ref!Victim, Ref!Ways, Ref!RefSound, Ref!RefType, Ref!RefAddr
  <2>2. Ref!Loaded(r, a) = Ref!Replaced(r, a, <<a.set, v>>) BY <1>2 DEF Ref!Loaded
  <2> HIDE DEF v
  <2>3. Ref!RefSound(Ref!Loaded(r, a)) BY <1>2, <2>1, <2>2, ReplacedSound
  <2>4. \A b \in Ref!RefAddr : Ref!RefValue(Ref!Loaded(r, a), b) = Ref!RefValue(r, b)
    BY <1>2, <2>1, <2>2, ReplacedKeeps
  <2>5. Ref!Has(Ref!Loaded(r, a), a, v) BY <2>1, <2>2, ReplacedParts DEF Ref!Has, Refilled
  <2>6. QED BY <2>1, <2>3, <2>4, <2>5
<1>3. QED BY <1>1, <1>2

\* What load returns.
LEMMA LoadReturns ==
  ASSUME NEW r, Ref!RefSound(r), NEW a \in Ref!RefAddr
  PROVE  Ref!LoadValue(r, a) = Ref!RefValue(r, a)
<1>1. PICK w \in Ref!Ways : Ref!Has(Ref!Loaded(r, a), a, w) BY LoadedIs
<1>2. Ref!RefSound(Ref!Loaded(r, a)) /\ Ref!RefValue(Ref!Loaded(r, a), a) = Ref!RefValue(r, a) BY LoadedIs
<1>3. Ref!HitLine(Ref!Loaded(r, a), a) = <<a.set, w>>
      /\ Ref!RefValue(Ref!Loaded(r, a), a) = Ref!Loaded(r, a).data[<<<<a.set, w>>, a.word>>]
  BY <1>1, <1>2, ValueIs
<1>4. QED BY <1>2, <1>3 DEF Ref!LoadValue

LEMMA StoredIs ==
  ASSUME NEW r, Ref!RefSound(r), NEW a \in Ref!RefAddr, NEW s \in SUBSET Lanes, NEW d \in Ref!Word
  PROVE  /\ Ref!RefSound(Ref!Stored(r, a, s, d))
         /\ \A b \in Ref!RefAddr :
                Ref!RefValue(Ref!Stored(r, a, s, d), b) =
                    IF b = a THEN Ref!Merge(Ref!RefValue(r, a), s, d) ELSE Ref!RefValue(r, b)
<1> DEFINE m == Ref!Loaded(r, a)
           n == Ref!Stored(r, a, s, d)
<1>1. PICK w \in Ref!Ways : Ref!Has(m, a, w) BY LoadedIs
<1> DEFINE l == <<a.set, w>>
<1>2. Ref!RefSound(m) /\ \A b \in Ref!RefAddr : Ref!RefValue(m, b) = Ref!RefValue(r, b) BY LoadedIs
<1> HIDE DEF m
<1>3. Ref!StoreLine(m, a) = l /\ Ref!RefValue(m, a) = m.data[<<l, a.word>>]
  BY <1>1, <1>2, ValueIs
<1>4. /\ n.cnt = m.cnt /\ n.valid = m.valid /\ n.tag = m.tag /\ n.mem = m.mem
      /\ n.dirty = [m.dirty EXCEPT ![l] = TRUE]
      /\ n.data = [m.data EXCEPT ![<<l, a.word>>] = Ref!Merge(@, s, d)]
      /\ n = [cnt |-> n.cnt, valid |-> n.valid, dirty |-> n.dirty, tag |-> n.tag,
              data |-> n.data, mem |-> n.mem]
  <2>1. m = [cnt |-> m.cnt, valid |-> m.valid, dirty |-> m.dirty, tag |-> m.tag,
              data |-> m.data, mem |-> m.mem]
    BY <1>2 DEF Ref!RefSound, Ref!RefType
  <2>2. n = [m EXCEPT !.data[<<l, a.word>>] = Ref!Merge(@, s, d), !.dirty[l] = TRUE]
    BY <1>3 DEF Ref!Stored, m
  <2>3. QED BY <2>1, <2>2
<1>5. l \in Ref!Lines /\ a.word \in 0 .. LineWords - 1 /\ a.set \in Sets
  BY DEF Ref!Lines, Ref!RefAddr
<1>6. /\ m.cnt \in [Sets -> Ref!Ways] /\ m.valid \in [Ref!Lines -> BOOLEAN]
      /\ m.dirty \in [Ref!Lines -> BOOLEAN] /\ m.tag \in [Ref!Lines -> MemTags \cup {ResetTag}]
      /\ m.data \in [Ref!Lines \X (0 .. LineWords - 1) -> Ref!Word] /\ m.mem \in [Ref!RefAddr -> Ref!Word]
  BY <1>2 DEF Ref!RefSound, Ref!RefType
<1>7. Ref!Merge(m.data[<<l, a.word>>], s, d) \in Ref!Word
  <2>1. m.data[<<l, a.word>>] \in Ref!Word BY <1>5, <1>6
  <2>2. QED BY <2>1, MergeType
<1> HIDE DEF n, l
<1>8. n.data \in [Ref!Lines \X (0 .. LineWords - 1) -> Ref!Word] /\ n.dirty \in [Ref!Lines -> BOOLEAN]
  BY <1>4, <1>6, <1>7
<1>9. n \in Ref!RefType
  BY <1>4, <1>6, <1>8 DEF Ref!RefType
<1>10. n.dirty[l] /\ \A k \in Ref!Lines : k # l =>
         /\ n.dirty[k] = m.dirty[k]
         /\ \A o \in 0 .. LineWords - 1 : n.data[<<k, o>>] = m.data[<<k, o>>]
  BY <1>4, <1>5, <1>6
<1>11. Ref!RefSound(n)
  <2>1. m.valid[l] BY <1>1 DEF Ref!Has, l
  <2>2. QED BY <1>2, <1>4, <1>9, <1>10, <2>1 DEF Ref!RefSound
<1>12. ASSUME NEW b \in Ref!RefAddr
       PROVE  Ref!RefValue(n, b) = IF b = a THEN Ref!Merge(Ref!RefValue(r, a), s, d) ELSE Ref!RefValue(r, b)
  <2>0. \A u \in Ref!Ways : Ref!Has(n, b, u) <=> Ref!Has(m, b, u) BY <1>4 DEF Ref!Has
  <2>1. ASSUME NEW u \in Ref!Ways, Ref!Has(m, b, u)
        PROVE  Ref!RefValue(n, b) = IF b = a THEN Ref!Merge(Ref!RefValue(r, a), s, d) ELSE Ref!RefValue(r, b)
    <3> DEFINE k == <<b.set, u>>
    <3>1. Ref!RefValue(n, b) = n.data[<<k, b.word>>] /\ Ref!RefValue(m, b) = m.data[<<k, b.word>>]
      BY <1>2, <1>11, <2>0, <2>1, ValueIs
    <3>2. k \in Ref!Lines /\ b.word \in 0 .. LineWords - 1 BY DEF Ref!Lines, Ref!RefAddr
    <3>3. CASE b = a
      <4>1. k = l BY <1>1, <1>2, <2>1, <3>3, ValueIs DEF Ref!Ways, l
      <4>2. n.data[<<l, a.word>>] = Ref!Merge(m.data[<<l, a.word>>], s, d)
        BY <1>4, <1>5, <1>6
      <4>3. QED BY <1>2, <1>3, <3>1, <3>3, <4>1, <4>2
    <3>4. CASE b # a
      <4>1. <<k, b.word>> # <<l, a.word>>
        <5> SUFFICES ASSUME k = l, b.word = a.word PROVE FALSE OBVIOUS
        <5>1. b.set = a.set /\ u = w BY DEF l
        <5>2. b.tag = a.tag BY <1>1, <2>1, <5>1 DEF Ref!Has
        <5>3. QED BY <3>4, <5>1, <5>2 DEF Ref!RefAddr
      <4>2. n.data[<<k, b.word>>] = m.data[<<k, b.word>>]
        BY <1>4, <1>6, <3>2, <4>1
      <4>3. QED BY <1>2, <3>1, <3>4, <4>2
    <3>5. QED BY <3>3, <3>4
  <2>2. ASSUME \A u \in Ref!Ways : ~Ref!Has(m, b, u)
        PROVE  Ref!RefValue(n, b) = IF b = a THEN Ref!Merge(Ref!RefValue(r, a), s, d) ELSE Ref!RefValue(r, b)
    <3>1. b # a BY <1>1, <2>2
    <3>2. Ref!RefValue(n, b) = n.mem[b] /\ Ref!RefValue(m, b) = m.mem[b]
      BY <1>2, <1>11, <2>0, <2>2, ValueIs
    <3>3. QED BY <1>2, <1>4, <3>1, <3>2
  <2>3. QED BY <2>1, <2>2
<1>13. QED BY <1>11, <1>12 DEF n

-----------------------------------------------------------------------------
\* Calls keep the agreement with a flat memory.
LEMMA LoadAgrees ==
  ASSUME NEW r, NEW p, Agree(r, p), NEW a \in Ref!RefAddr
  PROVE  Agree(Ref!Loaded(r, a), p) /\ Ref!LoadValue(r, a) = p[a]
  BY LoadedIs, LoadReturns DEF Agree

LEMMA StoreAgrees ==
  ASSUME NEW r, NEW p \in [Ref!RefAddr -> Ref!Word], Agree(r, p),
         NEW a \in Ref!RefAddr, NEW s \in SUBSET Lanes, NEW d \in Ref!Word
  PROVE  Agree(Ref!Stored(r, a, s, d), [p EXCEPT ![a] = Ref!Merge(@, s, d)])
  BY StoredIs DEF Agree

LEMMA StartAgrees ==
  ASSUME NEW p \in [Ref!RefAddr -> Ref!Word], Ref!RefInit(p)
  PROVE  Agree(ref, p)
<1>1. Ref!RefSound(ref)
  <2>1. PICK cnt \in [Sets -> Ref!Ways] :
          ref = [cnt |-> cnt,
                 valid |-> [l \in Ref!Lines |-> FALSE], dirty |-> [l \in Ref!Lines |-> FALSE],
                 tag |-> [l \in Ref!Lines |-> ResetTag],
                 data |-> [x \in Ref!Lines \X (0 .. LineWords - 1) |-> Ref!ZeroWord],
                 mem |-> p]
    BY DEF Ref!RefInit
  <2>2. Ref!ZeroWord \in Ref!Word BY ByteAssumption DEF Ref!ZeroWord, Ref!Word
  <2>3. ref \in Ref!RefType BY <2>1, <2>2 DEF Ref!RefType
  <2>4. \A l \in Ref!Lines : ~ref.valid[l] /\ ~ref.dirty[l] BY <2>1
  <2>5. \A s \in Sets : <<s, 0>> \in Ref!Lines BY DEF Ref!Lines, Ref!Ways
  <2>6. QED BY <2>3, <2>4, <2>5 DEF Ref!RefSound
<1>2. ref.mem = p /\ \A l \in Ref!Lines : ~ref.valid[l] BY DEF Ref!RefInit
<1>3. \A b \in Ref!RefAddr, w \in Ref!Ways : ~Ref!Has(ref, b, w) BY <1>2 DEF Ref!Has, Ref!Lines, Ref!RefAddr
<1>4. QED BY <1>1, <1>2, <1>3, ValueIs DEF Agree

\* The reference cache holds what has been stored, whatever the calls: its
\* answers may be compared with although it replaces as it does.
THEOREM ReferenceRight == RefSpec => [](prog \in [Ref!RefAddr -> Ref!Word] /\ Ref!RefHoldsProgram)
<1> DEFINE I == prog \in [Ref!RefAddr -> Ref!Word] /\ Ref!RefHoldsProgram
<1>1. prog \in [Ref!RefAddr -> Ref!Word] /\ Ref!RefInit(prog) => I
  BY StartAgrees DEF Agree, Ref!RefHoldsProgram
<1>2. I /\ [Calls]_<<ref, prog>> => I'
  <2> SUFFICES ASSUME I, [Calls]_<<ref, prog>> PROVE I' OBVIOUS
  <2>0. Agree(ref, prog) BY DEF Agree, Ref!RefHoldsProgram
  <2>1. ASSUME NEW a \in Ref!RefAddr, Ref!RefLoad(a) PROVE I'
    BY <2>0, <2>1, LoadAgrees DEF Ref!RefLoad, Agree, Ref!RefHoldsProgram
  <2>2. ASSUME NEW a \in Ref!RefAddr, NEW s \in SUBSET Lanes, NEW d \in Ref!Word, Ref!RefStore(a, s, d)
        PROVE  I'
    <3>1. prog' \in [Ref!RefAddr -> Ref!Word]
      <4>1. Ref!Merge(prog[a], s, d) \in Ref!Word BY MergeType
      <4>2. QED BY <2>2, <4>1 DEF Ref!RefStore
    <3>2. QED BY <2>0, <2>2, <3>1, StoreAgrees DEF Ref!RefStore, Agree, Ref!RefHoldsProgram
  <2>3. CASE UNCHANGED <<ref, prog>>
    BY <2>3 DEF Ref!RefHoldsProgram
  <2>4. QED BY <2>1, <2>2, <2>3 DEF Calls
<1>3. QED BY <1>1, <1>2, PTL DEF RefSpec

-----------------------------------------------------------------------------
(* The tests.                                                              *)

Memories == [MemAddr -> Word]

\* The memory the test believes in once op is done on p.
After(p, op) ==
    IF op.kind # "store" THEN p
    ELSE [p EXCEPT ![op.at] =
            [l \in Lanes |-> IF l \in op.offset .. op.offset + op.width - 1
                               THEN op.value[l - op.offset] ELSE @[l]]]

Pending ==
    \E op \in Operations, p \in Memories :
        /\ op.kind \in {"load", "store"}
        /\ call.kind = op.kind /\ call.at = op.at
        /\ op.kind = "store" =>
             call.strobe = strobe(parse(op.width, op.offset))
             /\ call.data = place(parse(op.width, op.offset), ValueWord(op.value))
        /\ Agree(ref, p)
        /\ prog = After(p, op)

BenchInv ==
    /\ ~compared => call = None
    /\ compared /\ call = None => prog \in Memories /\ Agree(ref, prog)
    /\ call # None => Pending
-----------------------------------------------------------------------------
\* An aligned access starts at its offset.
LEMMA ParseAligned ==
  ASSUME NEW w \in Nat \ {0}, NEW o \in Nat, o % w = 0
  PROVE  parse(w, o).shift = o /\ parse(w, o).size = w
<1>1. o = w * (o \div w) + (o % w) OBVIOUS
<1>2. o \div w \in Nat OBVIOUS
<1>3. (o \div w) * w = w * (o \div w) BY <1>2
<1>4. o = (o \div w) * w BY <1>1, <1>3
<1>5. QED BY <1>4 DEF parse

\* Merging the lanes of a store (LoadOp::place under LoadOp::strobe) is
\* writing the bytes the test has counted.
LEMMA StoreLanes ==
  ASSUME NEW op \in Operations, op.kind = "store", NEW p \in Memories
  PROVE  LET s == strobe(parse(op.width, op.offset))
             d == place(parse(op.width, op.offset), ValueWord(op.value))
         IN  /\ s \in SUBSET Lanes /\ d \in Word
             /\ After(p, op) = [p EXCEPT ![op.at] = Merge(@, s, d)]
             /\ After(p, op) \in Memories
<1> DEFINE lane == parse(op.width, op.offset)
           s == strobe(lane)
           d == place(lane, ValueWord(op.value))
<1>1. /\ op.at \in MemAddr /\ op.width \in Nat \ {0} /\ op.offset \in Nat
      /\ op.offset % op.width = 0
      /\ op.value \in [0 .. op.width - 1 -> Bytes]
      /\ Lanes = 0 .. WordBytes - 1 /\ WordBytes \in Nat
  BY BenchAssumption, LaneAssumption DEF Widths
<1>2. lane.shift = op.offset /\ lane.size = op.width
  BY <1>1, ParseAligned
<1> HIDE DEF lane
<1>3. s = {l \in Lanes : op.offset <= l /\ l < op.offset + op.width}
  BY <1>2 DEF strobe
<1>4. d = [l \in Lanes |-> IF l < op.offset THEN ZeroByte ELSE ValueWord(op.value)[l - op.offset]]
  BY <1>2 DEF place
<1>5. \A l \in Lanes : ~(l < op.offset) =>
        ValueWord(op.value)[l - op.offset] =
            IF l - op.offset \in 0 .. op.width - 1 THEN op.value[l - op.offset] ELSE ZeroByte
  <2>1. \A l \in Lanes : ~(l < op.offset) => l - op.offset \in Lanes
    BY <1>1
  <2>2. DOMAIN op.value = 0 .. op.width - 1 BY <1>1
  <2>3. QED BY <2>1, <2>2 DEF ValueWord
<1>6. \A l \in Lanes :
        d[l] = IF l < op.offset \/ ~(l - op.offset \in 0 .. op.width - 1)
                 THEN ZeroByte ELSE op.value[l - op.offset]
  BY <1>4, <1>5
<1>7. \A l \in Lanes : l \in s <=> l \in op.offset .. op.offset + op.width - 1
  BY <1>1, <1>3
<1>8. ASSUME NEW l \in s PROVE d[l] = op.value[l - op.offset]
  <2>1. l \in Lanes /\ l \in Nat /\ ~(l < op.offset) /\ l - op.offset \in 0 .. op.width - 1
    BY <1>1, <1>3
  <2>2. QED BY <1>6, <2>1
<1>0. d \in Word
  <2>1. \A l \in Lanes : d[l] \in Bytes
    BY <1>1, <1>6, ByteAssumption
  <2>2. QED BY <1>4, <2>1 DEF Word
<1> HIDE DEF s, d
<1>9. Merge(p[op.at], s, d) =
        [l \in Lanes |-> IF l \in op.offset .. op.offset + op.width - 1
                           THEN op.value[l - op.offset] ELSE p[op.at][l]]
  BY <1>7, <1>8 DEF Merge
<1>10. After(p, op) = [p EXCEPT ![op.at] = Merge(@, s, d)]
  BY <1>1, <1>9 DEF After, Memories
<1>11. s \in SUBSET Lanes BY <1>3
<1>12. Merge(p[op.at], s, d) \in Word
  BY <1>1, <1>0, <1>11 DEF Merge, Word, Memories
<1>13. After(p, op) \in Memories
  BY <1>1, <1>10, <1>12 DEF Memories
<1>14. QED BY <1>0, <1>10, <1>11, <1>13 DEF s, d, lane

\* The addresses and words of the reference cache are those of the tests.
LEMMA SameAddresses == Ref!RefAddr = MemAddr /\ Ref!Word = Word
  BY DEF Ref!RefAddr, MemAddr, Offsets, Ref!Word, Word

LEMMA SamePromise == Ref!RefHoldsProgram <=> Agree(ref, prog)
  BY SameAddresses DEF Ref!RefHoldsProgram, Agree

-----------------------------------------------------------------------------
LEMMA InitBench == Init => BenchInv
<1> SUFFICES ASSUME Init PROVE BenchInv OBVIOUS
<1>1. prog \in Memories /\ prog = mem
  BY ByteAssumption DEF Init, Memories, ZeroWord, Word
<1>2. Ref!RefInit(prog) BY <1>1 DEF Init
<1>3. Agree(ref, prog)
  <2>1. prog \in [Ref!RefAddr -> Ref!Word] BY <1>1, SameAddresses DEF Memories
  <2>2. QED BY <1>2, <2>1, StartAgrees
<1>4. QED BY <1>1, <1>3 DEF Init, BenchInv

\* A call begins: the reference cache does not know of it yet.
LEMMA CallBegins ==
  ASSUME BenchInv, NEW op \in Operations, Call(op)
  PROVE  BenchInv'
<1>1. compared /\ call = None /\ op.kind \in {"load", "store"}
  BY BenchAssumption DEF Call
<1>2. prog \in Memories /\ Agree(ref, prog)
  BY <1>1 DEF BenchInv
<1>3. call' = Task(op) /\ prog' = After(prog, op) /\ UNCHANGED <<compared, ref>>
  BY DEF Call, Believed, After
<1>4. /\ Task(op).kind = op.kind /\ Task(op).at = op.at
      /\ op.kind = "store" =>
           /\ Task(op).strobe = strobe(parse(op.width, op.offset))
           /\ Task(op).data = place(parse(op.width, op.offset), ValueWord(op.value))
  BY <1>1 DEF Task
<1>5. Agree(ref', prog) BY <1>2, <1>3
<1>6. Pending'
  BY <1>1, <1>2, <1>3, <1>4, <1>5 DEF Pending
<1>7. call' # None BY <1>1, <1>3, <1>4 DEF None
<1>8. QED BY <1>1, <1>3, <1>6, <1>7 DEF BenchInv

\* A call returns: both agree again.
LEMMA CallReturns ==
  ASSUME BenchInv, Await
  PROVE  BenchInv'
<1>1. call # None /\ compared /\ Pending /\ UNCHANGED <<compared, prog>>
  BY DEF Await, BenchInv
<1>2. CASE ~DataOk(cresp)
  BY <1>1, <1>2 DEF Await, BenchInv, Pending
<1>3. CASE DataOk(cresp)
  <2>1. /\ call' = None
        /\ ref' = IF call.kind = "load"
                    THEN Ref!Loaded(ref, call.at)
                    ELSE Ref!Stored(ref, call.at, call.strobe, call.data)
    BY <1>3 DEF Await
  <2>2. PICK op \in Operations, p \in Memories :
          /\ op.kind \in {"load", "store"}
          /\ call.kind = op.kind /\ call.at = op.at
          /\ op.kind = "store" =>
               call.strobe = strobe(parse(op.width, op.offset))
               /\ call.data = place(parse(op.width, op.offset), ValueWord(op.value))
          /\ Agree(ref, p)
          /\ prog = After(p, op)
    BY <1>1 DEF Pending
  <2>3. op.at \in Ref!RefAddr BY BenchAssumption, SameAddresses
  <2>4. prog \in Memories /\ Agree(ref', prog)
    <3>1. CASE op.kind = "load"
      <4>1. prog = p /\ ref' = Ref!Loaded(ref, op.at) BY <2>1, <2>2, <3>1 DEF After
      <4>2. Agree(Ref!Loaded(ref, op.at), p)
        BY <2>2, <2>3, LoadAgrees
      <4>3. QED BY <4>1, <4>2
    <3>2. CASE op.kind = "store"
      <4> DEFINE s == strobe(parse(op.width, op.offset))
                 d == place(parse(op.width, op.offset), ValueWord(op.value))
      <4>1. /\ s \in SUBSET Lanes /\ d \in Word
            /\ prog = [p EXCEPT ![op.at] = Merge(@, s, d)] /\ prog \in Memories
        BY <2>2, <3>2, StoreLanes
      <4>2. ref' = Ref!Stored(ref, op.at, s, d) BY <2>1, <2>2, <3>2
      <4> HIDE DEF s, d
      <4>3. p \in [Ref!RefAddr -> Ref!Word] /\ d \in Ref!Word
        BY <4>1, SameAddresses DEF Memories
      <4>4. Agree(Ref!Stored(ref, op.at, s, d), [p EXCEPT ![op.at] = Ref!Merge(@, s, d)])
        BY <2>2, <2>3, <4>1, <4>3, StoreAgrees
      <4>5. Ref!Merge(p[op.at], s, d) = Merge(p[op.at], s, d)
        BY DEF Ref!Merge, Merge
      <4>6. QED BY <4>1, <4>2, <4>4, <4>5
    <3>3. QED BY <2>2, <3>1, <3>2
  <2>5. QED BY <1>1, <2>1, <2>4 DEF BenchInv
<1>4. QED BY <1>2, <1>3

LEMMA StepBench == BenchInv /\ [Next]_vars => BenchInv'
<1> SUFFICES ASSUME BenchInv, [Next]_vars PROVE BenchInv' OBVIOUS
<1>1. ASSUME NEW op \in Operations, Submit(op) \/ Call(op) PROVE BenchInv'
  <2>1. CASE Submit(op) BY <2>1 DEF Submit, BenchInv
  <2>2. CASE Call(op) BY <2>2, CallBegins
  <2>3. QED BY <1>1, <2>1, <2>2
<1>2. CASE Fence \/ Tick
  <2>1. ~compared /\ UNCHANGED <<compared, call, ref, prog>>
    BY <1>2 DEF Fence, Tick
  <2>2. QED BY <2>1 DEF BenchInv
<1>3. CASE Await BY <1>3, CallReturns
<1>4. CASE UNCHANGED vars
  BY <1>4 DEF vars, benchvars, BenchInv, Pending
<1>5. QED BY <1>1, <1>2, <1>3, <1>4 DEF Next

\* Between two calls the reference cache holds what the test has stored, for
\* every cache, every set of operations and every delay.
THEOREM ReferenceHoldsProgram == Spec => []RefHoldsProgram
<1>1. BenchInv => RefHoldsProgram
  BY SamePromise DEF BenchInv, RefHoldsProgram
<1>2. QED BY <1>1, InitBench, StepBench, PTL DEF Spec
-----------------------------------------------------------------------------
(***************************************************************************)
(* The cache under the tests.                                              *)
(*                                                                         *)
(* A clock of the bench is an edge of CacheProofs, whose memory is the     *)
(* bench's with bit 31 put back, and a task that comes between two clocks  *)
(* finds the cache idle.  So the values the cache shows change as          *)
(* EdgeEffect says, and the tasks not yet answered lead from these values  *)
(* to what the test believes (Story), one memory after each task.          *)
(***************************************************************************)

Up(a)   == [a EXCEPT !.tag = @ + CachedBit]
Down(a) == [a EXCEPT !.tag = @ - CachedBit]

CachedRequests == {r \in Request : r.addr.tag \in CachedTags}
CachedMem == [a \in Addr |-> IF a.tag \in CachedTags THEN mem[Down(a)] ELSE ZeroWord]
Beats     == IF tx.busy THEN tx.N - 1 ELSE 0

Facts == INSTANCE CacheProofs WITH
    Requests <- CachedRequests, Memories <- [Addr -> Word],
    mem <- CachedMem, beat <- Beats, rsp <- [ok |-> FALSE, data |-> ZeroWord]

Transaction == [busy : {TRUE}, is_write : BOOLEAN, N : 1 .. LineWords,
                addr : MemAddr, start : MemAddr, len : {LineWords}]

\* The transaction in progress is the burst the cache asks for.
Served ==
    tx.busy =>
        /\ CBusValid /\ tx.is_write = CBusIsWrite
        /\ tx.addr = [Down(CBusAddr) EXCEPT !.word = tx.N - 1]

\* The cache and the device.
CacheInOrder ==
    /\ Facts!IInv
    /\ mem \in Memories /\ enable \in BOOLEAN
    /\ tx \in Transaction \cup {Device!NoTransaction}
    /\ dreq.valid => dreq.addr.tag \in CachedTags
    /\ ~dreq.valid => state = "COMPARETAG"
    /\ Served

\* The tasks not yet answered, the first on the wires.
Queue == IF ~compared THEN ongoing ELSE IF call = None THEN <<>> ELSE <<call>>

\* The task of op when the test believes in p.
BytesAt(op, p) == [i \in 0 .. op.width - 1 |-> p[op.at][op.offset + i]]
TaskAt(op, p) ==
    LET lane == parse(op.width, op.offset)
    IN  CASE op.kind = "store" ->
               [kind |-> "store", at |-> op.at, op |-> lane, strobe |-> strobe(lane),
                data |-> place(lane, ValueWord(op.value))]
          [] op.kind = "expect" ->
               [kind |-> "expect", at |-> op.at, op |-> lane, strobe |-> {},
                data |-> place(lane, ValueWord(BytesAt(op, p)))]
          [] op.kind = "load" ->
               [kind |-> "load", at |-> op.at, op |-> lane, strobe |-> {},
                want |-> BytesAt(op, p)]
Tasks == {TaskAt(op, p) : op \in Operations, p \in Memories}

\* The memory the cache shows.
Shown == [a \in MemAddr |-> Facts!Value(Up(a))]

\* s[i] is the memory before task i: what the cache shows is before the first one,
\* or already behind it, and what the test believes is behind the last.
Story(s) ==
    /\ s \in [1 .. Len(Queue) + 1 -> Memories]
    /\ s[Len(Queue) + 1] = prog
    /\ \A i \in 1 .. Len(Queue) :
          \E op \in Operations : Queue[i] = TaskAt(op, s[i]) /\ s[i + 1] = After(s[i], op)
    /\ Shown = IF Facts!StoreDone THEN s[2] ELSE s[1]

Wires == IF Queue = <<>> THEN NoRequest ELSE Issued(Head(Queue))

TestInv ==
    /\ compared \in BOOLEAN /\ (~compared => call = None)
    /\ ongoing \in Seq(Tasks) /\ call \in Tasks \cup {None}
    /\ dreq = Wires
    /\ \E s : Story(s)
-----------------------------------------------------------------------------
\* Bit 31 goes into an address and comes out again.
LEMMA Bit31 ==
  /\ \A a \in MemAddr : /\ Up(a) \in Addr /\ Up(a).tag \in CachedTags /\ Down(Up(a)) = a
                        /\ Up(a).set = a.set /\ Up(a).word = a.word
  /\ \A a \in Addr : a.tag \in CachedTags => Down(a) \in MemAddr /\ Up(Down(a)) = a
<1>1. ASSUME NEW a \in MemAddr
      PROVE  /\ Up(a) \in Addr /\ Up(a).tag \in CachedTags /\ Down(Up(a)) = a
             /\ Up(a).set = a.set /\ Up(a).word = a.word
  <2>0. a.tag \in MemTags BY DEF MemAddr
  <2>1. /\ a.tag \in Nat /\ CachedBit \in Nat /\ a.tag + CachedBit \in CachedTags
        /\ (a.tag + CachedBit) - CachedBit = a.tag
    <3>1. MemTags \subseteq Nat /\ CachedBit \in Nat
          /\ CachedTags = {t + CachedBit : t \in MemTags}
      BY BenchAssumption
    <3>2. a.tag \in Nat BY <2>0, <3>1
    <3>3. a.tag + CachedBit \in CachedTags BY <2>0, <3>1
    <3>4. \A m \in Nat, n \in Nat : (m + n) - n = m OBVIOUS
    <3>5. QED BY <3>1, <3>2, <3>3, <3>4
  <2>2. Up(a) = [tag |-> a.tag + CachedBit, set |-> a.set, word |-> a.word]
    BY DEF Up, MemAddr
  <2>3. Down(Up(a)) = [tag |-> (a.tag + CachedBit) - CachedBit, set |-> a.set, word |-> a.word]
    BY <2>2 DEF Down
  <2>4. Down(Up(a)) = a BY <2>1, <2>3 DEF MemAddr
  <2>5. QED BY <2>1, <2>2, <2>4 DEF Addr, Tags, MemAddr
<1>2. ASSUME NEW a \in Addr, a.tag \in CachedTags
      PROVE  Down(a) \in MemAddr /\ Up(Down(a)) = a
  <2>0. /\ MemTags \subseteq Nat /\ CachedBit \in Nat
        /\ CachedTags = {t + CachedBit : t \in MemTags}
    BY BenchAssumption
  <2>1. PICK t \in MemTags : a.tag = t + CachedBit BY <1>2, <2>0
  <2>2. t \in Nat /\ CachedBit \in Nat /\ a.tag - CachedBit = t
    BY <2>0, <2>1
  <2>3. Down(a) = [tag |-> t, set |-> a.set, word |-> a.word]
    BY <2>2 DEF Down, Addr
  <2>4. Up(Down(a)) = [tag |-> t + CachedBit, set |-> a.set, word |-> a.word]
    BY <2>3 DEF Up
  <2>5. QED BY <2>1, <2>3, <2>4 DEF MemAddr, Addr
<1>3. QED BY <1>1, <1>2

\* What CacheProofs assumes holds in the bench.
LEMMA Surroundings ==
  /\ CachedRequests \subseteq Facts!Request
  /\ [Addr -> Word] \subseteq [Facts!Addr -> Facts!Word]
  /\ CachedTags \cap UncachedTags = {} /\ ResetTag \notin CachedTags \cup UncachedTags
  /\ LineWords \in Nat /\ LineWords > 1
  /\ ZeroByte \in Bytes
BY TagAssumption, LineAssumption, ByteAssumption
  DEF CachedRequests, Facts!Request, Facts!Addr, Facts!Word, Facts!Tags, Facts!Offsets,
      Request, Addr, Word, Tags, Offsets

\* The cache CacheProofs knows is the cache of the bench.
LEMMA SameClock == \A r : Facts!ClockEdge(r) <=> ClockEdge(r)
BY DEF Facts!ClockEdge, Facts!RamEdge, Facts!Idle, Facts!CompareHit, Facts!CompareMiss,
  Facts!WriteBack, Facts!Fetch, Facts!Final, Facts!Ready, Facts!WriteReady,
  Facts!Matches, Facts!FreeWay, Facts!SetFull, Facts!WithLine, Facts!metaread,
  Facts!NextIndex, Facts!DirtyLine, Facts!IsStore, Facts!Cached, Facts!Ways,
  Facts!MetaStrobe, Facts!DataSlot, Facts!DataStrobe, Facts!DataWrite, Facts!Merge,
  ClockEdge, RamEdge, Idle, CompareHit, CompareMiss, WriteBack, Fetch, Final, Ready,
  WriteReady, Matches, FreeWay, SetFull, WithLine, metaread, NextIndex, DirtyLine,
  IsStore, Cached, Ways, MetaStrobe, DataSlot, DataStrobe, DataWrite, Merge

LEMMA SameSignals ==
  /\ Facts!CBusValid <=> CBusValid
  /\ Facts!CBusIsWrite <=> CBusIsWrite
  /\ Facts!CBusAddr = CBusAddr /\ Facts!CBusLen = CBusLen
  /\ Facts!CBusStrobe = CBusStrobe /\ Facts!CBusData = CBusData
  /\ Facts!CBusRequest = CBusRequest
  /\ Facts!IsStore <=> IsStore
  /\ Facts!Uncached <=> Uncached
  /\ \A r : (Facts!DataOk(r) <=> DataOk(r)) /\ Facts!RespData(r) = RespData(r)
BY DEF Facts!CBusValid, Facts!CBusIsWrite, Facts!CBusAddr, Facts!CBusLen,
  Facts!CBusStrobe, Facts!CBusData, Facts!CBusRequest, Facts!IsStore, Facts!DataOk,
  Facts!RespData, Facts!Uncached, Facts!dataread, Facts!DataSlot,
  CBusValid, CBusIsWrite, CBusAddr, CBusLen, CBusStrobe, CBusData, CBusRequest, IsStore,
  DataOk, RespData, Uncached, dataread, DataSlot

LEMMA SameData ==
  /\ Facts!Word = Word /\ Facts!Addr = Addr /\ Facts!Request = Request
  /\ Facts!Response = Response /\ Facts!ZeroWord = ZeroWord
  /\ Facts!NoRequest = NoRequest /\ Device!NoResponse = NoResponse
  /\ Device!ZeroWord = ZeroWord
BY DEF Facts!Word, Word, Facts!Addr, Addr, Facts!Request, Request, Facts!Response,
  Response, Facts!ZeroWord, ZeroWord, Facts!NoRequest, NoRequest, Device!NoResponse,
  NoResponse, Device!ZeroWord, Facts!Tags, Tags, Facts!Offsets, Offsets
-----------------------------------------------------------------------------
\* What the cache asks of the device: a whole line, from its first word.
LEMMA BurstWire ==
  ASSUME CacheInOrder, CBusValid
  PROVE  /\ ~Uncached /\ dreq \in Request /\ state \in {"FETCH", "WRITEBACK"}
         /\ CBusAddr \in Addr /\ CBusAddr.tag \in CachedTags /\ CBusAddr.word = 0
         /\ CBusLen = LineWords /\ CBusIsWrite \in BOOLEAN
         /\ CBusStrobe = Lanes /\ CBusData \in Word
         /\ MemReq = [CBusRequest EXCEPT !.addr = Down(@)]
<1>1. Facts!CacheTypeOK
  BY DEF CacheInOrder, Facts!IInv, Facts!TypeInv, Facts!StateTyped
<1>2. dreq.valid BY DEF CBusValid
<1>3. dreq \in Request /\ dreq.addr \in Addr
  <2>1. dreq \in Facts!Request \cup {Facts!NoRequest} BY <1>1 DEF Facts!CacheTypeOK
  <2>2. dreq # NoRequest BY <1>2 DEF NoRequest
  <2>3. QED BY <2>1, <2>2, SameData DEF Request
<1>4. ~Uncached /\ Facts!Cached
  BY <1>2, TagAssumption DEF CacheInOrder, Uncached, Facts!Cached
<1>5. state \in {"FETCH", "WRITEBACK"} BY <1>4 DEF CBusValid
<1>6. 0 \in Offsets BY LineAssumption DEF Offsets
<1>7. CBusAddr \in Addr /\ CBusAddr.tag \in CachedTags /\ CBusAddr.word = 0
  <2>1. CASE state = "WRITEBACK"
    <3>1. metarecord.way[hit.way].tag \in CachedTags
      BY <1>1, <1>4, <2>1
         DEF CacheInOrder, Facts!IInv, Facts!RecordOK, Facts!MetaOK, Facts!CacheTypeOK,
             Facts!WriteBackOK, Facts!At
    <3>2. CBusAddr = [tag |-> metarecord.way[hit.way].tag, set |-> dreq.addr.set,
                      word |-> 0]
      BY <1>4, <2>1 DEF CBusAddr
    <3>3. QED BY <1>3, <1>6, <3>1, <3>2 DEF Addr, Tags
  <2>2. CASE state # "WRITEBACK"
    <3>1. CBusAddr = [dreq.addr EXCEPT !.word = 0] BY <1>4, <2>2 DEF CBusAddr
    <3>2. QED BY <1>2, <1>3, <1>6, <3>1 DEF Addr, CacheInOrder
  <2>3. QED BY <2>1, <2>2
<1>8. CBusLen = LineWords /\ CBusIsWrite \in BOOLEAN /\ CBusStrobe = Lanes
  BY <1>4 DEF CBusLen, CBusIsWrite, CBusStrobe
<1>9. CBusData \in Word
  BY <1>2, <1>3, <1>4, Surroundings, Facts!ReadsTyped, SameData, SameSignals
     DEF CacheInOrder, Facts!IInv, Facts!TypeInv, Facts!StateTyped, CBusData, dataread,
         DataSlot, Facts!dataread, Facts!DataSlot
<1>10. MemReq = [CBusRequest EXCEPT !.addr = Down(@)]
  <2>1. MemReq = [CBusRequest EXCEPT !.addr.tag = IF @ \in CachedTags THEN @ - CachedBit ELSE @]
    BY DEF MemReq
  <2>2. CBusRequest.addr = CBusAddr BY DEF CBusRequest
  <2>3. QED BY <1>7, <2>1, <2>2 DEF Down, CBusRequest
<1>11. QED BY <1>3, <1>4, <1>5, <1>7, <1>8, <1>9, <1>10

\* What the device answers, and where it leaves the transaction.
LEMMA DeviceAnswers ==
  ASSUME CacheInOrder, Cycle, enable, tx.busy
  PROVE  LET r == Device!DeviceResp
         IN  /\ r = [ready |-> TRUE, last |-> tx.N = LineWords,
                     data |-> IF CBusIsWrite THEN ZeroWord ELSE mem[tx.addr]]
             /\ mem' = IF CBusIsWrite
                         THEN [mem EXCEPT ![tx.addr] = Merge(@, CBusStrobe, CBusData)]
                         ELSE mem
             /\ tx.N = LineWords => tx' = Device!NoTransaction
             /\ tx.N # LineWords =>
                  tx' = [tx EXCEPT !.N = @ + 1, !.addr = [@ EXCEPT !.word = tx.N]]
<1>1. tx \in Transaction /\ CBusValid /\ tx.is_write = CBusIsWrite
  BY DEF CacheInOrder, Served, Device!NoTransaction
<1>2. tx.len = LineWords /\ tx.N \in 1 .. LineWords /\ tx.addr.word = tx.N - 1
      /\ tx.addr \in MemAddr
  <2>1. CBusAddr \in Addr /\ CBusAddr.tag \in CachedTags BY <1>1, BurstWire
  <2>2. Down(CBusAddr) \in MemAddr BY <2>1, Bit31
  <2>3. tx.addr = [Down(CBusAddr) EXCEPT !.word = tx.N - 1]
    BY <1>1 DEF CacheInOrder, Served, Transaction
  <2>4. QED BY <1>1, <2>2, <2>3 DEF Transaction, MemAddr
<1>3. Device!DeviceEdge(MemReq, WireStrobe, WireData) BY DEF Cycle
<1>4. WireStrobe = CBusStrobe /\ WireData = CBusData BY <1>1 DEF WireStrobe, WireData
<1>5. mem' = IF CBusIsWrite
               THEN [mem EXCEPT ![tx.addr] = Merge(@, CBusStrobe, CBusData)]
               ELSE mem
  BY <1>1, <1>3, <1>4 DEF Device!DeviceEdge, Device!Merge, Merge
<1>6. Device!Last <=> tx.N = LineWords BY <1>2 DEF Device!Last
<1>7. Device!DeviceResp = [ready |-> TRUE, last |-> tx.N = LineWords,
                           data |-> IF CBusIsWrite THEN ZeroWord ELSE mem[tx.addr]]
  BY <1>1, <1>6, SameData DEF Device!DeviceResp, Device!Last, Transaction
<1>8. tx.N = LineWords => tx' = Device!NoTransaction
  BY <1>3, <1>6 DEF Device!DeviceEdge
<1>9. ASSUME tx.N # LineWords
      PROVE  tx' = [tx EXCEPT !.N = @ + 1, !.addr = [@ EXCEPT !.word = tx.N]]
  <2>1. tx' = [tx EXCEPT !.N = @ + 1, !.addr = Device!NextAddr(tx.addr, tx.len)]
    BY <1>3, <1>6, <1>9 DEF Device!DeviceEdge
  <2>2. Device!NextAddr(tx.addr, tx.len) = [tx.addr EXCEPT !.word = tx.N]
    <3>1. ASSUME NEW k \in Nat, NEW l \in Nat, k < l PROVE k \div l = 0
      BY <3>1
    <3>2. LineWords \in Nat BY LineAssumption
    <3>3. tx.addr.word \div tx.len = 0 BY <1>2, <3>1, <3>2
    <3>4. (tx.addr.word \div tx.len) * tx.len = 0 BY <1>2, <3>2, <3>3
    <3>5. tx.addr.word + 1 = tx.N /\ ~(tx.addr.word + 1 >= 0 + tx.len)
      BY <1>2, <1>9, <3>2
    <3>6. QED BY <3>4, <3>5 DEF Device!NextAddr
  <2>3. QED BY <2>1, <2>2
<1>10. QED BY <1>5, <1>7, <1>8, <1>9

\* Otherwise it says nothing; it may take up the burst.
LEMMA DeviceWaits ==
  ASSUME CacheInOrder, Cycle, ~(enable /\ tx.busy)
  PROVE  /\ Device!DeviceResp = NoResponse /\ mem' = mem
         /\ \/ tx' = tx
            \/ /\ ~tx.busy /\ CBusValid
               /\ tx' = [busy |-> TRUE, is_write |-> CBusIsWrite, N |-> 1,
                         addr |-> Down(CBusAddr), start |-> Down(CBusAddr),
                         len |-> LineWords]
<1>1. Device!DeviceEdge(MemReq, WireStrobe, WireData) BY DEF Cycle
<1>2. Device!DeviceResp = NoResponse BY SameData DEF Device!DeviceResp
<1>3. CASE ~enable
  BY <1>1, <1>2, <1>3 DEF Device!DeviceEdge
<1>4. CASE enable
  <2>1. ~tx.busy BY <1>4
  <2>2. mem' = mem /\ tx' = IF MemReq.valid THEN Device!Start(MemReq) ELSE tx
    BY <1>1, <1>4, <2>1 DEF Device!DeviceEdge
  <2>3. CASE CBusValid
    <3>1. /\ MemReq.valid /\ MemReq.write = CBusIsWrite /\ MemReq.len = LineWords
          /\ MemReq.addr = Down(CBusAddr)
      BY <2>3, BurstWire DEF CBusRequest
    <3>2. QED BY <1>2, <2>1, <2>2, <2>3, <3>1 DEF Device!Start
  <2>4. CASE ~CBusValid
    BY <1>2, <2>2, <2>4 DEF MemReq, Silent
  <2>5. QED BY <2>3, <2>4
<1>5. QED BY <1>3, <1>4

\* How a test moves the request on the wires with a clock.
Asks(r) ==
    /\ DataOk(r) => dreq' \in CachedRequests \cup {NoRequest}
    /\ ~DataOk(r) => dreq' = dreq

\* A clock of the bench is an edge of the cache beside a memory.
LEMMA CycleIsEdge ==
  ASSUME CacheInOrder, Cycle, NEW r, r = Device!DeviceResp, Asks(r)
  PROVE  r \in Facts!Responses /\ Facts!Edge(r)
<1>1. Facts!ClockEdge(r) BY SameClock DEF Cycle
<1>2. dreq \in Request \cup {NoRequest}
  BY SameData DEF CacheInOrder, Facts!IInv, Facts!TypeInv, Facts!StateTyped, Facts!CacheTypeOK
<1>3. /\ DataOk(r) => dreq' \in Facts!NextRequests \cup {Facts!NoRequest}
      /\ ~DataOk(r) => IF dreq.valid THEN dreq' = dreq
                       ELSE dreq' \in CachedRequests \cup {Facts!NoRequest}
  <2>1. ~Uncached BY TagAssumption DEF CacheInOrder, Uncached
  <2>2. ~dreq.valid => dreq = NoRequest BY <1>2 DEF Request
  <2>3. QED BY <2>1, <2>2, SameData, SameSignals DEF Asks, Facts!NextRequests
<1>4. ZeroWord \in Word BY ByteAssumption DEF ZeroWord, Word
<1>5. CASE enable /\ tx.busy
  <2>1. tx \in Transaction /\ CBusValid /\ tx.is_write = CBusIsWrite
        /\ tx.addr = [Down(CBusAddr) EXCEPT !.word = tx.N - 1]
    BY <1>5 DEF CacheInOrder, Served, Device!NoTransaction
  <2>2. /\ r = [ready |-> TRUE, last |-> tx.N = LineWords,
                data |-> IF CBusIsWrite THEN ZeroWord ELSE mem[tx.addr]]
        /\ mem' = IF CBusIsWrite
                    THEN [mem EXCEPT ![tx.addr] = Merge(@, CBusStrobe, CBusData)]
                    ELSE mem
        /\ tx.N = LineWords => tx' = Device!NoTransaction
        /\ tx.N # LineWords =>
             tx' = [tx EXCEPT !.N = @ + 1, !.addr = [@ EXCEPT !.word = tx.N]]
    BY <1>5, DeviceAnswers
  <2>3. /\ ~Uncached /\ CBusAddr \in Addr /\ CBusAddr.tag \in CachedTags
        /\ CBusAddr.word = 0 /\ CBusLen = LineWords /\ CBusIsWrite \in BOOLEAN
    BY <2>1, BurstWire
  <2>4. LineWords \in Nat /\ tx.N \in 1 .. LineWords /\ Beats = tx.N - 1
    BY <1>5, <2>1, LineAssumption DEF Transaction, Beats
  <2>5. /\ Facts!BeatAddr = [CBusAddr EXCEPT !.word = tx.N - 1]
        /\ Facts!BeatAddr \in Addr /\ Facts!BeatAddr.tag \in CachedTags
        /\ Down(Facts!BeatAddr) = tx.addr
    <3>1. (0 + (tx.N - 1)) % LineWords = tx.N - 1
      <4>1. tx.N - 1 \in Nat /\ tx.N - 1 < LineWords BY <2>4
      <4>2. QED BY <2>4, <4>1, Facts!SmallMod, Surroundings
    <3>2. Facts!BeatAddr = [CBusAddr EXCEPT !.word = tx.N - 1]
      BY <2>3, <2>4, <3>1, SameSignals DEF Facts!BeatAddr, Addr
    <3>3. tx.N - 1 \in Offsets BY <2>4 DEF Offsets
    <3>4. Facts!BeatAddr \in Addr /\ Facts!BeatAddr.tag = CBusAddr.tag
      BY <2>3, <3>2, <3>3 DEF Addr
    <3>5. Down(Facts!BeatAddr) = tx.addr BY <2>1, <2>3, <3>2 DEF Down, Addr
    <3>6. QED BY <2>3, <3>2, <3>4, <3>5
  <2>6. Facts!LastBeat <=> tx.N = LineWords
    BY <2>3, <2>4, SameSignals DEF Facts!LastBeat
  <2>7. CachedMem[Facts!BeatAddr] = mem[tx.addr] BY <2>5 DEF CachedMem
  <2>8. r \in Facts!Responses
    <3>1. Facts!CBusValid /\ (Facts!CBusIsWrite <=> CBusIsWrite) BY <2>1, SameSignals
    <3>2. (tx.N = LineWords) = Facts!LastBeat BY <2>6 DEF Facts!LastBeat
    <3>3. CASE CBusIsWrite
      <4>1. r = [ready |-> TRUE, last |-> Facts!LastBeat, data |-> ZeroWord]
        BY <2>2, <3>2, <3>3
      <4>2. QED BY <1>4, <3>1, <3>3, <4>1, SameData DEF Facts!Responses, Facts!Beat
    <3>4. CASE ~CBusIsWrite
      <4>1. r = [ready |-> TRUE, last |-> Facts!LastBeat, data |-> CachedMem[Facts!BeatAddr]]
        BY <2>2, <2>7, <3>2, <3>4
      <4>2. QED BY <3>1, <3>4, <4>1 DEF Facts!Responses, Facts!Beat
    <3>5. QED BY <3>3, <3>4
  <2>9. CachedMem' = IF CBusIsWrite
                       THEN [CachedMem EXCEPT ![Facts!BeatAddr] = Merge(@, CBusStrobe, CBusData)]
                       ELSE CachedMem
    <3>1. CASE ~CBusIsWrite
      BY <2>2, <3>1 DEF CachedMem
    <3>2. CASE CBusIsWrite
      <4>1. mem' = [mem EXCEPT ![tx.addr] = Merge(mem[tx.addr], CBusStrobe, CBusData)]
        BY <2>2, <3>2
      <4>2. mem \in [MemAddr -> Word] BY DEF CacheInOrder, Memories
      <4>3. ASSUME NEW a \in Addr
            PROVE  CachedMem'[a] =
                     IF a = Facts!BeatAddr
                       THEN Merge(CachedMem[a], CBusStrobe, CBusData) ELSE CachedMem[a]
        <5>1. CASE a.tag \notin CachedTags
          BY <2>5, <5>1 DEF CachedMem
        <5>2. CASE a.tag \in CachedTags
          <6>1. Down(a) \in MemAddr /\ Up(Down(a)) = a BY <5>2, Bit31
          <6>2. Up(tx.addr) = Facts!BeatAddr BY <2>5, Bit31
          <6>3. Down(a) = tx.addr <=> a = Facts!BeatAddr BY <2>5, <6>1, <6>2
          <6>4. mem'[Down(a)] = IF Down(a) = tx.addr
                                  THEN Merge(mem[Down(a)], CBusStrobe, CBusData)
                                  ELSE mem[Down(a)]
            BY <4>1, <4>2, <6>1
          <6>5. QED BY <5>2, <6>3, <6>4 DEF CachedMem
        <5>3. QED BY <5>1, <5>2
      <4>4. QED BY <3>2, <4>3, <2>5 DEF CachedMem
    <3>3. QED BY <3>1, <3>2
  <2>10. Beats' = IF tx.N = LineWords THEN 0 ELSE Beats + 1
    <3>1. CASE tx.N = LineWords
      BY <2>2, <3>1 DEF Beats, Device!NoTransaction
    <3>2. CASE tx.N # LineWords
      <4>1. tx'.busy /\ tx'.N = tx.N + 1 BY <1>5, <2>1, <2>2, <3>2 DEF Transaction
      <4>2. QED BY <2>4, <3>2, <4>1 DEF Beats
    <3>3. QED BY <3>1, <3>2
  <2>11. Facts!Memory(r)
    <3>0. PICK end, d : /\ r = [ready |-> TRUE, last |-> end, data |-> d]
                        /\ end = (tx.N = LineWords)
      BY <2>2
    <3>1. r.ready = TRUE /\ r.last = (tx.N = LineWords) BY <3>0
    <3>2. Beats' = IF r.last THEN 0 ELSE Beats + 1 BY <2>10, <3>1
    <3>3. CachedMem' = IF Facts!CBusIsWrite
                         THEN [CachedMem EXCEPT ![Facts!BeatAddr] =
                                  Facts!Merge(@, Facts!CBusStrobe, Facts!CBusData)]
                         ELSE CachedMem
      BY <2>9, SameSignals DEF Facts!Merge, Merge
    <3>4. QED BY <3>1, <3>2, <3>3 DEF Facts!Memory
  <2>12. QED BY <1>1, <1>3, <2>8, <2>11, SameSignals DEF Facts!Edge
<1>6. CASE ~(enable /\ tx.busy)
  <2>1. r = NoResponse /\ mem' = mem BY <1>6, DeviceWaits
  <2>2. CachedMem' = CachedMem BY <2>1 DEF CachedMem
  <2>3. Beats' = Beats BY <1>6, DeviceWaits DEF Beats
  <2>4. r \in Facts!Responses
    BY <1>4, <2>1, SameData DEF NoResponse, Facts!Responses, Facts!NotReady
  <2>5. Facts!Memory(r) BY <2>1, <2>2, <2>3 DEF NoResponse, Facts!Memory
  <2>6. QED BY <1>1, <1>3, <2>4, <2>5, SameSignals DEF Facts!Edge
<1>7. QED BY <1>5, <1>6

\* The burst in progress stays the one the cache asks for.
LEMMA ServedStep ==
  ASSUME CacheInOrder, Cycle, NEW r, r = Device!DeviceResp, Asks(r)
  PROVE  Served' /\ tx' \in Transaction \cup {Device!NoTransaction}
<1>1. r \in Facts!Responses /\ Facts!Edge(r) BY CycleIsEdge
<1>2. ASSUME CBusValid, ~r.last
      PROVE  /\ CBusValid' /\ CBusIsWrite' = CBusIsWrite /\ CBusAddr' = CBusAddr
  <2>1. Facts!CBusRequest' = Facts!CBusRequest
    BY <1>1, <1>2, SameSignals, Surroundings, Facts!HeldEdge DEF CacheInOrder
  <2>2. Facts!CBusRequest = CBusRequest /\ Facts!CBusRequest' = CBusRequest'
    BY DEF Facts!CBusRequest, CBusRequest, Facts!CBusValid, CBusValid, Facts!CBusIsWrite,
      CBusIsWrite, Facts!CBusAddr, CBusAddr, Facts!CBusLen, CBusLen, Facts!Uncached,
      Uncached, Facts!IsStore, IsStore
  <2>3. CBusRequest' = CBusRequest BY <2>1, <2>2
  <2>4. CBusValid' = CBusValid BY <2>3 DEF CBusRequest
  <2>5. QED BY <1>2, <2>3, <2>4 DEF CBusRequest
<1>3. CASE enable /\ tx.busy
  <2>1. tx \in Transaction /\ CBusValid /\ tx.is_write = CBusIsWrite
        /\ tx.addr = [Down(CBusAddr) EXCEPT !.word = tx.N - 1]
    BY <1>3 DEF CacheInOrder, Served, Device!NoTransaction
  <2>2. LineWords \in Nat /\ tx.N \in 1 .. LineWords
    BY <2>1, LineAssumption DEF Transaction
  <2>3. PICK end, d : /\ r = [ready |-> TRUE, last |-> end, data |-> d]
                      /\ end = (tx.N = LineWords)
    BY <1>3, DeviceAnswers
  <2>4. CASE tx.N = LineWords
    <3>1. tx' = Device!NoTransaction BY <1>3, <2>4, DeviceAnswers
    <3>2. QED BY <3>1 DEF Served, Device!NoTransaction
  <2>5. CASE tx.N # LineWords
    <3>1. tx' = [tx EXCEPT !.N = @ + 1, !.addr = [@ EXCEPT !.word = tx.N]]
      BY <1>3, <2>5, DeviceAnswers
    <3>2. ~r.last
      <4>1. end = FALSE BY <2>3, <2>5
      <4>2. r.last = FALSE BY <2>3, <4>1
      <4>3. QED BY <4>2
    <3>3. CBusValid' /\ CBusIsWrite' = CBusIsWrite /\ CBusAddr' = CBusAddr
      BY <1>2, <2>1, <3>2
    <3>4. /\ tx'.N = tx.N + 1 /\ tx'.is_write = tx.is_write
          /\ tx'.addr = [tx.addr EXCEPT !.word = tx.N]
      BY <2>1, <3>1 DEF Transaction
    <3>5. CBusAddr \in Addr /\ CBusAddr.tag \in CachedTags BY <2>1, BurstWire
    <3>6. Down(CBusAddr) \in MemAddr BY <3>5, Bit31
    <3>7. tx'.addr = [Down(CBusAddr) EXCEPT !.word = tx'.N - 1]
      <4>1. (tx.N + 1) - 1 = tx.N BY <2>2
      <4>2. QED BY <2>1, <3>4, <3>6, <4>1 DEF MemAddr
    <3>8. tx' \in Transaction
      <4>1. tx.N + 1 \in 1 .. LineWords /\ tx.N \in Offsets BY <2>2, <2>5 DEF Offsets
      <4>2. [tx.addr EXCEPT !.word = tx.N] \in MemAddr BY <2>1, <4>1 DEF Transaction, MemAddr
      <4>3. QED BY <2>1, <3>1, <4>1, <4>2 DEF Transaction
    <3>9. Down(CBusAddr)' = Down(CBusAddr) BY <3>3 DEF Down
    <3>10. QED BY <2>1, <3>3, <3>4, <3>7, <3>8, <3>9 DEF Served
  <2>6. QED BY <2>4, <2>5
<1>4. CASE ~(enable /\ tx.busy)
  <2>1. r = NoResponse BY <1>4, DeviceWaits
  <2>2. ~r.last BY <2>1 DEF NoResponse
  <2>3. CASE tx' = tx
    BY <1>2, <2>2, <2>3 DEF Served, CacheInOrder, Down
  <2>4. CASE /\ ~tx.busy /\ CBusValid
             /\ tx' = [busy |-> TRUE, is_write |-> CBusIsWrite, N |-> 1,
                       addr |-> Down(CBusAddr), start |-> Down(CBusAddr),
                       len |-> LineWords]
    <3>1. CBusAddr \in Addr /\ CBusAddr.tag \in CachedTags /\ CBusAddr.word = 0
          /\ CBusIsWrite \in BOOLEAN
      BY <2>4, BurstWire
    <3>2. Down(CBusAddr) \in MemAddr /\ Down(CBusAddr).word = 0
      BY <3>1, Bit31 DEF Down, Addr
    <3>3. CBusValid' /\ CBusIsWrite' = CBusIsWrite /\ CBusAddr' = CBusAddr
      BY <1>2, <2>2, <2>4
    <3>4. tx' \in Transaction
      BY <2>4, <3>1, <3>2, LineAssumption DEF Transaction
    <3>5. tx'.addr = [Down(CBusAddr) EXCEPT !.word = 1 - 1]
      BY <2>4, <3>2 DEF MemAddr
    <3>6. QED BY <2>4, <3>3, <3>4, <3>5 DEF Served, Down
  <2>5. QED BY <1>4, <2>3, <2>4, DeviceWaits
<1>5. QED BY <1>3, <1>4

\* A clock keeps cache and device in order, and has one of the four effects.
LEMMA CycleInOrder ==
  ASSUME CacheInOrder, Cycle, NEW r, r = Device!DeviceResp, Asks(r)
  PROVE  CacheInOrder' /\ Facts!Effect(r)
<1>1. r \in Facts!Responses /\ Facts!Edge(r) BY CycleIsEdge
<1>2. Facts!IInv' /\ Facts!Effect(r)
  BY <1>1, Surroundings, Facts!IInvEdge, Facts!EdgeEffect DEF CacheInOrder
<1>3. Served' /\ tx' \in Transaction \cup {Device!NoTransaction} BY ServedStep
<1>4. mem' \in Memories
  <2>1. CASE enable /\ tx.busy
    <3>1. tx \in Transaction /\ CBusValid
      BY <2>1 DEF CacheInOrder, Served, Device!NoTransaction
    <3>2. CBusData \in Word /\ CBusStrobe = Lanes BY <3>1, BurstWire
    <3>3. tx.addr \in MemAddr /\ mem \in [MemAddr -> Word]
      BY <3>1 DEF Transaction, CacheInOrder, Memories
    <3>4. Merge(mem[tx.addr], CBusStrobe, CBusData) \in Word
      BY <3>2 DEF Merge, Word
    <3>5. mem' = IF CBusIsWrite
                   THEN [mem EXCEPT ![tx.addr] = Merge(mem[tx.addr], CBusStrobe, CBusData)]
                   ELSE mem
      BY <2>1, DeviceAnswers
    <3>6. QED BY <3>3, <3>4, <3>5 DEF Memories
  <2>2. CASE ~(enable /\ tx.busy)
    BY <2>2, DeviceWaits DEF CacheInOrder
  <2>3. QED BY <2>1, <2>2
<1>5. enable' \in BOOLEAN BY DEF Cycle, Device!DeviceEdge
<1>6. dreq'.valid => dreq'.addr.tag \in CachedTags
  BY DEF Asks, CachedRequests, NoRequest, CacheInOrder
<1>7. ~dreq'.valid => state' = "COMPARETAG"
  <2>1. CASE ~dreq.valid
    BY <2>1 DEF Cycle, ClockEdge, Idle, CompareHit, CompareMiss, WriteBack, Fetch, Final,
                Ready, WriteReady
  <2>2. CASE dreq.valid /\ ~DataOk(r)
    BY <2>2 DEF Asks
  <2>3. CASE dreq.valid /\ DataOk(r)
    <3>1. ~Uncached BY TagAssumption DEF CacheInOrder, Uncached
    <3>2. (state = "READY" /\ ~IsStore) \/ state = "WRITEREADY"
      BY <2>3, <3>1 DEF DataOk
    <3>3. QED
      BY <2>3, <3>2 DEF Cycle, ClockEdge, Idle, CompareHit, CompareMiss, WriteBack, Fetch,
                        Final, Ready, WriteReady
  <2>4. QED BY <2>1, <2>2, <2>3
<1>8. QED BY <1>2, <1>3, <1>4, <1>5, <1>6, <1>7 DEF CacheInOrder

\* A task that finds the wires free keeps them in order, and changes no value.
LEMMA ArrivesInOrder ==
  ASSUME CacheInOrder, ~dreq.valid, dreq' \in CachedRequests,
         UNCHANGED <<cachevars, tx, enable, mem>>
  PROVE  CacheInOrder' /\ ~Facts!StoreDone' /\ Facts!SameValues
<1>1. UNCHANGED <<Facts!cachevars, CachedMem, Beats>>
  BY DEF cachevars, Facts!cachevars, CachedMem, Beats
<1>2. dreq' \in Facts!Request BY SameData DEF CachedRequests
<1>3. Facts!IInv' /\ ~Facts!StoreDone' /\ Facts!SameValues
  BY <1>1, <1>2, Surroundings, Facts!RequestArrives DEF CacheInOrder
<1>4. dreq'.valid /\ dreq'.addr.tag \in CachedTags BY DEF CachedRequests, Request
<1>5. ~tx.busy BY DEF CacheInOrder, Served, CBusValid
<1>6. Served' BY <1>5 DEF Served
<1>7. QED BY <1>3, <1>4, <1>6 DEF CacheInOrder, cachevars

\* What moves neither keeps it.
LEMMA InOrderStutter ==
  ASSUME CacheInOrder, UNCHANGED <<dreq, cachevars, tx, enable, mem>>
  PROVE  /\ CacheInOrder' /\ UNCHANGED Facts!StoreDone
         /\ \A a \in Addr : Facts!Value(a)' = Facts!Value(a)
<1>1. UNCHANGED <<dreq, Facts!cachevars, CachedMem, Beats>>
  BY DEF cachevars, Facts!cachevars, CachedMem, Beats
<1>2. Facts!IInv' BY <1>1, Surroundings, Facts!IInvStutter DEF CacheInOrder
<1>3. Served'
  BY DEF CacheInOrder, Served, cachevars, CBusValid, CBusIsWrite, CBusAddr, Uncached,
         IsStore, Down
<1>4. UNCHANGED Facts!StoreDone
  BY DEF cachevars, Facts!StoreDone, Facts!Cached, Facts!IsStore
<1>5. \A a \in Addr : Facts!Value(a)' = Facts!Value(a)
  <2> SUFFICES ASSUME NEW a \in Addr PROVE Facts!Value(a)' = Facts!Value(a)
    OBVIOUS
  <2>1. UNCHANGED <<dreq, state, hit, metarecord, metaram, dataram, CachedMem>>
    BY <1>1 DEF cachevars
  <2>2. \A s : Facts!Refilling(s)' <=> Facts!Refilling(s)
    BY <2>1 DEF Facts!Refilling, Facts!Cached
  <2>3. \A s, w : Facts!Line(s, w)' = Facts!Line(s, w)
    BY <2>1, <2>2 DEF Facts!Line
  <2>4. \A w : Facts!Holds(w, a)' <=> Facts!Holds(w, a)
    BY <2>1, <2>2, <2>3 DEF Facts!Holds, Facts!Present
  <2>5. QED BY <2>1, <2>4 DEF Facts!Value
<1>6. QED BY <1>2, <1>3, <1>4, <1>5 DEF CacheInOrder, cachevars

LEMMA InitInOrder == Init => CacheInOrder
<1> SUFFICES ASSUME Init PROVE CacheInOrder OBVIOUS
<1>1. mem \in Memories /\ tx = Device!NoTransaction /\ enable = TRUE
  BY ByteAssumption DEF Init, Memories, ZeroWord, Word, Device!DeviceInit
<1>2. CachedMem \in [Facts!Addr -> Facts!Word]
  <2>1. ZeroWord \in Word BY ByteAssumption DEF ZeroWord, Word
  <2>2. \A a \in Addr : a.tag \in CachedTags => mem[Down(a)] \in Word
    BY <1>1, Bit31 DEF Memories
  <2>3. QED BY <2>1, <2>2, SameData DEF CachedMem
<1>3. Beats = 0 BY <1>1 DEF Beats, Device!NoTransaction
<1>4. Facts!Init
  BY <1>2, <1>3, SameData
     DEF Init, CacheInit, Facts!Init, Facts!CacheInit, Facts!NoAnswer, EmptyMeta,
         Facts!EmptyMeta, Ways, Facts!Ways, Slots, Facts!Slots, Offsets, Facts!Offsets,
         ZeroWord, Facts!ZeroWord
<1>5. Facts!IInv BY <1>4, Surroundings, Facts!IInvInit
<1>6. QED BY <1>1, <1>5 DEF CacheInOrder, Init, CacheInit, NoRequest, Served, Device!NoTransaction

-----------------------------------------------------------------------------
(* The tasks.                                                              *)

\* An aligned access stays inside its word.
LEMMA InsideWord ==
  ASSUME NEW op \in Operations
  PROVE  /\ op.width \in Nat \ {0} /\ op.offset \in Nat
         /\ op.offset + op.width <= WordBytes /\ WordBytes \in Nat
         /\ Lanes = 0 .. WordBytes - 1
         /\ parse(op.width, op.offset).shift = op.offset
         /\ parse(op.width, op.offset).size = op.width
<1> DEFINE w == op.width
           o == op.offset
<1>1. /\ w \in Nat \ {0} /\ o \in Nat /\ o % w = 0 /\ WordBytes % w = 0
      /\ WordBytes \in Nat /\ o < WordBytes /\ Lanes = 0 .. WordBytes - 1
  BY BenchAssumption, LaneAssumption DEF Widths
<1> HIDE DEF w, o
<1>2. o = w * (o \div w) /\ WordBytes = w * (WordBytes \div w)
  <2>1. o = w * (o \div w) + (o % w) /\ WordBytes = w * (WordBytes \div w) + (WordBytes % w)
    BY <1>1
  <2>2. QED BY <1>1, <2>1
<1>3. PICK k \in Nat, m \in Nat : o = w * k /\ WordBytes = w * m
  <2>1. o \div w \in Nat /\ WordBytes \div w \in Nat BY <1>1
  <2>2. QED BY <1>2, <2>1
<1>4. k < m
  <2>1. CASE m <= k
    <3>1. w * m <= w * k BY <1>1, <2>1
    <3>2. QED BY <1>1, <1>3, <3>1
  <2>2. QED BY <2>1
<1>5. w * k + w <= w * m
  <2>1. w * (k + 1) <= w * m BY <1>1, <1>4
  <2>2. w * (k + 1) = w * k + w BY <1>1
  <2>3. QED BY <2>1, <2>2
<1>6. QED BY <1>1, <1>3, <1>5, ParseAligned DEF w, o

\* What a task puts on the wires, and what it does to the memory.
LEMMA TaskFacts ==
  ASSUME NEW op \in Operations, NEW p \in Memories
  PROVE  LET t == TaskAt(op, p)
             q == Issued(t)
         IN  /\ t \in Tasks /\ t # None /\ t.kind = op.kind /\ t.at = op.at
             /\ q \in CachedRequests /\ q.valid /\ q.addr = Up(op.at) /\ op.at \in MemAddr
             /\ q.strobe # {} <=> op.kind = "store"
             /\ After(p, op) \in Memories
             /\ op.kind # "store" => After(p, op) = p
             /\ op.kind = "store" =>
                  After(p, op) = [p EXCEPT ![op.at] = Merge(@, q.strobe, q.data)]
<1> DEFINE t == TaskAt(op, p)
           q == Issued(t)
           lane == parse(op.width, op.offset)
<1>1. op.kind \in {"load", "store", "expect"} /\ op.at \in MemAddr
  BY BenchAssumption
<1>2. t \in Tasks BY DEF Tasks
<1>3. Up(op.at) \in Addr /\ Up(op.at).tag \in CachedTags BY <1>1, Bit31
<1>4. CASE op.kind = "store"
  <2>1. t = [kind |-> "store", at |-> op.at, op |-> lane, strobe |-> strobe(lane),
             data |-> place(lane, ValueWord(op.value))]
    BY <1>4 DEF TaskAt
  <2>2. /\ t.kind = "store" /\ t.at = op.at /\ t.strobe = strobe(lane)
        /\ t.data = place(lane, ValueWord(op.value))
    BY <2>1
  <2>3. q = [valid |-> TRUE, addr |-> Up(op.at), strobe |-> strobe(lane),
             data |-> place(lane, ValueWord(op.value))]
    BY <2>2 DEF Issued, Up
  <2>4. /\ strobe(lane) \in SUBSET Lanes /\ place(lane, ValueWord(op.value)) \in Word
        /\ After(p, op) = [p EXCEPT ![op.at] =
                              Merge(@, strobe(lane), place(lane, ValueWord(op.value)))]
        /\ After(p, op) \in Memories
    BY <1>4, StoreLanes
  <2>5. strobe(lane) # {}
    <3>1. op.offset \in Lanes BY BenchAssumption
    <3>2. op.offset \in strobe(lane) BY <3>1, InsideWord DEF strobe
    <3>3. QED BY <3>2
  <2>6. q \in CachedRequests BY <1>3, <2>3, <2>4 DEF CachedRequests, Request
  <2>7. q.valid /\ q.addr = Up(op.at) /\ q.strobe = strobe(lane)
        /\ q.data = place(lane, ValueWord(op.value))
    BY <2>3
  <2>8. t # None BY <2>2 DEF None
  <2>9. QED BY <1>1, <1>2, <1>4, <2>2, <2>4, <2>5, <2>6, <2>7, <2>8
<1>5. CASE op.kind # "store"
  <2>1. t.kind = op.kind /\ t.at = op.at /\ t.strobe = {}
    BY <1>1, <1>5 DEF TaskAt
  <2>2. q = [valid |-> TRUE, addr |-> Up(op.at), strobe |-> {}, data |-> ZeroWord]
    BY <1>5, <2>1 DEF Issued, Up
  <2>3. ZeroWord \in Word BY ByteAssumption DEF ZeroWord, Word
  <2>4. q \in CachedRequests BY <1>3, <2>2, <2>3 DEF CachedRequests, Request
  <2>5. After(p, op) = p BY <1>5 DEF After
  <2>6. t # None BY <1>1, <2>1 DEF None
  <2>7. q.valid /\ q.addr = Up(op.at) /\ q.strobe = {} BY <2>2
  <2>8. QED BY <1>1, <1>2, <1>5, <2>1, <2>4, <2>5, <2>6, <2>7
<1>6. QED BY <1>4, <1>5

\* A load of what the test believed in finds it in the lanes of its access.
LEMMA TaskFinds ==
  ASSUME NEW op \in Operations, NEW p \in Memories
  PROVE  LET t == TaskAt(op, p)
         IN  /\ op.kind = "load" => applyTo(t.op, p[op.at]) = t.want
             /\ op.kind = "expect" => \A l \in mask(t.op) : p[op.at][l] = t.data[l]
<1> DEFINE lane == parse(op.width, op.offset)
           v == p[op.at]
<1>1. /\ op.width \in Nat \ {0} /\ op.offset \in Nat /\ WordBytes \in Nat
      /\ op.offset + op.width <= WordBytes /\ Lanes = 0 .. WordBytes - 1
      /\ lane.shift = op.offset /\ lane.size = op.width
  BY InsideWord
<1> HIDE DEF lane
<1>2. ASSUME op.kind = "load" PROVE applyTo(TaskAt(op, p).op, v) = TaskAt(op, p).want
  <2>1. TaskAt(op, p).op = lane /\ TaskAt(op, p).want = BytesAt(op, p)
    BY <1>2 DEF TaskAt, lane
  <2>2. ASSUME NEW i \in 0 .. op.width - 1 PROVE apply(lane, v)[i] = v[op.offset + i]
    <3>1. i \in Lanes /\ i + op.offset < WordBytes /\ i + op.offset = op.offset + i
      BY <1>1
    <3>2. QED BY <1>1, <3>1 DEF apply
  <2>3. applyTo(lane, v) = [i \in 0 .. op.width - 1 |-> apply(lane, v)[i]]
    BY <1>1 DEF applyTo
  <2>4. QED BY <2>1, <2>2, <2>3 DEF BytesAt
<1>3. ASSUME op.kind = "expect", NEW l \in mask(TaskAt(op, p).op)
      PROVE  v[l] = TaskAt(op, p).data[l]
  <2>1. TaskAt(op, p).op = lane
        /\ TaskAt(op, p).data = place(lane, ValueWord(BytesAt(op, p)))
    BY <1>3 DEF TaskAt, lane
  <2>2. l \in Lanes /\ l \in Nat /\ op.offset <= l /\ l < op.offset + op.width
    BY <1>1, <1>3, <2>1 DEF mask, strobe
  <2>3. place(lane, ValueWord(BytesAt(op, p)))[l] = ValueWord(BytesAt(op, p))[l - op.offset]
    BY <1>1, <2>2 DEF place
  <2>4. l - op.offset \in Lanes /\ l - op.offset \in 0 .. op.width - 1
        /\ op.offset + (l - op.offset) = l
    BY <1>1, <2>2
  <2>5. ValueWord(BytesAt(op, p))[l - op.offset] = v[l]
    BY <2>4 DEF ValueWord, BytesAt
  <2>6. QED BY <2>1, <2>3, <2>5
<1>4. QED BY <1>2, <1>3

-----------------------------------------------------------------------------
(* The steps of the tests.                                                 *)

LEMMA TaskIssues ==
  ASSUME NEW t \in Tasks
  PROVE  Issued(t) \in CachedRequests /\ Issued(t).valid /\ t # None
<1>1. PICK op \in Operations, p \in Memories : t = TaskAt(op, p) BY DEF Tasks
<1>2. QED BY <1>1, TaskFacts

LEMMA QueueType ==
  ASSUME TestInv
  PROVE  /\ Queue \in Seq(Tasks) /\ (dreq.valid <=> Queue # <<>>)
         /\ Queue # <<>> => Len(Queue) \in Nat \ {0} /\ Head(Queue) = Queue[1]
         /\ (~compared => Queue = ongoing) /\ (call # None => Queue = <<call>>)
<1>1. Queue \in Seq(Tasks) BY DEF TestInv, Queue
<1>2. CASE Queue = <<>> BY <1>1, <1>2 DEF TestInv, Wires, NoRequest, Queue
<1>3. CASE Queue # <<>>
  <2>1. Head(Queue) \in Tasks /\ Len(Queue) \in Nat \ {0} /\ Head(Queue) = Queue[1]
    BY <1>1, <1>3
  <2>2. dreq = Issued(Head(Queue)) BY <1>3 DEF TestInv, Wires
  <2>3. QED BY <1>1, <1>3, <2>1, <2>2, TaskIssues DEF TestInv, Queue
<1>4. QED BY <1>2, <1>3

\* What a test reads of the answer is in the registers of the cache alone.
LEMMA AnswerIsLatched ==
  ASSUME CacheInOrder, NEW r
  PROVE  /\ DataOk(r) <=> DataOk(cresp)
         /\ DataOk(r) => dreq.valid /\ RespData(r) = RespData(cresp)
<1>1. ~Uncached BY TagAssumption DEF CacheInOrder, Uncached
<1>2. QED BY <1>1 DEF DataOk, RespData

\* A clock takes the first task away when it is answered, and nothing else.
LEMMA Clocked ==
  ASSUME CacheInOrder, TestInv, Tick \/ Await
  PROVE  /\ Cycle /\ UNCHANGED <<prog, compared>>
         /\ DataOk(cresp) => Queue # <<>>
         /\ Queue' = IF DataOk(cresp) THEN Tail(Queue) ELSE Queue
         /\ dreq' = Wires' /\ \A r : Asks(r)
         /\ ongoing' \in Seq(Tasks) /\ call' \in Tasks \cup {None}
         /\ ~compared => call' = None
<1>1. /\ Queue \in Seq(Tasks) /\ (dreq.valid <=> Queue # <<>>) /\ dreq = Wires
      /\ compared \in BOOLEAN /\ (~compared => call = None)
      /\ ongoing \in Seq(Tasks) /\ call \in Tasks \cup {None}
  BY QueueType DEF TestInv
<1>2. DataOk(cresp) => dreq.valid BY AnswerIsLatched
<1>3. CASE Tick
  <2>1. /\ Cycle /\ UNCHANGED <<prog, compared, call>> /\ ~compared
        /\ ongoing' = IF busy /\ DataOk(cresp) THEN Tail(ongoing) ELSE ongoing
        /\ dreq' = IF ongoing' = <<>> THEN NoRequest ELSE Issued(Head(ongoing'))
    BY <1>3 DEF Tick
  <2>2. Queue = ongoing /\ Queue' = ongoing' BY <2>1 DEF Queue
  <2>3. ongoing' = IF DataOk(cresp) THEN Tail(ongoing) ELSE ongoing
    BY <1>2, <2>1 DEF busy
  <2>4. ongoing' \in Seq(Tasks) BY <1>1, <1>2, <2>2, <2>3
  <2>5. dreq' = Wires' BY <2>1, <2>2 DEF Wires
  <2>6. ongoing' # <<>> => dreq' \in CachedRequests
    BY <2>1, <2>4, TaskIssues
  <2>7. \A r : Asks(r)
    <3>1. ~DataOk(cresp) => dreq' = dreq BY <1>1, <2>2, <2>3, <2>5 DEF Wires
    <3>2. QED BY <2>1, <2>6, <3>1, AnswerIsLatched DEF Asks
  <2>8. QED BY <1>1, <1>2, <2>1, <2>2, <2>3, <2>4, <2>5, <2>7
<1>4. CASE Await
  <2>1. /\ Cycle /\ UNCHANGED <<prog, compared, ongoing>> /\ call # None /\ compared
        /\ DataOk(cresp) => dreq' = NoRequest /\ call' = None
        /\ ~DataOk(cresp) => dreq' = dreq /\ call' = call
    BY <1>1, <1>4 DEF Await
  <2>2. Queue = <<call>> /\ Queue' = IF call' = None THEN <<>> ELSE <<call'>>
    BY <2>1 DEF Queue
  <2>3. Queue' = IF DataOk(cresp) THEN Tail(Queue) ELSE Queue
    BY <2>1, <2>2
  <2>4. dreq' = Wires'
    <3>1. DataOk(cresp) => Queue' = <<>> BY <2>1, <2>2
    <3>2. QED BY <1>1, <2>1, <2>3, <3>1 DEF Wires
  <2>5. \A r : Asks(r) BY <2>1, AnswerIsLatched DEF Asks
  <2>6. QED BY <1>1, <1>2, <2>1, <2>3, <2>4, <2>5
<1>5. QED BY <1>3, <1>4

-----------------------------------------------------------------------------
\* A new task is a new end of the story ...
LEMMA StoryGrows ==
  ASSUME NEW s, Story(s), NEW op \in Operations, Queue \in Seq(Tasks),
         Queue' = Append(Queue, TaskAt(op, prog)), prog' = After(prog, op),
         Shown' = Shown, Facts!StoreDone' <=> Facts!StoreDone,
         Facts!StoreDone => Queue # <<>>
  PROVE  (\E n : Story(n))'
<1> DEFINE k == Len(Queue)
<1>0. PICK n : n = [i \in 1 .. k + 2 |-> IF i <= k + 1 THEN s[i] ELSE After(prog, op)]
  OBVIOUS
<1>1. /\ k \in Nat /\ s \in [1 .. k + 1 -> Memories] /\ s[k + 1] = prog
      /\ \A i \in 1 .. k :
            \E o \in Operations : Queue[i] = TaskAt(o, s[i]) /\ s[i + 1] = After(s[i], o)
      /\ Shown = IF Facts!StoreDone THEN s[2] ELSE s[1]
      /\ Queue # <<>> => k # 0
  BY DEF Story
<1>2. prog \in Memories BY <1>1
<1>3. After(prog, op) \in Memories BY <1>2, TaskFacts
<1>4. Len(Queue') = k + 1 /\ Queue'[k + 1] = TaskAt(op, prog)
      /\ \A i \in 1 .. k : Queue'[i] = Queue[i]
  OBVIOUS
<1> HIDE DEF k
<1>5. /\ n \in [1 .. (k + 1) + 1 -> Memories] /\ n[(k + 1) + 1] = prog'
      /\ \A i \in 1 .. k + 1 : n[i] = s[i]
      /\ n[k + 2] = After(prog, op)
  BY <1>0, <1>1, <1>3
<1>6. ASSUME NEW i \in 1 .. k + 1
      PROVE  \E o \in Operations : Queue'[i] = TaskAt(o, n[i]) /\ n[i + 1] = After(n[i], o)
  <2>1. CASE i \in 1 .. k
    <3>1. i + 1 \in 1 .. k + 1 BY <1>1, <2>1
    <3>2. n[i] = s[i] /\ n[i + 1] = s[i + 1] BY <1>5, <3>1
    <3>3. QED BY <1>1, <1>4, <2>1, <3>2
  <2>2. CASE i = k + 1
    <3>1. n[i] = prog /\ n[i + 1] = After(prog, op) BY <1>1, <1>5, <2>2
    <3>2. QED BY <1>4, <2>2, <3>1
  <2>3. i \in 1 .. k \/ i = k + 1 BY <1>1
  <2>4. QED BY <2>1, <2>2, <2>3
<1>7. n[1] = s[1] /\ (k # 0 => n[2] = s[2])
  <2>1. 1 \in 1 .. k + 1 /\ (k # 0 => 2 \in 1 .. k + 1) BY <1>1
  <2>2. QED BY <1>5, <2>1
<1>8. Shown' = IF Facts!StoreDone' THEN n[2] ELSE n[1] BY <1>1, <1>7
<1>9. Story(n)' BY <1>4, <1>5, <1>6, <1>8 DEF Story, k
<1>10. QED BY <1>9

\* ... and an answered one its old beginning.
LEMMA StoryAdvances ==
  ASSUME NEW s, Story(s), Queue \in Seq(Tasks), Queue # <<>>,
         Queue' = Tail(Queue), prog' = prog,
         Shown' = s[2], ~Facts!StoreDone'
  PROVE  (\E n : Story(n))'
<1> DEFINE k == Len(Queue)
<1>0. PICK n : n = [i \in 1 .. k |-> s[i + 1]] OBVIOUS
<1>1. /\ k \in Nat \ {0} /\ s \in [1 .. k + 1 -> Memories] /\ s[k + 1] = prog
      /\ \A i \in 1 .. k :
            \E o \in Operations : Queue[i] = TaskAt(o, s[i]) /\ s[i + 1] = After(s[i], o)
  BY DEF Story
<1>2. Len(Queue') = k - 1 /\ \A i \in 1 .. k - 1 : Queue'[i] = Queue[i + 1]
  OBVIOUS
<1> HIDE DEF k
<1>3. n \in [1 .. (k - 1) + 1 -> Memories] /\ n[(k - 1) + 1] = prog' /\ n[1] = s[2]
  BY <1>0, <1>1
<1>4. ASSUME NEW i \in 1 .. k - 1
      PROVE  \E o \in Operations : Queue'[i] = TaskAt(o, n[i]) /\ n[i + 1] = After(n[i], o)
  <2>1. i + 1 \in 1 .. k /\ i \in 1 .. k BY <1>1
  <2>2. n[i] = s[i + 1] /\ n[i + 1] = s[(i + 1) + 1] BY <1>0, <2>1
  <2>3. QED BY <1>1, <1>2, <2>1, <2>2
<1>5. Story(n)' BY <1>2, <1>3, <1>4 DEF Story
<1>6. QED BY <1>5

LEMMA StoryStays ==
  ASSUME NEW s, Story(s), Queue' = Queue, prog' = prog,
         Shown' = IF Facts!StoreDone' THEN s[2] ELSE s[1]
  PROVE  (\E n : Story(n))'
<1>1. Story(s)' BY DEF Story
<1>2. QED BY <1>1

-----------------------------------------------------------------------------
\* A store that takes effect makes of the shown memory what its task says.
LEMMA ShownWrites ==
  ASSUME NEW op \in Operations, NEW p \in Memories, op.kind = "store",
         dreq = Issued(TaskAt(op, p)), Facts!NewValues, Shown = p
  PROVE  Shown' = After(p, op)
<1>1. /\ dreq.addr = Up(op.at) /\ op.at \in MemAddr
      /\ After(p, op) = [p EXCEPT ![op.at] = Merge(@, dreq.strobe, dreq.data)]
  BY TaskFacts
<1>2. ASSUME NEW a \in MemAddr
      PROVE  Facts!Value(Up(a))' = IF a = op.at THEN Merge(p[a], dreq.strobe, dreq.data)
                                                ELSE p[a]
  <2>1. Up(a) \in Facts!Addr BY Bit31, SameData
  <2>2. Up(a) = Up(op.at) <=> a = op.at BY <1>1, Bit31
  <2>3. Facts!Value(Up(a)) = p[a] BY DEF Shown
  <2>4. QED BY <1>1, <2>1, <2>2, <2>3 DEF Facts!NewValues, Facts!Merge, Merge
<1>3. Shown' = [a \in MemAddr |-> IF a = op.at THEN Merge(p[a], dreq.strobe, dreq.data)
                                               ELSE p[a]]
  BY <1>2 DEF Shown
<1>4. QED BY <1>1, <1>3 DEF Memories

LEMMA ShownStays ==
  ASSUME \A a \in Addr : Facts!Value(a)' = Facts!Value(a)
  PROVE  Shown' = Shown
BY Bit31 DEF Shown

\* A clock: the cache stays in order, the story goes on with it, and an answer
\* is the memory before the first task.
LEMMA ClockStory ==
  ASSUME CacheInOrder, TestInv, Tick \/ Await, NEW s, Story(s)
  PROVE  /\ CacheInOrder' /\ (\E n : Story(n))'
         /\ DataOk(cresp) =>
              \E op \in Operations, p \in Memories :
                  /\ Head(Queue) = TaskAt(op, p)
                  /\ op.kind # "store" => RespData(cresp) = p[op.at]
                  /\ Len(Queue) = 1 => prog = After(p, op)
<1> DEFINE answered ==
             \E op \in Operations, p \in Memories :
                 /\ Head(Queue) = TaskAt(op, p)
                 /\ op.kind # "store" => RespData(cresp) = p[op.at]
                 /\ Len(Queue) = 1 => prog = After(p, op)
<1>1. /\ Cycle /\ prog' = prog /\ \A r : Asks(r)
      /\ DataOk(cresp) => Queue # <<>>
      /\ Queue' = IF DataOk(cresp) THEN Tail(Queue) ELSE Queue
  BY Clocked
<1>2. /\ Queue \in Seq(Tasks) /\ (dreq.valid <=> Queue # <<>>) /\ dreq = Wires
      /\ Queue # <<>> => Len(Queue) \in Nat \ {0} /\ Head(Queue) = Queue[1]
  BY QueueType DEF TestInv
<1>3. PICK r : r = Device!DeviceResp OBVIOUS
<1>4. CacheInOrder' /\ Facts!Effect(r) BY <1>1, <1>3, CycleInOrder
<1>5. (DataOk(r) <=> DataOk(cresp)) /\ (DataOk(r) => RespData(r) = RespData(cresp))
  BY AnswerIsLatched
<1>6. /\ Facts!SameValues => Shown' = Shown
      /\ Shown = IF Facts!StoreDone THEN s[2] ELSE s[1]
      /\ Facts!StoreDone => Facts!IsStore /\ dreq.valid
  BY ShownStays, SameData DEF Facts!SameValues, Story, Facts!StoreDone, Facts!Cached
<1>7. CASE Facts!Quiet(r)
  <2>1. ~DataOk(cresp) /\ Queue' = Queue
    BY <1>1, <1>5, <1>7, SameSignals DEF Facts!Quiet
  <2>2. Shown' = IF Facts!StoreDone' THEN s[2] ELSE s[1]
    BY <1>6, <1>7 DEF Facts!Quiet
  <2>3. QED BY <1>1, <1>4, <2>1, <2>2, StoryStays
<1>8. CASE dreq.valid /\ ~Facts!Quiet(r)
  <2>1. PICK op \in Operations : Queue[1] = TaskAt(op, s[1]) /\ s[2] = After(s[1], op)
    <3>1. Len(Queue) \in Nat \ {0} BY <1>2, <1>8
    <3>2. 1 \in 1 .. Len(Queue) /\ 1 + 1 = 2 BY <3>1
    <3>3. QED BY <3>2 DEF Story
  <2>2. s[1] \in Memories /\ s[2] \in Memories /\ (Len(Queue) = 1 => prog = s[2])
    <3>1. Len(Queue) \in Nat \ {0} BY <1>2, <1>8
    <3>2. 1 \in 1 .. Len(Queue) + 1 /\ 2 \in 1 .. Len(Queue) + 1 BY <3>1
    <3>3. QED BY <3>2 DEF Story
  <2>3. /\ Head(Queue) = TaskAt(op, s[1]) /\ dreq = Issued(TaskAt(op, s[1]))
    BY <1>2, <1>8, <2>1 DEF Wires
  <2>4. /\ dreq.addr = Up(op.at) /\ op.at \in MemAddr
        /\ Facts!IsStore <=> op.kind = "store"
        /\ op.kind # "store" => s[2] = s[1]
    BY <2>1, <2>2, <2>3, TaskFacts DEF Facts!IsStore
  <2>5. op.kind = "store" /\ Facts!NewValues /\ ~Facts!StoreDone => Shown' = s[2]
    BY <1>6, <2>1, <2>2, <2>3, ShownWrites
  <2>6. CASE Facts!Applies(r)
    <3>1. ~DataOk(cresp) /\ Queue' = Queue
      BY <1>1, <1>5, <2>6, SameSignals DEF Facts!Applies
    <3>2. Shown' = s[2] /\ Facts!StoreDone' BY <2>4, <2>5, <2>6 DEF Facts!Applies
    <3>3. QED BY <1>1, <1>4, <3>1, <3>2, StoryStays
  <2>7. CASE Facts!Loads(r)
    <3>1. DataOk(cresp) /\ Queue' = Tail(Queue) /\ Queue # <<>>
      BY <1>1, <1>5, <2>7, SameSignals DEF Facts!Loads
    <3>2. ~Facts!StoreDone /\ ~Facts!StoreDone' /\ Shown' = s[2] /\ Shown = s[1]
      BY <1>6, <2>4, <2>7 DEF Facts!Loads
    <3>3. RespData(cresp) = s[1][op.at]
      <4>1. RespData(cresp) = Facts!Value(Up(op.at))
        BY <1>5, <2>4, <2>7, <3>1, SameSignals DEF Facts!Loads
      <4>2. QED BY <2>4, <3>2, <4>1 DEF Shown
    <3>4. answered BY <2>1, <2>2, <2>3, <3>3
    <3>5. QED BY <1>1, <1>2, <1>4, <3>1, <3>2, <3>4, StoryAdvances
  <2>8. CASE Facts!Stores(r)
    <3>1. DataOk(cresp) /\ Queue' = Tail(Queue) /\ Queue # <<>>
      BY <1>1, <1>5, <2>8, SameSignals DEF Facts!Stores
    <3>2. op.kind = "store" /\ ~Facts!StoreDone' BY <2>4, <2>8 DEF Facts!Stores
    <3>3. Shown' = s[2] BY <1>6, <2>5, <2>8, <3>2 DEF Facts!Stores
    <3>4. answered BY <2>1, <2>2, <2>3, <3>2
    <3>5. QED BY <1>1, <1>2, <1>4, <3>1, <3>2, <3>3, <3>4, StoryAdvances
  <2>9. QED BY <1>4, <1>8, <2>6, <2>7, <2>8 DEF Facts!Effect
<1>9. dreq.valid \/ Facts!Quiet(r)
  <2>1. DataOk(r) => dreq.valid BY AnswerIsLatched
  <2>2. QED
    BY <1>4, <2>1, SameSignals DEF Facts!Effect, Facts!Applies, Facts!Loads, Facts!Stores
<1>10. QED BY <1>7, <1>8, <1>9

LEMMA ClockKeeps ==
  ASSUME CacheInOrder, TestInv, Tick \/ Await
  PROVE  CacheInOrder' /\ TestInv'
<1>1. PICK s : Story(s) BY DEF TestInv
<1>2. CacheInOrder' /\ (\E n : Story(n))' BY <1>1, ClockStory
<1>3. QED BY <1>2, Clocked DEF TestInv

\* A task that is submitted, or a call that is made.
LEMMA PushKeeps ==
  ASSUME CacheInOrder, TestInv, NEW op \in Operations, Submit(op) \/ Call(op)
  PROVE  CacheInOrder' /\ TestInv'
<1> DEFINE t == TaskAt(op, prog)
<1>1. PICK s : Story(s) BY DEF TestInv
<1>2. /\ Queue \in Seq(Tasks) /\ (dreq.valid <=> Queue # <<>>) /\ dreq = Wires
      /\ Queue # <<>> => Len(Queue) \in Nat \ {0} /\ Head(Queue) = Queue[1]
      /\ compared \in BOOLEAN /\ (~compared => call = None)
      /\ ongoing \in Seq(Tasks) /\ call \in Tasks \cup {None}
  BY QueueType DEF TestInv
<1>3. prog \in Memories
  <2>1. Len(Queue) \in Nat BY <1>2
  <2>2. Len(Queue) + 1 \in 1 .. Len(Queue) + 1 BY <2>1
  <2>3. QED BY <1>1, <2>2 DEF Story
<1>4. Task(op) = t /\ Believed(op) = After(prog, op)
  BY DEF Task, TaskAt, Want, BytesAt, Believed, After
<1>5. t \in Tasks /\ t # None /\ Issued(t) \in CachedRequests BY <1>3, TaskFacts
<1> HIDE DEF t
<1>6. /\ UNCHANGED <<cachevars, tx, enable, mem, compared>> /\ prog' = After(prog, op)
      /\ Queue' = Append(Queue, t)
      /\ ongoing' \in Seq(Tasks) /\ call' \in Tasks \cup {None} /\ (~compared => call' = None)
      /\ dreq' = IF dreq.valid THEN dreq ELSE Issued(t)
  <2>1. CASE Submit(op)
    <3>1. /\ ~compared /\ ongoing' = Append(ongoing, t) /\ UNCHANGED <<call, compared>>
          /\ dreq' = IF dreq.valid THEN dreq ELSE Issued(t)
          /\ UNCHANGED <<cachevars, tx, enable, mem>> /\ prog' = After(prog, op)
      BY <1>4, <2>1 DEF Submit, busy
    <3>2. Queue = ongoing /\ Queue' = ongoing' BY <3>1 DEF Queue
    <3>3. ongoing' \in Seq(Tasks) BY <1>2, <1>5, <3>1
    <3>4. QED BY <1>2, <3>1, <3>2, <3>3
  <2>2. CASE Call(op)
    <3>1. /\ compared /\ call = None /\ call' = t /\ UNCHANGED <<ongoing, compared>>
          /\ dreq' = Issued(t)
          /\ UNCHANGED <<cachevars, tx, enable, mem>> /\ prog' = After(prog, op)
      BY <1>4, <2>2 DEF Call
    <3>2. Queue = <<>> /\ Queue' = <<t>> BY <1>5, <3>1 DEF Queue
    <3>3. QED BY <1>2, <1>5, <3>1, <3>2
  <2>3. QED BY <2>1, <2>2
<1>7. dreq' = Wires'
  <2>1. Queue' # <<>> /\ Head(Queue') = IF Queue = <<>> THEN t ELSE Head(Queue)
    BY <1>2, <1>5, <1>6
  <2>2. QED BY <1>2, <1>6, <2>1 DEF Wires
<1>8. CacheInOrder' /\ Shown' = Shown /\ (Facts!StoreDone' <=> Facts!StoreDone)
  <2>1. CASE dreq.valid
    BY <1>6, <2>1, InOrderStutter, ShownStays
  <2>2. CASE ~dreq.valid
    <3>1. CacheInOrder' /\ ~Facts!StoreDone' /\ Facts!SameValues
      BY <1>5, <1>6, <2>2, ArrivesInOrder
    <3>2. Shown' = Shown BY <3>1, ShownStays, SameData DEF Facts!SameValues
    <3>3. ~Facts!StoreDone BY <2>2 DEF Facts!StoreDone, Facts!Cached
    <3>4. QED BY <3>1, <3>2, <3>3
  <2>3. QED BY <2>1, <2>2
<1>9. Facts!StoreDone => Queue # <<>> BY <1>2 DEF Facts!StoreDone, Facts!Cached
<1>10. (\E n : Story(n))'
  BY <1>1, <1>2, <1>6, <1>8, <1>9, StoryGrows DEF t
<1>11. QED BY <1>2, <1>6, <1>7, <1>8, <1>10 DEF TestInv

\* A fence, and any step that leaves cache and tests alone.
LEMMA TestStutter ==
  ASSUME CacheInOrder, TestInv,
         UNCHANGED <<dreq, cachevars, tx, enable, mem, ongoing, call, compared, prog>>
  PROVE  CacheInOrder' /\ TestInv'
<1>1. /\ CacheInOrder' /\ UNCHANGED Facts!StoreDone
      /\ \A a \in Addr : Facts!Value(a)' = Facts!Value(a)
  BY InOrderStutter
<1>2. Shown' = Shown BY <1>1, ShownStays
<1>3. Queue' = Queue /\ Wires' = Wires BY DEF Queue, Wires
<1>4. PICK s : Story(s) BY DEF TestInv
<1>5. (\E n : Story(n))'
  <2>1. Shown' = IF Facts!StoreDone' THEN s[2] ELSE s[1] BY <1>1, <1>2, <1>4 DEF Story
  <2>2. QED BY <1>3, <1>4, <2>1, StoryStays
<1>6. QED BY <1>1, <1>3, <1>5 DEF TestInv

LEMMA InitTests == Init => TestInv
<1> SUFFICES ASSUME Init PROVE TestInv OBVIOUS
<1>1. CacheInOrder BY InitInOrder
<1>2. Queue = <<>> /\ prog = mem /\ mem \in Memories
  BY <1>1 DEF Init, Queue, CacheInOrder
<1>3. ~Facts!StoreDone BY DEF Init, NoRequest, Facts!StoreDone, Facts!Cached
<1>4. Shown = mem
  <2>1. \A s \in Sets, w \in Ways : ~Facts!Present(s, w)
    BY DEF Init, CacheInit, EmptyMeta, NoRequest, Facts!Present, Facts!Line,
           Facts!Refilling, Facts!Cached
  <2>2. ASSUME NEW a \in MemAddr PROVE Facts!Value(Up(a)) = mem[a]
    <3>1. Up(a) \in Addr /\ Up(a).tag \in CachedTags /\ Down(Up(a)) = a /\ Up(a).set \in Sets
      BY Bit31 DEF MemAddr
    <3>2. CachedMem[Up(a)] = mem[a] BY <3>1 DEF CachedMem
    <3>3. QED BY <2>1, <3>1, <3>2 DEF Facts!Value, Facts!Holds, Ways
  <2>3. QED BY <1>2, <2>2 DEF Shown, Memories
<1>5. PICK s : s = [i \in 1 .. 1 |-> prog] OBVIOUS
<1>6. Story(s)
  <2>1. Len(Queue) = 0 BY <1>2
  <2>2. s \in [1 .. 0 + 1 -> Memories] /\ s[0 + 1] = prog /\ s[1] = prog BY <1>2, <1>5
  <2>3. Shown = IF Facts!StoreDone THEN s[2] ELSE s[1] BY <1>2, <1>3, <1>4, <2>2
  <2>4. QED BY <2>1, <2>2, <2>3 DEF Story
<1>7. dreq = Wires BY <1>2 DEF Init, Wires
<1>8. QED BY <1>6, <1>7 DEF Init, TestInv

LEMMA TestStep ==
  ASSUME CacheInOrder, TestInv, [Next]_vars
  PROVE  CacheInOrder' /\ TestInv'
<1>1. ASSUME NEW op \in Operations, Submit(op) \/ Call(op) PROVE CacheInOrder' /\ TestInv'
  BY <1>1, PushKeeps
<1>2. CASE Fence BY <1>2, TestStutter DEF Fence
<1>3. CASE Tick \/ Await BY <1>3, ClockKeeps
<1>4. CASE UNCHANGED vars BY <1>4, TestStutter DEF vars, benchvars
<1>5. QED BY <1>1, <1>2, <1>3, <1>4 DEF Next

\* What a test is told when its first task is answered.
LEMMA AnswerIs ==
  ASSUME CacheInOrder, TestInv, Tick \/ Await, DataOk(cresp)
  PROVE  \E op \in Operations, p \in Memories :
             /\ Head(Queue) = TaskAt(op, p)
             /\ op.kind # "store" => RespData(cresp) = p[op.at]
             /\ Len(Queue) = 1 => prog = After(p, op)
<1>1. PICK s : Story(s) BY DEF TestInv
<1>2. QED BY <1>1, ClockStory

\* Every task of a pipeline takes the answer to its own request (the queue of
\* DBusPipelineGen and the registers of the cache never drift apart): a load
\* finds what the stores before it left, and no expectation fails, for every
\* cache, every operations and every delay of the device.
THEOREM TestsDeliveredInOrder == Spec => DeliveredInOrder
<1> DEFINE A == Popped =>
                  LET t == Head(ongoing)
                  IN  CASE t.kind = "load" -> applyTo(t.op, RespData(cresp)) = t.want
                        [] t.kind = "expect" ->
                             \A l \in mask(t.op) : RespData(cresp)[l] = t.data[l]
                        [] t.kind = "store" -> TRUE
<1>1. ASSUME CacheInOrder, TestInv, [Next]_vars PROVE [A]_vars
  <2> SUFFICES ASSUME Next, Popped PROVE A
    BY <1>1
  <2>1. ongoing \in Seq(Tasks) BY <1>1 DEF TestInv
  <2>2. Tick /\ DataOk(cresp)
    <3>1. ASSUME NEW op \in Operations, Submit(op) PROVE FALSE
      <4>1. Len(ongoing') = Len(ongoing) + 1 /\ Len(ongoing) \in Nat
        BY <2>1, <3>1 DEF Submit
      <4>2. QED BY <4>1 DEF Popped
    <3>2. ongoing' # ongoing
      <4>1. Len(ongoing) \in Nat BY <2>1
      <4>2. QED BY <4>1 DEF Popped
    <3>3. QED BY <3>1, <3>2 DEF Next, Call, Fence, Tick, Await
  <2>3. Queue = ongoing BY <1>1, <2>2, QueueType DEF Tick
  <2>4. PICK op \in Operations, p \in Memories :
          /\ Head(ongoing) = TaskAt(op, p)
          /\ op.kind # "store" => RespData(cresp) = p[op.at]
    BY <1>1, <2>2, <2>3, AnswerIs
  <2>5. TaskAt(op, p).kind = op.kind /\ op.kind \in {"load", "store", "expect"}
    BY TaskFacts, BenchAssumption
  <2>6. PICK t : t = Head(ongoing) OBVIOUS
  <2>7. /\ t.kind = op.kind
        /\ op.kind = "load" => applyTo(t.op, p[op.at]) = t.want
        /\ op.kind = "expect" => \A l \in mask(t.op) : p[op.at][l] = t.data[l]
    BY <2>4, <2>5, <2>6, TaskFinds
  <2>8. CASE op.kind = "store" BY <2>6, <2>7, <2>8
  <2>9. CASE op.kind = "load" BY <2>4, <2>6, <2>7, <2>9
  <2>10. CASE op.kind = "expect" BY <2>4, <2>6, <2>7, <2>10
  <2>11. QED BY <2>5, <2>8, <2>9, <2>10
<1>2. [][A]_vars <=> DeliveredInOrder BY DEF DeliveredInOrder
<1> HIDE DEF A
<1>3. QED BY <1>1, <1>2, InitInOrder, InitTests, TestStep, PTL DEF Spec

\* The comparison with the reference cache never fails, and it is the cache
\* under test that it vouches for: cache and reference cache replace different
\* lines and hold the same.
THEOREM ComparisonNeverFails == Spec => ReferenceAgrees
<1> DEFINE A == call # None /\ call' = None /\ call.kind = "load" =>
                  RespData(cresp) = Ref!LoadValue(ref, call.at)
<1>1. ASSUME CacheInOrder, TestInv, BenchInv, [Next]_vars PROVE [A]_vars
  <2> SUFFICES ASSUME Next, call # None, call' = None, call.kind = "load"
               PROVE  RespData(cresp) = Ref!LoadValue(ref, call.at)
    BY <1>1
  <2>1. Await /\ DataOk(cresp) BY DEF Next, Submit, Call, Fence, Tick, Await
  <2>2. Queue = <<call>> BY <1>1, QueueType
  <2>3. PICK op \in Operations, p \in Memories :
          /\ call = TaskAt(op, p)
          /\ op.kind # "store" => RespData(cresp) = p[op.at]
          /\ prog = After(p, op)
    BY <1>1, <2>1, <2>2, AnswerIs
  <2>4. op.kind = "load" /\ call.at = op.at /\ op.at \in MemAddr /\ prog = p
    BY <2>3, TaskFacts
  <2>5. RespData(cresp) = prog[call.at] BY <2>3, <2>4
  <2>6. PICK o \in Operations, q \in Memories :
          call.kind = o.kind /\ Agree(ref, q) /\ prog = After(q, o)
    BY <1>1 DEF BenchInv, Pending
  <2>7. Agree(ref, prog) BY <2>6 DEF After
  <2>8. Ref!LoadValue(ref, call.at) = prog[call.at]
    BY <2>4, <2>7, LoadAgrees, SameAddresses
  <2>9. QED BY <2>5, <2>8
<1>2. [][A]_vars <=> ReferenceAgrees BY DEF ReferenceAgrees
<1> HIDE DEF A
<1>3. QED BY <1>1, <1>2, InitInOrder, InitTests, InitBench, TestStep, StepBench, PTL DEF Spec
=============================================================================
