------------------------------ MODULE CacheRef ------------------------------
(***************************************************************************)
(* The reference cache the hardware is compared with: CacheRefModel of     *)
(* verilate/vsrc/VCacheTop/cache_ref.cpp, a write-back cache of two ways   *)
(* that answers at once.  Its whole state is one record, because store     *)
(* calls load and uses what it leaves.                                     *)
(***************************************************************************)
EXTENDS Words

CONSTANTS
    RefSets,        \* the values of addr / 128 % 8
    RefTags,        \* the values of addr / 1024
    LineWords

Ways    == {0, 1}
RefAddr == [tag : RefTags, set : RefSets, word : 0 .. LineWords - 1]
Lines   == RefSets \X Ways

VARIABLES
    ref,        \* the reference cache with its own memory
    prog        \* what a flat memory would hold: used by no code

\* A tag an empty line may carry: reset clears meta_tag to 0.
CONSTANT ZeroTag

RefType ==
    [cnt   : [RefSets -> Ways],
     valid : [Lines -> BOOLEAN], dirty : [Lines -> BOOLEAN],
     tag   : [Lines -> RefTags \cup {ZeroTag}],
     data  : [Lines \X (0 .. LineWords - 1) -> Word],
     mem   : [RefAddr -> Word]]

\* The constructor and reset leave cnt as they find it.
RefInit(memory) ==
    \E cnt \in [RefSets -> Ways] :
        ref = [cnt   |-> cnt,
               valid |-> [l \in Lines |-> FALSE], dirty |-> [l \in Lines |-> FALSE],
               tag   |-> [l \in Lines |-> ZeroTag],
               data  |-> [x \in Lines \X (0 .. LineWords - 1) |-> ZeroWord],
               mem   |-> memory]

Has(r, a, w) == r.valid[<<a.set, w>>] /\ r.tag[<<a.set, w>>] = a.tag

\* The code looks for an empty way at way 0 twice; an empty way 1 waits for cnt.
Victim(r, s) == IF ~r.valid[<<s, 0>>] THEN 0 ELSE r.cnt[s]

Bug_WrittenBack(r, l) == r.mem
\* Memory after a dirty victim has been written back, word by word.
WrittenBack(r, l) ==
    [b \in RefAddr |->
        IF r.dirty[l] /\ b.set = l[1] /\ b.tag = r.tag[l]
          THEN r.data[<<l, b.word>>]
          ELSE r.mem[b]]

\* CacheRefModel::load: the state it leaves, and the word it returns.
Replaced(r, a, l) ==
    [cnt   |-> [r.cnt EXCEPT ![a.set] = 1 - @],
     valid |-> [r.valid EXCEPT ![l] = TRUE],
     dirty |-> [r.dirty EXCEPT ![l] = FALSE],
     tag   |-> [r.tag EXCEPT ![l] = a.tag],
     data  |-> [x \in DOMAIN r.data |->
                  IF x[1] = l THEN WrittenBack(r, l)[[a EXCEPT !.word = x[2]]]
                              ELSE r.data[x]],
     mem   |-> WrittenBack(r, l)]
Loaded(r, a) ==
    IF \E w \in Ways : Has(r, a, w) THEN r
    ELSE Replaced(r, a, <<a.set, Victim(r, a.set)>>)

\* load asks way 0 first; the last match of store is way 1's.
HitLine(r, a)   == <<a.set, IF Has(r, a, 0) THEN 0 ELSE 1>>
StoreLine(r, a) == <<a.set, IF Has(r, a, 1) THEN 1 ELSE 0>>

LoadValue(r, a) == LET after == Loaded(r, a) IN after.data[<<HitLine(after, a), a.word>>]

Bug_Stored(r, a, s, d) ==
    LET after == Loaded(r, a)
    IN  [after EXCEPT !.data[<<StoreLine(after, a), a.word>>] = Merge(@, s, d)]
\* CacheRefModel::store loads the line first.
Stored(r, a, s, d) ==
    LET after == Loaded(r, a)
        l == StoreLine(after, a)
    IN  [after EXCEPT !.data[<<l, a.word>>] = Merge(@, s, d), !.dirty[l] = TRUE]

-----------------------------------------------------------------------------
\* One call of each kind, next to the flat memory.
RefLoad(a) == ref' = Loaded(ref, a) /\ UNCHANGED prog

RefStore(a, s, d) ==
    /\ ref' = Stored(ref, a, s, d)
    /\ prog' = [prog EXCEPT ![a] = Merge(@, s, d)]

-----------------------------------------------------------------------------
\* What the reference cache holds of an address: the cached copy if any.
RefValue(r, a) ==
    IF \E w \in Ways : Has(r, a, w) THEN r.data[<<HitLine(r, a), a.word>>] ELSE r.mem[a]

\* No line is in both ways and clean lines are copies of memory.
RefSound(r) ==
    /\ r \in RefType
    /\ \A s \in RefSets :
          r.valid[<<s, 0>>] /\ r.valid[<<s, 1>>] => r.tag[<<s, 0>>] # r.tag[<<s, 1>>]
    /\ \A l \in Lines : r.valid[l] => r.tag[l] \in RefTags
    /\ \A l \in Lines : r.dirty[l] => r.valid[l]
    /\ \A l \in Lines, o \in 0 .. LineWords - 1 :
          r.valid[l] /\ ~r.dirty[l] =>
            r.data[<<l, o>>] = r.mem[[tag |-> r.tag[l], set |-> l[1], word |-> o]]

\* Whatever it has evicted, and whichever way it started to replace in, the
\* reference cache holds what a flat memory would: it may be trusted with the
\* comparison although it looks for an empty way at way 0 twice
\* (cache_ref.cpp:69) and never sets cnt.
RefHoldsProgram == RefSound(ref) /\ \A a \in RefAddr : RefValue(ref, a) = prog[a]
=============================================================================
