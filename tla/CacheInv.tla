------------------------------ MODULE CacheInv ------------------------------
(***************************************************************************)
(* The inductive invariant of CacheSystem: what holds between the          *)
(* registers, meta_ram, data_ram and the memory in each state of the       *)
(* machine.  CacheProofs proves it for every size of the cache.            *)
(***************************************************************************)
EXTENDS CacheSystem

Other(w) == 1 - w
SlotAddr(tag, s, o) == [tag |-> tag, set |-> s, word |-> o]

\* The metadata of a set at rest: an empty line carries the reset tag, a
\* full one a cached tag, and the two ways never hold the same line.
MetaOK(meta) ==
    /\ \A w \in Ways : IF meta.way[w].valid THEN meta.way[w].tag \in CachedTags
                                            ELSE meta.way[w].tag = ResetTag
    /\ meta.way[0].valid /\ meta.way[1].valid => meta.way[0].tag # meta.way[1].tag

SetsOK == \A s \in Sets : ~Refilling(s) => MetaOK(metaram[s])

At(st) == Cached /\ state = st

\* The metadata FETCH builds: the victim replaced by a clean copy.
Refilled ==
    [WithLine(metarecord, hit.way, FALSE, dreq.addr.tag)
        EXCEPT !.cnt = 1 - metarecord.cnt]

RecordOK == Cached /\ state # "COMPARETAG" => MetaOK(metarecord)

\* A miss: the request's line is in neither way.
Missed == ~hit.match /\ \A w \in Ways : metarecord.way[w].tag # dreq.addr.tag

\* The words of line tag written so far agree with memory.
CopiedUpTo(tag) ==
    \A o \in Offsets : o < index =>
        dataram[<<dreq.addr.set, hit.way, o>>] = mem[SlotAddr(tag, dreq.addr.set, o)]

WriteBackOK ==
    At("WRITEBACK") =>
        /\ Missed
        /\ metarecord = metaram[dreq.addr.set]
        /\ metarecord.way[hit.way].valid
        /\ CopiedUpTo(metarecord.way[hit.way].tag)

FetchOK ==
    At("FETCH") =>
        /\ Missed
        /\ CopiedUpTo(dreq.addr.tag)
        /\ index > 0 => metawrite = Refilled

FinalOK == At("FINAL") => ~hit.match /\ metaram[dreq.addr.set] = Refilled

ReadyOK ==
    At("READY") =>
        /\ metaread.way[hit.way].valid
        /\ metaread.way[hit.way].tag = dreq.addr.tag
        /\ IsStore =>
             /\ metawrite.way[hit.way] =
                  [valid |-> TRUE, dirty |-> TRUE, tag |-> dreq.addr.tag]
             /\ metawrite.way[Other(hit.way)] = metaread.way[Other(hit.way)]

\* Only a store is answered in WRITEREADY.
WriteReadyOK == At("WRITEREADY") => IsStore

\* Only hit.match left over from before the reset is ever stale, and then
\* the store strobe it lets through in COMPARETAG lands in an empty line.
StaleHitHarmless ==
    hit.match /\ ~(Cached /\ state \in {"READY", "WRITEREADY"}) =>
        \A s \in Sets, w \in Ways : ~metaram[s].way[w].valid

\* The beat counter of the memory is zero outside bursts: an uncached
\* transaction of one beat that began in the middle of a count would never
\* reach its last beat.
InBurst == Cached /\ state \in {"FETCH", "WRITEBACK"}
BeatOK  == ~InBurst => beat = 0

\* TypeOK without the answer the master has latched, on which nothing depends.
StateTyped ==
    /\ CacheTypeOK
    /\ mem \in [Addr -> Word]
    /\ beat \in Offsets
TypeInv == StateTyped /\ BeatOK

\* A step as the cache and the memory see it, whatever the master makes of the
\* answer.
Edge(cresp) ==
    /\ ClockEdge(cresp)
    /\ Memory(cresp)
    /\ DataOk(cresp) => dreq' \in NextRequests \cup {NoRequest}
    /\ ~DataOk(cresp) => IF dreq.valid THEN dreq' = dreq
                                        ELSE dreq' \in Requests \cup {NoRequest}

IInv ==
    /\ TypeInv
    /\ SetsOK
    /\ RecordOK
    /\ WriteBackOK
    /\ FetchOK
    /\ FinalOK
    /\ ReadyOK
    /\ WriteReadyOK
    /\ StaleHitHarmless
    /\ BurstInStep
    /\ CleanLineIsCopy
=============================================================================
