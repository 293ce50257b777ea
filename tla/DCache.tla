------------------------------- MODULE DCache -------------------------------
(***************************************************************************)
(* The write-back, two-way set-associative cache of vsrc/cache/DCache.sv,  *)
(* one clock edge at a time.  This module is the component alone: its      *)
(* registers, its two RAMs and the signals it drives.  The request wire    *)
(* dreq is a variable some master sets; the response wire cresp of the     *)
(* memory side is a parameter of every step, because the real wire is      *)
(* combinational.  ICache.sv wraps the same cache and issues loads only.   *)
(*                                                                         *)
(* An address is the triple of fields the code slices out of it: the tag   *)
(* addr[63:10], the set ("hash") addr[9:7] and the word addr[6:3].  Bit 31 *)
(* is a bit of the tag, so "uncached" is a property of the tag.  A word is *)
(* a function from byte lanes to bytes and a strobe is a set of lanes.     *)
(***************************************************************************)
EXTENDS Words

CONSTANTS
    Sets,           \* the values of addr[9:7]
    CachedTags,     \* the tags with addr[31] = 1
    UncachedTags,   \* the tags with addr[31] = 0 some device answers to
    ResetTag,       \* the tag the reset writes into every line: 54 zero bits
    LineWords       \* the words of a line, 16 in the code

ASSUME LineAssumption == LineWords \in Nat /\ LineWords > 1
\* The tag comparison does not look at the valid bit, so the cache is right
\* only if no request carries the tag of an empty line.  Bit 31 keeps cached
\* addresses away from it; no device is mapped in the first 1 KiB.  An access
\* there, though uncached, would match an empty line, leave hit.match set, and
\* the next cached store would write into the data RAM while it is compared.
ASSUME TagAssumption ==
    /\ CachedTags \cap UncachedTags = {}
    /\ ResetTag \notin CachedTags \cup UncachedTags

Ways    == {0, 1}
Offsets == 0 .. (LineWords - 1)
Tags    == CachedTags \cup UncachedTags
Addr    == [tag : Tags, set : Sets, word : Offsets]

Slots    == Sets \X Ways \X Offsets       \* the addresses of data_ram

LineMeta == [valid : BOOLEAN, dirty : BOOLEAN, tag : Tags \cup {ResetTag}]
SetMeta  == [cnt : Ways, way : [Ways -> LineMeta]]
EmptyMeta ==
    [cnt |-> 0,
     way |-> [w \in Ways |-> [valid |-> FALSE, dirty |-> FALSE, tag |-> ResetTag]]]

\* A request on the DBus, and the wire when nothing is requested.
Request == [valid : {TRUE}, addr : Addr, strobe : SUBSET Lanes, data : Word]
NoRequest == [valid |-> FALSE]

States == {"COMPARETAG", "READY", "FETCH", "WRITEBACK", "FINAL", "WRITEREADY"}

VARIABLES
    dreq,         \* the request wire of the master
    state,
    hit,          \* [match, way]: hit[1] and hit[0] of the code
    index,        \* the word of the line a burst has got to
    metarecord,   \* the set's metadata as COMPARETAG saw it
    metawrite,    \* the register that feeds meta_ram's write port
    metaram,
    dataram

cachevars == <<state, hit, index, metarecord, metawrite, metaram, dataram>>

CacheTypeOK ==
    /\ dreq \in Request \cup {NoRequest}
    /\ state \in States
    /\ hit \in [match : BOOLEAN, way : Ways]
    /\ index \in Offsets
    /\ metarecord \in SetMeta
    /\ metawrite \in SetMeta
    /\ metaram \in [Sets -> SetMeta]
    /\ dataram \in [Slots -> Word]

\* The cache once the reset has cleared both RAMs.  The reset names neither
\* hit nor index nor metarecord: hit starts with anything, the other two are
\* written by COMPARETAG before they are read.
CacheInit ==
    /\ state = "COMPARETAG"
    /\ hit \in [match : BOOLEAN, way : Ways]
    /\ index = 0
    /\ metarecord = EmptyMeta
    /\ metawrite = EmptyMeta
    /\ metaram = [s \in Sets |-> EmptyMeta]
    /\ dataram = [slot \in Slots |-> ZeroWord]

-----------------------------------------------------------------------------
(* The signals.  All but Uncached and CBusValid are used only while dreq   *)
(* is valid.                                                               *)

Uncached == dreq.valid /\ dreq.addr.tag \in UncachedTags
Cached   == dreq.valid /\ dreq.addr.tag \notin UncachedTags
IsStore  == dreq.strobe # {}
metaread == metaram[dreq.addr.set]

DataSlot == <<dreq.addr.set, hit.way,
              IF state \in {"WRITEBACK", "FETCH"} THEN index ELSE dreq.addr.word>>
dataread == dataram[DataSlot]

DataOk(cresp) ==
    /\ dreq.valid
    /\ IF Uncached THEN cresp.ready
                   ELSE (state = "READY" /\ ~IsStore) \/ state = "WRITEREADY"
RespData(cresp) == IF Uncached THEN cresp.data ELSE dataread

CBusValid   == dreq.valid /\ (Uncached \/ state \in {"FETCH", "WRITEBACK"})
CBusIsWrite == IF Uncached THEN IsStore ELSE state = "WRITEBACK"
CBusLen     == IF Uncached THEN 1 ELSE LineWords
CBusStrobe  == IF Uncached THEN dreq.strobe ELSE Lanes
CBusData    == IF Uncached THEN dreq.data ELSE dataread
Bug_WriteBackToRequest ==
    IF Uncached THEN dreq.addr ELSE [dreq.addr EXCEPT !.word = 0]
Bug_AddrFollowsIndex ==
    IF Uncached THEN dreq.addr
    ELSE IF state = "WRITEBACK"
      THEN [tag |-> metarecord.way[hit.way].tag, set |-> dreq.addr.set, word |-> index]
      ELSE [dreq.addr EXCEPT !.word = index]
CBusAddr ==
    IF Uncached THEN dreq.addr
    ELSE IF state = "WRITEBACK"
      THEN [tag |-> metarecord.way[hit.way].tag, set |-> dreq.addr.set, word |-> 0]
      ELSE [dreq.addr EXCEPT !.word = 0]
\* What the bus wants held still for a whole transaction.
CBusRequest == [valid |-> CBusValid, write |-> CBusIsWrite, addr |-> CBusAddr,
                len |-> CBusLen]

-----------------------------------------------------------------------------
(* The write ports of the two RAMs.  Neither is enabled for an uncached    *)
(* request.                                                                *)

Bug_LoadStrobesMeta == state \in {"FETCH", "READY"}
MetaStrobe == state = "FETCH" \/ (state = "READY" /\ IsStore)

DataStrobe ==
    CASE state = "FETCH" -> Lanes
      [] \/ state \in {"COMPARETAG", "READY"} /\ hit.match
         \/ state = "FINAL"                -> dreq.strobe
      [] OTHER -> {}
DataWrite(cresp) == IF state = "FETCH" THEN cresp.data ELSE dreq.data

RamEdge(cresp) ==
    /\ metaram' = IF Cached /\ MetaStrobe
                    THEN [metaram EXCEPT ![dreq.addr.set] = metawrite]
                    ELSE metaram
    /\ dataram' = IF Cached
                    THEN [dataram EXCEPT ![DataSlot] =
                             Merge(@, DataStrobe, DataWrite(cresp))]
                    ELSE dataram

-----------------------------------------------------------------------------
(* The state machine, one action per state.                                *)

\* The metadata of a set in which one way has been replaced.
WithLine(meta, w, dirty, tag) ==
    [meta EXCEPT !.way[w] = [valid |-> TRUE, dirty |-> dirty, tag |-> tag]]

Idle ==
    /\ ~dreq.valid
    /\ state' = "COMPARETAG"
    /\ UNCHANGED <<hit, index, metarecord, metawrite>>

Bug_MatchesFirstOnly(w) == w = 0 /\ metaread.way[w].tag = dreq.addr.tag
Matches(w) == metaread.way[w].tag = dreq.addr.tag

CompareHit ==
    /\ dreq.valid /\ state = "COMPARETAG"
    /\ \E w \in Ways :
         /\ Matches(w) /\ \A v \in Ways : v < w => ~Matches(v)
         /\ hit' = [match |-> TRUE, way |-> w]
         /\ metawrite' = IF IsStore
                           THEN WithLine(metaread, w, TRUE, metaread.way[w].tag)
                           ELSE metawrite
    /\ state' = "READY"
    /\ index' = 0
    /\ metarecord' = metaread

\* The way a miss will use: the first empty one, else the one cnt points to.
FreeWay ==
    IF      ~metaread.way[0].valid THEN 0
    ELSE IF ~metaread.way[1].valid THEN 1
    ELSE metaread.cnt
SetFull == metaread.way[0].valid /\ metaread.way[1].valid

CompareMiss ==
    /\ dreq.valid /\ state = "COMPARETAG"
    /\ \A w \in Ways : ~Matches(w)
    /\ hit' = [match |-> FALSE, way |-> FreeWay]
    /\ state' = IF SetFull /\ metaread.way[FreeWay].dirty THEN "WRITEBACK" ELSE "FETCH"
    /\ metawrite' = IF IsStore THEN [metawrite EXCEPT !.cnt = metaread.cnt]
                               ELSE metawrite
    /\ index' = 0
    /\ metarecord' = metaread

Bug_IndexNotReset(cresp) == IF cresp.ready THEN index + 1 ELSE index
Bug_IndexEveryCycle(cresp) == IF cresp.last THEN 0 ELSE (index + 1) % LineWords
\* The word counter of a burst: 4 bits wide in the code.
NextIndex(cresp) ==
    IF cresp.last THEN 0
    ELSE IF cresp.ready THEN (index + 1) % LineWords
    ELSE index

WriteBack(cresp) ==
    /\ dreq.valid /\ state = "WRITEBACK"
    /\ state' = IF cresp.last THEN "FETCH" ELSE "WRITEBACK"
    /\ index' = NextIndex(cresp)
    /\ UNCHANGED <<hit, metarecord, metawrite>>

Fetch(cresp) ==
    /\ dreq.valid /\ state = "FETCH"
    /\ metawrite' = [WithLine(metarecord, hit.way, FALSE, dreq.addr.tag)
                        EXCEPT !.cnt = 1 - metarecord.cnt]
    /\ state' = IF cresp.last THEN "FINAL" ELSE "FETCH"
    /\ index' = NextIndex(cresp)
    /\ UNCHANGED <<hit, metarecord>>

Bug_StoreLeavesClean ==
    [WithLine(metarecord, hit.way, FALSE, metaread.way[hit.way].tag)
        EXCEPT !.cnt = metawrite.cnt]
\* The code keeps metawrite.cnt here and in READY and takes the other way
\* from metarecord, the hit way's tag from the RAM.
DirtyLine ==
    [WithLine(metarecord, hit.way, TRUE, metaread.way[hit.way].tag)
        EXCEPT !.cnt = metawrite.cnt]

Final ==
    /\ dreq.valid /\ state = "FINAL"
    /\ index' = 0
    /\ state' = "READY"
    /\ metawrite' = IF IsStore THEN DirtyLine ELSE metawrite
    /\ UNCHANGED <<hit, metarecord>>

Bug_StoreNotAnswered ==
    /\ dreq.valid /\ state = "READY"
    /\ state' = "COMPARETAG"
    /\ hit' = [match |-> FALSE, way |-> 0]
    /\ UNCHANGED <<index, metarecord, metawrite>>

Ready ==
    /\ dreq.valid /\ state = "READY"
    /\ IF IsStore
         THEN /\ state' = "WRITEREADY"
              /\ UNCHANGED <<hit, metawrite>>
         ELSE /\ state' = "COMPARETAG"
              /\ hit' = [match |-> FALSE, way |-> 0]
              /\ metawrite' = DirtyLine
    /\ UNCHANGED <<index, metarecord>>

WriteReady ==
    /\ dreq.valid /\ state = "WRITEREADY"
    /\ state' = "COMPARETAG"
    /\ hit' = [match |-> FALSE, way |-> 0]
    /\ UNCHANGED <<index, metarecord, metawrite>>

\* One rising edge of the clock.
ClockEdge(cresp) ==
    /\ RamEdge(cresp)
    /\ \/ Idle
       \/ CompareHit
       \/ CompareMiss
       \/ WriteBack(cresp)
       \/ Fetch(cresp)
       \/ Final
       \/ Ready
       \/ WriteReady
=============================================================================
