---------------------------- MODULE CacheProofs -----------------------------
(* Machine-checked facts about CacheSystem, for every value of its          *)
(* constants.                                                               *)
EXTENDS CacheInv, TLAPS

-----------------------------------------------------------------------------
(* The operators.                                                          *)

\* A write under a strobe leaves a word of the RAM a word.
LEMMA MergeIsWord ==
    ASSUME NEW old \in Word, NEW new \in Word, NEW strobe
    PROVE  Merge(old, strobe, new) \in Word
BY DEF Word, Merge

\* The word of zero bytes is a word.
LEMMA ZeroWordIsWord == ZeroWord \in Word
BY ByteAssumption DEF ZeroWord, Word

\* A line has a first word.
LEMMA ZeroIsOffset == 0 \in Offsets
BY LineAssumption DEF Offsets

\* Replacing a line leaves the metadata of a set well formed.
LEMMA WithLineIsSetMeta ==
    ASSUME NEW meta \in SetMeta, NEW w \in Ways, NEW dirty \in BOOLEAN,
           NEW tag \in Tags \cup {ResetTag}
    PROVE  WithLine(meta, w, dirty, tag) \in SetMeta
BY DEF WithLine, SetMeta, LineMeta

\* The fields of a request that is being made.
LEMMA RequestFields ==
    ASSUME dreq \in Request \cup {NoRequest}, dreq.valid
    PROVE  /\ dreq \in Request
           /\ dreq.addr \in Addr
           /\ dreq.addr.tag \in Tags
           /\ dreq.addr.set \in Sets
           /\ dreq.addr.word \in Offsets
           /\ dreq.data \in Word
           /\ dreq.strobe \in SUBSET Lanes
<1>1. dreq # NoRequest  BY DEF NoRequest
<1>2. dreq \in Request  BY <1>1
<1> QED  BY <1>2 DEF Request, Addr

\* What the cache reads from its RAMs for a request.
LEMMA ReadsTyped ==
    ASSUME CacheTypeOK, dreq.valid
    PROVE  /\ metaread \in SetMeta
           /\ hit.way \in Ways
           /\ hit.match \in BOOLEAN
           /\ DataSlot \in Slots
           /\ dataread \in Word
<1>1. dreq.addr.set \in Sets /\ dreq.addr.word \in Offsets
  BY RequestFields DEF CacheTypeOK
<1>2. metaread \in SetMeta  BY <1>1 DEF CacheTypeOK, metaread
<1>3. hit.way \in Ways /\ hit.match \in BOOLEAN  BY DEF CacheTypeOK
<1>4. DataSlot \in Slots  BY <1>1, <1>3 DEF CacheTypeOK, DataSlot, Slots
<1> QED  BY <1>2, <1>3, <1>4 DEF CacheTypeOK, dataread

\* What FINAL and READY put into metawrite is the metadata of a set.
LEMMA DirtyLineIsSetMeta ==
    ASSUME CacheTypeOK, dreq.valid
    PROVE  DirtyLine \in SetMeta
<1>1. metaread.way[hit.way].tag \in Tags \cup {ResetTag}
  BY ReadsTyped DEF SetMeta, LineMeta
<1>2. WithLine(metarecord, hit.way, TRUE, metaread.way[hit.way].tag) \in SetMeta
  BY <1>1, ReadsTyped, WithLineIsSetMeta DEF CacheTypeOK
<1>3. metawrite.cnt \in Ways  BY DEF CacheTypeOK, SetMeta
<1> QED  BY <1>2, <1>3 DEF DirtyLine, SetMeta

\* The word counter stays inside the line.
LEMMA NextIndexIsOffset ==
    ASSUME index \in Offsets, NEW cresp
    PROVE  NextIndex(cresp) \in Offsets
BY LineAssumption, ZeroIsOffset DEF NextIndex, Offsets

-----------------------------------------------------------------------------
(* Type correctness.                                                       *)

\* Every response of the memory is a response.
LEMMA ResponseTyped ==
    ASSUME StateTyped, NEW cresp \in Responses
    PROVE  /\ cresp \in Response
           /\ cresp.ready => CBusValid
           /\ cresp.last <=> (cresp.ready /\ LastBeat)
<1>1. CASE cresp \in NotReady
  <2>1. PICK d \in Word : cresp = [ready |-> FALSE, last |-> FALSE, data |-> d]
    BY <1>1 DEF NotReady
  <2> QED  BY <2>1 DEF Response
<1>2. CASE CBusValid /\ cresp \in Beat
  <2>1. CASE CBusIsWrite
    <3>1. PICK d \in Word : cresp = [ready |-> TRUE, last |-> LastBeat, data |-> d]
      BY <1>2, <2>1 DEF Beat
    <3> QED  BY <1>2, <3>1 DEF Response, LastBeat
  <2>2. CASE ~CBusIsWrite
    <3>1. dreq.valid  BY <1>2 DEF CBusValid
    <3>2. dreq.addr \in Addr  BY <3>1, RequestFields DEF StateTyped, CacheTypeOK
    <3>3. CBusAddr = IF Uncached THEN dreq.addr ELSE [dreq.addr EXCEPT !.word = 0]
      <4>1. CASE Uncached
        BY <4>1 DEF CBusAddr
      <4>2. CASE ~Uncached
        <5>1. state # "WRITEBACK"  BY <2>2, <4>2 DEF CBusIsWrite
        <5> QED  BY <4>2, <5>1 DEF CBusAddr
      <4> QED  BY <4>1, <4>2
    <3>4. CBusAddr \in Addr  BY <3>2, <3>3, ZeroIsOffset DEF Addr
    <3>5. (CBusAddr.word + beat) % LineWords \in Offsets
      BY <3>4, LineAssumption DEF Addr, Offsets, StateTyped
    <3>6. BeatAddr \in Addr  BY <3>4, <3>5 DEF BeatAddr, Addr
    <3>7. mem[BeatAddr] \in Word  BY <3>6 DEF StateTyped
    <3>8. cresp = [ready |-> TRUE, last |-> LastBeat, data |-> mem[BeatAddr]]
      BY <1>2, <2>2 DEF Beat
    <3> QED  BY <1>2, <3>7, <3>8 DEF Response, LastBeat
  <2> QED  BY <2>1, <2>2
<1> QED  BY <1>1, <1>2 DEF Responses

\* The write ports keep metadata in meta_ram and words in data_ram.
LEMMA RamEdgeTyped ==
    ASSUME CacheTypeOK, NEW cresp \in Response, RamEdge(cresp)
    PROVE  metaram' \in [Sets -> SetMeta] /\ dataram' \in [Slots -> Word]
<1>1. metaram' \in [Sets -> SetMeta]
  BY RequestFields DEF CacheTypeOK, RamEdge
<1>2. CASE Cached
  <2>1. dreq.valid  BY <1>2 DEF Cached
  <2>2. DataWrite(cresp) \in Word
    BY <2>1, RequestFields DEF CacheTypeOK, DataWrite, Response
  <2>3. dataram[DataSlot] \in Word  BY <2>1, ReadsTyped DEF dataread
  <2>4. Merge(dataram[DataSlot], DataStrobe, DataWrite(cresp)) \in Word
    BY <2>2, <2>3, MergeIsWord
  <2>5. dataram' = [dataram EXCEPT ![DataSlot] =
                       Merge(dataram[DataSlot], DataStrobe, DataWrite(cresp))]
    BY <1>2 DEF RamEdge
  <2> QED  BY <1>1, <2>4, <2>5 DEF CacheTypeOK
<1>3. CASE ~Cached
  BY <1>1, <1>3 DEF RamEdge, CacheTypeOK
<1> QED  BY <1>2, <1>3

\* One lemma for the registers of the cache, one step per action.
LEMMA RegistersTyped ==
    ASSUME CacheTypeOK, NEW cresp \in Response, ClockEdge(cresp)
    PROVE  /\ state' \in States
           /\ hit' \in [match : BOOLEAN, way : Ways]
           /\ index' \in Offsets
           /\ metarecord' \in SetMeta
           /\ metawrite' \in SetMeta
<1> USE ZeroIsOffset DEF States
<1>1. CASE Idle
  BY <1>1 DEF Idle, CacheTypeOK
<1>2. CASE CompareHit
  <2>1. PICK w \in Ways :
          /\ hit' = [match |-> TRUE, way |-> w]
          /\ metawrite' = IF IsStore
                            THEN WithLine(metaread, w, TRUE, metaread.way[w].tag)
                            ELSE metawrite
    BY <1>2 DEF CompareHit
  <2>2. metaread \in SetMeta  BY <1>2, ReadsTyped DEF CompareHit
  <2>3. metaread.way[w].tag \in Tags \cup {ResetTag}
    BY <2>2 DEF SetMeta, LineMeta
  <2>4. metawrite' \in SetMeta
    BY <2>1, <2>2, <2>3, WithLineIsSetMeta DEF CacheTypeOK
  <2>5. hit' \in [match : BOOLEAN, way : Ways]  BY <2>1
  <2> QED  BY <1>2, <2>2, <2>4, <2>5 DEF CompareHit
<1>3. CASE CompareMiss
  <2>1. metaread \in SetMeta  BY <1>3, ReadsTyped DEF CompareMiss
  <2>2. FreeWay \in Ways  BY <2>1 DEF FreeWay, SetMeta, Ways
  <2>3. hit' \in [match : BOOLEAN, way : Ways]  BY <1>3, <2>2 DEF CompareMiss
  <2>4. metawrite' \in SetMeta
    BY <1>3, <2>1 DEF CompareMiss, CacheTypeOK, SetMeta
  <2> QED  BY <1>3, <2>1, <2>3, <2>4 DEF CompareMiss
<1>4. CASE WriteBack(cresp)
  BY <1>4, NextIndexIsOffset DEF WriteBack, CacheTypeOK
<1>5. CASE Fetch(cresp)
  <2>1. hit.way \in Ways /\ dreq.addr.tag \in Tags
    BY <1>5, ReadsTyped, RequestFields DEF Fetch, CacheTypeOK
  <2>2. WithLine(metarecord, hit.way, FALSE, dreq.addr.tag) \in SetMeta
    BY <2>1, WithLineIsSetMeta DEF CacheTypeOK
  <2>3. metarecord.cnt \in Ways  BY DEF CacheTypeOK, SetMeta
  <2>4. 1 - metarecord.cnt \in Ways  BY <2>3 DEF Ways
  <2>5. metawrite' \in SetMeta  BY <1>5, <2>2, <2>4 DEF Fetch, SetMeta
  <2> QED  BY <1>5, <2>5, NextIndexIsOffset DEF Fetch, CacheTypeOK
<1>6. CASE Final
  BY <1>6, DirtyLineIsSetMeta DEF Final, CacheTypeOK
<1>7. CASE Ready
  <2>1. 0 \in Ways  BY DEF Ways
  <2>2. CASE IsStore
    BY <1>7, <2>2 DEF Ready, CacheTypeOK
  <2>3. CASE ~IsStore
    <3>1. /\ dreq.valid
          /\ state' = "COMPARETAG"
          /\ hit' = [match |-> FALSE, way |-> 0]
          /\ metawrite' = DirtyLine
          /\ UNCHANGED <<index, metarecord>>
      BY <1>7, <2>3 DEF Ready
    <3>2. DirtyLine \in SetMeta  BY <3>1, DirtyLineIsSetMeta
    <3> QED  BY <3>1, <3>2, <2>1 DEF CacheTypeOK
  <2> QED  BY <2>2, <2>3
<1>8. CASE WriteReady
  <2>1. 0 \in Ways  BY DEF Ways
  <2> QED  BY <1>8, <2>1 DEF WriteReady, CacheTypeOK
<1> QED
  BY <1>1, <1>2, <1>3, <1>4, <1>5, <1>6, <1>7, <1>8 DEF ClockEdge

\* A beat changes one word of the memory at most, and to a word.
LEMMA MemoryTyped ==
    ASSUME TypeInv, NEW cresp \in Responses, Memory(cresp)
    PROVE  mem' \in [Addr -> Word] /\ beat' \in Offsets
<1>1. /\ cresp \in Response
      /\ cresp.ready => CBusValid
      /\ cresp.last <=> (cresp.ready /\ LastBeat)
  BY ResponseTyped DEF TypeInv
<1>2. CASE ~cresp.ready
  BY <1>2 DEF Memory, TypeInv, StateTyped
<1>3. CASE cresp.ready
  <2>1. dreq.valid  BY <1>1, <1>3 DEF CBusValid
  <2>2. CBusData \in Word
    BY <2>1, ReadsTyped, RequestFields DEF TypeInv, StateTyped, CacheTypeOK, CBusData
  <2>3. mem' \in [Addr -> Word]
    <3>1. CASE CBusIsWrite
      <4>1. mem' = [mem EXCEPT ![BeatAddr] = Merge(mem[BeatAddr], CBusStrobe, CBusData)]
        BY <1>3, <3>1 DEF Memory
      <4>2. BeatAddr \in Addr => mem[BeatAddr] \in Word
        BY DEF TypeInv, StateTyped
      <4>3. BeatAddr \in Addr => Merge(mem[BeatAddr], CBusStrobe, CBusData) \in Word
        BY <2>2, <4>2, MergeIsWord
      <4> QED  BY <4>1, <4>3 DEF TypeInv, StateTyped
    <3>2. CASE ~CBusIsWrite
      BY <1>3, <3>2 DEF Memory, TypeInv, StateTyped
    <3> QED  BY <3>1, <3>2
  <2>4. CASE Uncached
    <3>1. beat = 0  BY <2>4 DEF TypeInv, BeatOK, InBurst, Uncached, Cached
    <3>2. cresp.last  BY <1>1, <1>3, <2>4, <3>1 DEF LastBeat, CBusLen
    <3> QED  BY <1>3, <2>3, <3>2, ZeroIsOffset DEF Memory
  <2>5. CASE ~Uncached
    <3>1. LastBeat <=> beat = LineWords - 1  BY <2>5 DEF LastBeat, CBusLen
    <3>2. beat \in Offsets  BY DEF TypeInv, StateTyped
    <3>3. CASE cresp.last
      BY <1>3, <2>3, <3>3, ZeroIsOffset DEF Memory
    <3>4. CASE ~cresp.last
      <4>1. beat' = beat + 1  BY <1>3, <3>4 DEF Memory
      <4>2. beat # LineWords - 1  BY <1>1, <1>3, <3>1, <3>4
      <4> QED  BY <2>3, <3>2, <4>1, <4>2, LineAssumption DEF Offsets
    <3> QED  BY <3>3, <3>4
  <2> QED  BY <2>4, <2>5
<1> QED  BY <1>2, <1>3

\* The request on the wire is typed.
LEMMA RequestTyped ==
    ASSUME StateTyped, NEW cresp, Edge(cresp)
    PROVE  dreq' \in Request \cup {NoRequest}
<1>1. dreq' = dreq \/ dreq' \in Requests \cup {NoRequest}
  BY DEF Edge, NextRequests
<1> QED  BY <1>1, EnvironmentAssumption DEF StateTyped, CacheTypeOK

\* A clock edge outside a burst, or one that ends a burst, leaves beat at 0.
LEMMA BeatStepOK ==
    ASSUME TypeInv, NEW cresp \in Responses, Edge(cresp)
    PROVE  BeatOK'
<1>1. /\ cresp \in Response
      /\ cresp.ready => CBusValid
      /\ cresp.last <=> (cresp.ready /\ LastBeat)
  BY ResponseTyped DEF TypeInv
<1>2. CASE ~InBurst
  <2>1. beat = 0  BY <1>2 DEF TypeInv, BeatOK
  <2>2. cresp.ready => Uncached
    BY <1>1, <1>2 DEF CBusValid, InBurst, Cached, Uncached
  <2>3. cresp.ready => cresp.last
    BY <1>1, <2>1, <2>2 DEF LastBeat, CBusLen
  <2> QED  BY <2>1, <2>3 DEF Edge, Memory, BeatOK
<1>3. CASE InBurst
  <2>1. ~Uncached /\ dreq.valid  BY <1>3 DEF InBurst, Cached, Uncached
  <2>2. ~DataOk(cresp)  BY <1>3, <2>1 DEF InBurst, DataOk
  <2>3. dreq' = dreq  BY <2>1, <2>2 DEF Edge
  <2>4. CASE cresp.last
    BY <1>1, <2>4 DEF Edge, Memory, BeatOK
  <2>5. CASE ~cresp.last
    <3>1. state' = state
      BY <1>3, <2>5 DEF InBurst, Cached, Edge, ClockEdge, Idle, CompareHit, CompareMiss,
                        WriteBack, Fetch, Final, Ready, WriteReady
    <3> QED  BY <1>3, <2>3, <3>1 DEF InBurst, Cached, BeatOK
  <2> QED  BY <2>4, <2>5
<1> QED  BY <1>2, <1>3

\* The first state is typed.
LEMMA TypeInvInit == Init => TypeInv
<1> SUFFICES ASSUME Init PROVE TypeInv
  OBVIOUS
<1>1. EmptyMeta \in SetMeta  BY DEF EmptyMeta, SetMeta, LineMeta, Ways
<1>2. CacheTypeOK
  BY <1>1, ZeroIsOffset, ZeroWordIsWord DEF Init, CacheInit, CacheTypeOK, States
<1> QED
  BY <1>2, ZeroIsOffset, EnvironmentAssumption DEF Init, TypeInv, StateTyped, BeatOK

\* Every clock edge keeps the types and the beat counter.
LEMMA TypeInvStep ==
    ASSUME TypeInv, NEW cresp \in Responses, Edge(cresp)
    PROVE  TypeInv'
<1>1. cresp \in Response  BY ResponseTyped DEF TypeInv
<1>2. CacheTypeOK'
  BY <1>1, RamEdgeTyped, RegistersTyped, RequestTyped
     DEF TypeInv, StateTyped, CacheTypeOK, Edge, ClockEdge
<1> QED
  BY <1>1, <1>2, MemoryTyped, BeatStepOK DEF TypeInv, StateTyped, Edge

\* A step that changes nothing keeps them.
LEMMA TypeInvStutter ==
    ASSUME TypeInv, UNCHANGED <<dreq, cachevars, mem, beat>>
    PROVE  TypeInv'
BY DEF cachevars, TypeInv, StateTyped, CacheTypeOK, BeatOK, InBurst, Cached

\* A step of the system is an edge, and its answer is typed.
LEMMA StepIsEdge ==
    ASSUME NEW cresp, Step(cresp)
    PROVE  Edge(cresp)
BY DEF Step, Edge, Master

LEMMA AnswerTyped ==
    ASSUME TypeOK, NEW cresp \in Response, Step(cresp)
    PROVE  rsp' \in [ok : BOOLEAN, data : Word]
<1>1. CASE DataOk(cresp)
  <2>1. dreq.valid  BY <1>1 DEF DataOk
  <2>2. RespData(cresp) \in Word
    BY <2>1, ReadsTyped DEF TypeOK, RespData, Response
  <2>3. rsp' = [ok |-> TRUE, data |-> IF IsStore THEN ZeroWord ELSE RespData(cresp)]
    BY <1>1 DEF Step, Master
  <2> QED  BY <2>2, <2>3, ZeroWordIsWord
<1>2. CASE ~DataOk(cresp)
  <2>1. rsp' = NoAnswer  BY <1>2 DEF Step, Master
  <2> QED  BY <2>1, ZeroWordIsWord DEF NoAnswer
<1> QED  BY <1>1, <1>2

\* Every state of the cache, the memory and the master is well typed: in
\* particular no burst counter leaves the line (DCache.sv:239, 266).
THEOREM TypeCorrect == Spec => []TypeOK
<1>1. Init => TypeOK /\ TypeInv
  BY TypeInvInit, ZeroWordIsWord DEF Init, TypeOK, TypeInv, StateTyped, NoAnswer
<1>2. TypeOK /\ TypeInv /\ [Next]_vars => TypeOK' /\ TypeInv'
  <2> SUFFICES ASSUME TypeOK, TypeInv, [Next]_vars PROVE TypeOK' /\ TypeInv'
    OBVIOUS
  <2>1. ASSUME NEW cresp \in Responses, Step(cresp) PROVE TypeOK' /\ TypeInv'
    <3>1. TypeInv'  BY <2>1, StepIsEdge, TypeInvStep
    <3>2. cresp \in Response  BY <2>1, ResponseTyped DEF TypeInv
    <3> QED  BY <2>1, <3>1, <3>2, AnswerTyped DEF TypeOK, TypeInv, StateTyped
  <2>2. ASSUME UNCHANGED vars PROVE TypeOK' /\ TypeInv'
    <3>1. TypeInv'  BY <2>2, TypeInvStutter DEF vars, cachevars
    <3> QED  BY <2>2, <3>1 DEF vars, TypeOK, TypeInv, StateTyped
  <2> QED  BY <2>1, <2>2 DEF Next
<1> QED  BY <1>1, <1>2, PTL DEF Spec

-----------------------------------------------------------------------------
(* The inductive invariant, one lemma per action.                          *)

\* A write under no strobe changes nothing.
LEMMA MergeNone ==
    ASSUME NEW old \in Word, NEW new
    PROVE  Merge(old, {}, new) = old
BY DEF Merge, Word

\* A write under every strobe replaces the word.
LEMMA MergeAll ==
    ASSUME NEW old, NEW new \in Word
    PROVE  Merge(old, Lanes, new) = new
BY DEF Merge, Word

\* An offset is its own remainder.
LEMMA SmallMod ==
    ASSUME NEW n \in Nat, n < LineWords
    PROVE  n % LineWords = n
BY LineAssumption

\* A request to cached memory.
LEMMA CachedFields ==
    ASSUME TypeInv, Cached
    PROVE  /\ dreq.valid
           /\ ~Uncached
           /\ dreq.addr \in Addr
           /\ dreq.addr.set \in Sets
           /\ dreq.addr.word \in Offsets
           /\ dreq.addr.tag \in CachedTags
           /\ dreq.addr.tag # ResetTag
           /\ hit.way \in Ways
           /\ metaram[dreq.addr.set] \in SetMeta
<1>1. dreq.valid /\ ~Uncached  BY DEF Cached, Uncached
<1>2. /\ dreq.addr \in Addr
      /\ dreq.addr.set \in Sets
      /\ dreq.addr.word \in Offsets
      /\ dreq.addr.tag \in Tags
  BY <1>1, RequestFields DEF TypeInv, StateTyped, CacheTypeOK
<1>3. dreq.addr.tag \in CachedTags /\ dreq.addr.tag # ResetTag
  BY <1>2, TagAssumption DEF Cached, Tags
<1> QED  BY <1>1, <1>2, <1>3 DEF TypeInv, StateTyped, CacheTypeOK

\* With no request on the cache bus the memory stands still.
LEMMA QuietBus ==
    ASSUME TypeInv, ~CBusValid, NEW cresp \in Responses, Edge(cresp)
    PROVE  UNCHANGED <<mem, beat>> /\ ~cresp.ready /\ ~cresp.last
<1>1. (cresp.ready => CBusValid) /\ (cresp.last <=> (cresp.ready /\ LastBeat))
  BY ResponseTyped DEF TypeInv
<1> QED  BY <1>1 DEF Edge, Memory

\* An unanswered request stays on the wire.
LEMMA HeldRequest ==
    ASSUME dreq.valid, NEW cresp, ~DataOk(cresp), Edge(cresp)
    PROVE  dreq' = dreq
BY DEF Edge

\* An idle wire or an uncached request, in whatever state it finds the
\* machine: the RAMs do not change, and no cached request can follow except
\* in COMPARETAG.
LEMMA NotCachedEdge ==
    ASSUME IInv, NEW cresp \in Responses, Edge(cresp), ~Cached
    PROVE  /\ UNCHANGED <<metaram, dataram>>
           /\ Cached' => state' = "COMPARETAG"
           /\ \A s \in Sets : ~Refilling(s) /\ ~Refilling(s)' /\ MetaOK(metaram[s])
<1>1. metaram' = metaram /\ dataram' = dataram
  BY DEF Edge, ClockEdge, RamEdge
<1>2. Cached' => state' = "COMPARETAG"
  <2>1. CASE ~dreq.valid
    BY <2>1 DEF Edge, ClockEdge, Idle, CompareHit, CompareMiss, WriteBack, Fetch,
                Final, Ready, WriteReady
  <2>2. CASE dreq.valid
    <3>1. Uncached  BY <2>2 DEF Cached, Uncached
    <3>2. CASE DataOk(cresp)
      <4>1. dreq' = NoRequest \/ dreq'.addr.tag \in UncachedTags
        BY <3>1, <3>2 DEF Edge, NextRequests
      <4> QED  BY <4>1 DEF Cached, NoRequest
    <3>3. CASE ~DataOk(cresp)
      BY <2>2, <3>3, HeldRequest DEF Cached
    <3> QED  BY <3>2, <3>3
  <2> QED  BY <2>1, <2>2
<1>3. \A s \in Sets : ~Refilling(s) /\ ~Refilling(s)'
  BY <1>2 DEF Refilling
<1> QED  BY <1>1, <1>2, <1>3 DEF IInv, SetsOK

\* So IInv survives: memory changes only at an uncached address.
LEMMA NotCachedStep ==
    ASSUME IInv, NEW cresp \in Responses, Edge(cresp), ~Cached
    PROVE  IInv'
<1>1. TypeInv'  BY TypeInvStep DEF IInv
<1>2. metaram' = metaram /\ dataram' = dataram  BY NotCachedEdge
<1>3. Cached' => state' = "COMPARETAG"  BY NotCachedEdge
<1>4. \A s \in Sets : ~Refilling(s) /\ ~Refilling(s)'  BY NotCachedEdge
<1>5. \A s \in Sets : MetaOK(metaram[s])  BY NotCachedEdge
<1>6. SetsOK'
  BY <1>2, <1>5 DEF SetsOK, MetaOK
<1>7. StaleHitHarmless'
  <2>1. CASE \A s \in Sets, w \in Ways : ~metaram[s].way[w].valid
    BY <1>2, <2>1 DEF StaleHitHarmless
  <2>2. CASE ~hit.match
    <3>1. ~CompareHit
      <4> SUFFICES ASSUME CompareHit PROVE FALSE
        OBVIOUS
      <4>1. Uncached /\ dreq.valid  BY DEF CompareHit, Cached, Uncached
      <4>2. dreq.addr.tag \in UncachedTags /\ dreq.addr.set \in Sets
        BY <4>1, RequestFields DEF Uncached, IInv, TypeInv, StateTyped, CacheTypeOK
      <4>3. PICK w \in Ways : metaram[dreq.addr.set].way[w].tag = dreq.addr.tag
        BY DEF CompareHit, Matches, metaread
      <4>4. metaram[dreq.addr.set].way[w].tag \in CachedTags \cup {ResetTag}
        BY <1>5, <4>2 DEF MetaOK
      <4> QED  BY <4>2, <4>3, <4>4, TagAssumption
    <3>2. \/ hit' = hit
          \/ hit' = [match |-> FALSE, way |-> 0]
          \/ hit' = [match |-> FALSE, way |-> FreeWay]
      BY <3>1 DEF Edge, ClockEdge, Idle, CompareMiss, WriteBack, Fetch, Final,
                  Ready, WriteReady
    <3>3. ~hit'.match  BY <2>2, <3>2
    <3> QED  BY <3>3 DEF StaleHitHarmless
  <2> QED  BY <2>1, <2>2 DEF IInv, StaleHitHarmless
<1>8. BurstInStep'
  BY <1>3 DEF BurstInStep, CBusValid, Cached, Uncached
<1>9. CleanLineIsCopy'
  <2>1. \A s \in Sets, w \in Ways :
          metaram[s].way[w].valid => metaram[s].way[w].tag \in CachedTags
    BY <1>5 DEF MetaOK
  <2>2. \A s \in Sets, w \in Ways, o \in Offsets :
          metaram[s].way[w].valid /\ ~metaram[s].way[w].dirty =>
            dataram[<<s, w, o>>] = mem[SlotAddr(metaram[s].way[w].tag, s, o)]
    BY <1>4 DEF IInv, CleanLineIsCopy, Present, Line, DirtyPending, StoreDone, SlotAddr
  <2>3. \A a \in Addr : a.tag \in CachedTags => mem'[a] = mem[a]
    <3>1. CASE ~CBusValid
      BY <3>1, QuietBus DEF IInv
    <3>2. CASE CBusValid
      <4>1. Uncached  BY <3>2 DEF CBusValid, Cached, Uncached
      <4>2. BeatAddr.tag \in UncachedTags
        BY <4>1, RequestFields
           DEF BeatAddr, CBusAddr, Uncached, IInv, TypeInv, StateTyped, CacheTypeOK, Addr
      <4>3. \A a \in Addr : a.tag \in CachedTags => a # BeatAddr
        BY <4>2, TagAssumption
      <4> QED  BY <4>3 DEF Edge, Memory, IInv, TypeInv, StateTyped
    <3> QED  BY <3>1, <3>2
  <2>4. \A s \in Sets, o \in Offsets : \A t \in CachedTags :
          mem'[SlotAddr(t, s, o)] = mem[SlotAddr(t, s, o)]
    BY <2>3 DEF SlotAddr, Addr, Tags
  <2> QED
    BY <1>2, <1>4, <2>1, <2>2, <2>4 DEF CleanLineIsCopy, Present, Line, SlotAddr
<1> QED
  BY <1>1, <1>3, <1>6, <1>7, <1>8, <1>9
     DEF IInv, RecordOK, WriteBackOK, FetchOK, FinalOK, ReadyOK, WriteReadyOK, At

\* A strobe of no lane leaves data_ram as it is.
LEMMA NoStrobe ==
    ASSUME TypeInv, Cached, NEW cresp, RamEdge(cresp), DataStrobe = {}
    PROVE  dataram' = dataram
<1>1. dataram[DataSlot] \in Word
  BY CachedFields, ReadsTyped DEF TypeInv, StateTyped, dataread
<1>2. dataram' = [dataram EXCEPT ![DataSlot] = dataram[DataSlot]]
  BY <1>1, MergeNone DEF RamEdge
<1> QED  BY <1>2 DEF TypeInv, StateTyped, CacheTypeOK

\* COMPARETAG with a match writes nothing: a store waits for READY.
LEMMA CompareHitEdge ==
    ASSUME IInv, NEW cresp \in Responses, Edge(cresp), Cached, CompareHit
    PROVE  UNCHANGED <<dreq, mem, beat, metaram, dataram>>
<1>1. state = "COMPARETAG"  BY DEF CompareHit
<1>2. dreq' = dreq /\ UNCHANGED <<mem, beat>>
  <2>1. ~CBusValid /\ ~DataOk(cresp) /\ dreq.valid
    BY <1>1 DEF CBusValid, DataOk, Cached, Uncached
  <2> QED  BY <2>1, HeldRequest, QuietBus DEF IInv
<1>3. metaram' = metaram
  BY <1>1 DEF Edge, ClockEdge, RamEdge, MetaStrobe
<1>4. ~hit.match
  <2>1. \A s \in Sets : MetaOK(metaram[s])
    BY <1>1 DEF IInv, SetsOK, Refilling
  <2>2. PICK w \in Ways : metaread.way[w].tag = dreq.addr.tag
    BY DEF CompareHit, Matches
  <2>3. metaread.way[w].valid
    BY <2>1, <2>2, CachedFields DEF IInv, MetaOK, metaread
  <2> QED  BY <1>1, <2>3, CachedFields DEF IInv, StaleHitHarmless, metaread
<1>5. dataram' = dataram
  BY <1>1, <1>4, NoStrobe DEF DataStrobe, IInv, Edge, ClockEdge
<1> QED  BY <1>2, <1>3, <1>5

\* IInv survives COMPARETAG when the tag matches.
LEMMA CompareHitStep ==
    ASSUME IInv, NEW cresp \in Responses, Edge(cresp), Cached, CompareHit
    PROVE  IInv'
<1>1. TypeInv'  BY TypeInvStep DEF IInv
<1>2. state = "COMPARETAG" /\ state' = "READY"  BY DEF CompareHit
<1>3. dreq' = dreq /\ UNCHANGED <<mem, beat>>  BY CompareHitEdge
<1>4. metaram' = metaram  BY CompareHitEdge
<1>5. \A s \in Sets : MetaOK(metaram[s])
  BY <1>2 DEF IInv, SetsOK, Refilling
<1>6. PICK w \in Ways :
        /\ metaread.way[w].tag = dreq.addr.tag
        /\ hit' = [match |-> TRUE, way |-> w]
        /\ metawrite' = IF IsStore
                          THEN WithLine(metaread, w, TRUE, metaread.way[w].tag)
                          ELSE metawrite
  BY DEF CompareHit, Matches
<1>7. metaread.way[w].valid
  BY <1>5, <1>6, CachedFields DEF IInv, MetaOK, metaread
<1>8. dataram' = dataram  BY CompareHitEdge
<1>9. SetsOK'
  BY <1>4, <1>5 DEF SetsOK, MetaOK
<1>10. RecordOK'
  BY <1>5, CachedFields DEF RecordOK, CompareHit, metaread, MetaOK, IInv
<1>11. ReadyOK'
  <2>1. hit'.way = w /\ IsStore' = IsStore /\ metaread' = metaread
    BY <1>3, <1>4, <1>6 DEF IsStore, metaread
  <2>2. ASSUME IsStore
        PROVE  /\ metawrite'.way[w] = [valid |-> TRUE, dirty |-> TRUE, tag |-> dreq.addr.tag]
               /\ metawrite'.way[Other(w)] = metaread.way[Other(w)]
    <3>1. metaread \in SetMeta  BY CachedFields DEF IInv, metaread
    <3>2. metawrite' = WithLine(metaread, w, TRUE, dreq.addr.tag)  BY <1>6, <2>2
    <3>3. Other(w) \in Ways /\ Other(w) # w  BY DEF Other, Ways
    <3> QED  BY <3>1, <3>2, <3>3 DEF WithLine, SetMeta
  <2> QED  BY <1>3, <1>6, <1>7, <2>1, <2>2 DEF ReadyOK
<1>12. StaleHitHarmless'
  BY <1>2, <1>3 DEF StaleHitHarmless, Cached
<1>13. BurstInStep'
  BY <1>2, <1>3 DEF BurstInStep, CBusValid, Cached, Uncached
<1>14. CleanLineIsCopy'
  <2>1. \A s \in Sets : ~Refilling(s) /\ ~Refilling(s)'
    BY <1>2 DEF Refilling
  <2> QED
    BY <1>2, <1>3, <1>4, <1>8, <2>1
       DEF IInv, CleanLineIsCopy, Present, Line, DirtyPending, StoreDone
<1> QED
  BY <1>1, <1>2, <1>9, <1>10, <1>11, <1>12, <1>13, <1>14
     DEF IInv, WriteBackOK, FetchOK, FinalOK, WriteReadyOK, At

\* COMPARETAG without a match writes nothing either, unless hit[1] is left
\* over from before the reset and every line is empty.
LEMMA CompareMissEdge ==
    ASSUME IInv, NEW cresp \in Responses, Edge(cresp), Cached, CompareMiss
    PROVE  /\ UNCHANGED <<dreq, mem, beat, metaram>>
           /\ \/ dataram' = dataram
              \/ \A s \in Sets, w \in Ways : ~metaram[s].way[w].valid
<1>1. state = "COMPARETAG"  BY DEF CompareMiss
<1>2. dreq' = dreq /\ UNCHANGED <<mem, beat>>
  <2>1. ~CBusValid /\ ~DataOk(cresp) /\ dreq.valid
    BY <1>1 DEF CBusValid, DataOk, Cached, Uncached
  <2> QED  BY <2>1, HeldRequest, QuietBus DEF IInv
<1>3. metaram' = metaram
  BY <1>1 DEF Edge, ClockEdge, RamEdge, MetaStrobe
<1>4. ~hit.match => dataram' = dataram
  BY <1>1, NoStrobe DEF DataStrobe, IInv, Edge, ClockEdge
<1> QED  BY <1>1, <1>2, <1>3, <1>4 DEF IInv, StaleHitHarmless

\* IInv survives COMPARETAG when no tag matches and a victim is chosen.
LEMMA CompareMissStep ==
    ASSUME IInv, NEW cresp \in Responses, Edge(cresp), Cached, CompareMiss
    PROVE  IInv'
<1>1. TypeInv'  BY TypeInvStep DEF IInv
<1>2. state = "COMPARETAG" /\ state' \in {"WRITEBACK", "FETCH"}
  BY DEF CompareMiss
<1>3. /\ dreq' = dreq
      /\ UNCHANGED <<mem, beat>>
      /\ Cached'
  BY CompareMissEdge DEF Cached
<1>4. metaram' = metaram  BY CompareMissEdge
<1>5. \A s \in Sets : MetaOK(metaram[s])
  BY <1>2 DEF IInv, SetsOK, Refilling
<1>6. /\ hit' = [match |-> FALSE, way |-> FreeWay]
      /\ metarecord' = metaram[dreq.addr.set]
      /\ index' = 0
      /\ \A w \in Ways : metaram[dreq.addr.set].way[w].tag # dreq.addr.tag
  BY DEF CompareMiss, Matches, metaread
<1>7. SetsOK'
  BY <1>4, <1>5 DEF SetsOK, MetaOK
<1>8. RecordOK'
  BY <1>5, <1>6, CachedFields DEF RecordOK, MetaOK, IInv
<1>9. Missed' /\ (\A tag : CopiedUpTo(tag)')
  BY <1>3, <1>6 DEF Missed, CopiedUpTo, Offsets
<1>10. WriteBackOK'
  <2> SUFFICES ASSUME state' = "WRITEBACK" PROVE WriteBackOK'
    BY DEF WriteBackOK, At
  <2>1. metaread.way[FreeWay].valid
    <3>1. metaread \in SetMeta  BY CachedFields DEF IInv, metaread
    <3>2. SetFull  BY DEF CompareMiss
    <3> QED  BY <3>1, <3>2 DEF SetFull, FreeWay, SetMeta, Ways
  <2> QED  BY <1>3, <1>4, <1>6, <1>9, <2>1 DEF WriteBackOK, metaread
<1>11. FetchOK'
  BY <1>3, <1>6, <1>9 DEF FetchOK
<1>12. StaleHitHarmless'
  BY <1>6 DEF StaleHitHarmless
<1>13. BurstInStep'
  <2>1. beat = 0  BY <1>2 DEF IInv, TypeInv, BeatOK, InBurst
  <2> QED  BY <1>3, <1>6, <2>1 DEF BurstInStep
<1>14. CleanLineIsCopy'
  <2>1. \A s \in Sets, w \in Ways : Line(s, w)' = metaram[s].way[w]
    BY <1>3, <1>4, <1>6 DEF Line, Refilling
  <2>2. \A s \in Sets, w \in Ways : Line(s, w) = metaram[s].way[w] /\ ~Refilling(s)
    BY <1>2 DEF Line, Refilling
  <2>3. CASE \A s \in Sets, w \in Ways : ~metaram[s].way[w].valid
    BY <2>1, <2>3 DEF CleanLineIsCopy, Present
  <2>4. CASE dataram' = dataram
    <3>1. \A s \in Sets, w \in Ways, o \in Offsets : ~DirtyPending(s, w, o)
      BY <1>2 DEF DirtyPending
    <3> QED
      BY <1>3, <2>1, <2>2, <2>4, <3>1 DEF IInv, CleanLineIsCopy, Present
  <2> QED  BY <2>3, <2>4, CompareMissEdge
<1> QED
  BY <1>1, <1>2, <1>7, <1>8, <1>10, <1>11, <1>12, <1>13, <1>14
     DEF IInv, FinalOK, ReadyOK, WriteReadyOK, At

\* What a cached request in one of the two burst states can see in a step.
LEMMA BurstFacts ==
    ASSUME IInv, NEW cresp \in Responses, Edge(cresp), InBurst
    PROVE  /\ dreq' = dreq /\ Cached'
           /\ index = beat /\ index \in Offsets
           /\ cresp.last <=> (cresp.ready /\ index = LineWords - 1)
           /\ cresp.ready /\ ~cresp.last => index' = index + 1
           /\ cresp.last => index' = 0
           /\ ~cresp.ready => index' = index
           /\ CBusIsWrite <=> state = "WRITEBACK"
           /\ BeatAddr = SlotAddr(CBusAddr.tag, dreq.addr.set, index)
<1>1. Cached /\ dreq.valid /\ ~Uncached  BY CachedFields DEF InBurst, IInv
<1>2. CBusValid /\ ~DataOk(cresp)  BY <1>1 DEF InBurst, CBusValid, DataOk
<1>3. dreq' = dreq /\ Cached'  BY <1>1, <1>2, HeldRequest DEF Cached
<1>4. index = beat /\ index \in Offsets
  BY <1>1, <1>2 DEF IInv, BurstInStep, TypeInv, StateTyped
<1>5. cresp.last <=> (cresp.ready /\ index = LineWords - 1)
  BY <1>1, <1>4, ResponseTyped DEF IInv, TypeInv, LastBeat, CBusLen
<1>6. index' = NextIndex(cresp)
  BY <1>1 DEF InBurst, Edge, ClockEdge, Idle, CompareHit, CompareMiss, WriteBack, Fetch,
              Final, Ready, WriteReady
<1>7. index # LineWords - 1 => (index + 1) % LineWords = index + 1
  <2>1. index # LineWords - 1 => index + 1 \in Nat /\ index + 1 < LineWords
    BY <1>4, LineAssumption DEF Offsets
  <2> QED  BY <2>1, SmallMod
<1>8. CBusIsWrite <=> state = "WRITEBACK"  BY <1>1 DEF CBusIsWrite
<1>9. /\ CBusAddr = [tag |-> CBusAddr.tag, set |-> dreq.addr.set, word |-> 0]
  BY <1>1, CachedFields DEF CBusAddr, IInv, Addr
<1>10. (0 + beat) % LineWords = index
  <2>1. beat \in Nat /\ beat < LineWords /\ 0 + beat = beat
    BY <1>4, LineAssumption DEF Offsets
  <2> QED  BY <1>4, <2>1, SmallMod
<1>11. BeatAddr = SlotAddr(CBusAddr.tag, dreq.addr.set, index)
  BY <1>9, <1>10 DEF BeatAddr, SlotAddr
<1> QED  BY <1>3, <1>4, <1>5, <1>6, <1>7, <1>8, <1>11 DEF NextIndex

\* The tag of the line a miss evicts.
Victim == metarecord.way[hit.way].tag

\* A cycle of the write-back burst: the word on the bus is the victim's, and
\* goes where it came from.
LEMMA WriteBackEdge ==
    ASSUME IInv, NEW cresp \in Responses, Edge(cresp), Cached, WriteBack(cresp)
    PROVE  /\ UNCHANGED <<dreq, hit, metarecord, metawrite, metaram, dataram>>
           /\ Missed
           /\ metarecord = metaram[dreq.addr.set]
           /\ metarecord.way[hit.way].valid
           /\ CopiedUpTo(Victim)
           /\ Victim \in CachedTags
           /\ \A s \in Sets : MetaOK(metaram[s])
           /\ mem' = IF cresp.ready
                       THEN [mem EXCEPT ![SlotAddr(Victim, dreq.addr.set, index)] =
                                dataram[<<dreq.addr.set, hit.way, index>>]]
                       ELSE mem
<1> DEFINE set == dreq.addr.set
<1>1. state = "WRITEBACK" /\ InBurst /\ ~Uncached
  BY CachedFields DEF WriteBack, InBurst, IInv
<1>2. UNCHANGED <<dreq, hit, metarecord, metawrite>>
  BY <1>1, BurstFacts DEF WriteBack
<1>3. /\ Missed
      /\ metarecord = metaram[set]
      /\ metarecord.way[hit.way].valid
      /\ CopiedUpTo(Victim)
  BY <1>1 DEF IInv, WriteBackOK, At, Victim
<1>4. metaram' = metaram /\ dataram' = dataram
  BY <1>1, NoStrobe DEF MetaStrobe, DataStrobe, IInv, Edge, ClockEdge, RamEdge
<1>5. \A s \in Sets : MetaOK(metaram[s])
  BY <1>1 DEF IInv, SetsOK, Refilling
<1>6. /\ set \in Sets /\ hit.way \in Ways /\ index \in Offsets
      /\ Victim \in CachedTags
  BY <1>1, <1>3, <1>5, CachedFields, BurstFacts DEF IInv, MetaOK, Victim
<1>7. mem' = IF cresp.ready
               THEN [mem EXCEPT ![SlotAddr(Victim, set, index)] =
                        dataram[<<set, hit.way, index>>]]
               ELSE mem
  <2>1. CBusData = dataram[<<set, hit.way, index>>] /\ CBusStrobe = Lanes
    BY <1>1 DEF CBusData, CBusStrobe, dataread, DataSlot
  <2>2. dataram[<<set, hit.way, index>>] \in Word
    BY <1>6 DEF IInv, TypeInv, StateTyped, CacheTypeOK, Slots
  <2>3. CBusIsWrite /\ BeatAddr = SlotAddr(Victim, set, index)
    BY <1>1, BurstFacts DEF CBusAddr, Victim
  <2> QED  BY <2>1, <2>2, <2>3, MergeAll DEF Edge, Memory
<1> QED  BY <1>2, <1>3, <1>4, <1>5, <1>6, <1>7

\* IInv survives a cycle of the write-back burst.
LEMMA WriteBackStep ==
    ASSUME IInv, NEW cresp \in Responses, Edge(cresp), Cached, WriteBack(cresp)
    PROVE  IInv'
<1> DEFINE set == dreq.addr.set
<1>1. TypeInv'  BY TypeInvStep DEF IInv
<1>2. state = "WRITEBACK" /\ InBurst /\ ~Uncached
  BY CachedFields DEF WriteBack, InBurst, IInv
<1>3. /\ dreq' = dreq /\ Cached'
      /\ UNCHANGED <<hit, metarecord, metawrite>>
      /\ state' = IF cresp.last THEN "FETCH" ELSE "WRITEBACK"
  BY <1>2, BurstFacts DEF WriteBack
<1>4. /\ Missed
      /\ metarecord = metaram[set]
      /\ metarecord.way[hit.way].valid
      /\ CopiedUpTo(Victim)
  BY WriteBackEdge
<1>5. metaram' = metaram /\ dataram' = dataram  BY WriteBackEdge
<1>6. \A s \in Sets : MetaOK(metaram[s])  BY WriteBackEdge
<1>7. /\ set \in Sets /\ hit.way \in Ways /\ index \in Offsets
      /\ Victim \in CachedTags
  BY <1>2, WriteBackEdge, CachedFields, BurstFacts DEF IInv
<1>8. mem' = IF cresp.ready
               THEN [mem EXCEPT ![SlotAddr(Victim, set, index)] =
                        dataram[<<set, hit.way, index>>]]
               ELSE mem
  BY WriteBackEdge
<1>9. /\ SlotAddr(Victim, set, index) \in Addr
      /\ mem \in [Addr -> Word]
  BY <1>7 DEF SlotAddr, Addr, Tags, IInv, TypeInv, StateTyped
<1>10. SetsOK'
  BY <1>5, <1>6 DEF SetsOK, MetaOK
<1>11. RecordOK'
  BY <1>2, <1>3 DEF IInv, RecordOK, MetaOK
<1>12. WriteBackOK'
  <2> SUFFICES ASSUME state' = "WRITEBACK"
               PROVE  CopiedUpTo(Victim)'
    BY <1>3, <1>4, <1>5 DEF WriteBackOK, At, Missed, Victim
  <2>1. ~cresp.last  BY <1>3
  <2> SUFFICES ASSUME NEW o \in Offsets, o < index'
               PROVE  dataram[<<set, hit.way, o>>] = mem'[SlotAddr(Victim, set, o)]
    BY <1>3, <1>5 DEF CopiedUpTo, Victim
  <2>2. SlotAddr(Victim, set, o) \in Addr
    BY <1>7 DEF SlotAddr, Addr, Tags
  <2>3. CASE o = index
    <3>1. cresp.ready  BY <1>2, <2>3, BurstFacts DEF Offsets
    <3> QED  BY <1>8, <1>9, <2>2, <2>3, <3>1
  <2>4. CASE o # index
    <3>1. o < index  BY <1>2, <1>7, <2>1, <2>4, BurstFacts DEF Offsets
    <3>2. SlotAddr(Victim, set, o) # SlotAddr(Victim, set, index)
      BY <2>4 DEF SlotAddr
    <3> QED  BY <1>4, <1>8, <1>9, <2>2, <3>1, <3>2 DEF CopiedUpTo
  <2> QED  BY <2>3, <2>4
<1>13. FetchOK'
  <2> SUFFICES ASSUME state' = "FETCH" PROVE FetchOK'
    BY DEF FetchOK, At
  <2>1. index' = 0  BY <1>2, <1>3, BurstFacts
  <2> QED  BY <1>3, <1>4, <2>1 DEF FetchOK, Missed, CopiedUpTo, Offsets
<1>14. StaleHitHarmless'
  BY <1>3, <1>4 DEF StaleHitHarmless, Missed
<1>15. BurstInStep'
  <2>1. CASE cresp.ready
    BY <1>2, <2>1, BurstFacts DEF BurstInStep, Edge, Memory
  <2>2. CASE ~cresp.ready
    BY <1>2, <2>2, BurstFacts DEF BurstInStep, Edge, Memory
  <2> QED  BY <2>1, <2>2
<1>16. CleanLineIsCopy'
  <2> SUFFICES ASSUME NEW s \in Sets, NEW w \in Ways, NEW o \in Offsets,
                      Present(s, w)', ~Line(s, w)'.dirty
               PROVE  dataram[<<s, w, o>>] = mem'[SlotAddr(Line(s, w)'.tag, s, o)]
    BY <1>5 DEF CleanLineIsCopy, SlotAddr
  <2>1. Line(s, w)' = metaram[s].way[w] /\ Line(s, w) = metaram[s].way[w]
    BY <1>2, <1>3, <1>4, <1>5 DEF Line, Refilling
  <2>2. Present(s, w)  BY <1>2, <2>1 DEF Present, Refilling
  <2>3. dataram[<<s, w, o>>] = mem[SlotAddr(metaram[s].way[w].tag, s, o)]
    BY <1>2, <2>1, <2>2 DEF IInv, CleanLineIsCopy, DirtyPending, SlotAddr
  <2>4. metaram[s].way[w].tag \in CachedTags
    BY <1>6, <2>1, <2>2 DEF MetaOK, Present
  <2>5. SlotAddr(metaram[s].way[w].tag, s, o) \in Addr
    BY <2>4 DEF SlotAddr, Addr, Tags
  <2>6. CASE SlotAddr(metaram[s].way[w].tag, s, o) = SlotAddr(Victim, set, index)
    <3>1. s = set /\ o = index /\ metaram[s].way[w].tag = Victim
      BY <2>6 DEF SlotAddr
    <3>2. w = hit.way
      BY <1>4, <1>6, <1>7, <2>1, <2>2, <3>1 DEF MetaOK, Present, Ways, Victim
    <3> QED  BY <1>8, <1>9, <2>1, <2>3, <2>5, <3>1, <3>2
  <2>7. CASE SlotAddr(metaram[s].way[w].tag, s, o) # SlotAddr(Victim, set, index)
    BY <1>8, <1>9, <2>1, <2>3, <2>5, <2>7
  <2> QED  BY <2>6, <2>7
<1> QED
  BY <1>1, <1>3, <1>10, <1>11, <1>12, <1>13, <1>14, <1>15, <1>16
     DEF IInv, FinalOK, ReadyOK, WriteReadyOK, At

\* The metadata FETCH builds is well formed when the request had missed.
LEMMA RefilledOK ==
    ASSUME TypeInv, Cached, MetaOK(metarecord), Missed
    PROVE  /\ MetaOK(Refilled)
           /\ Refilled.way[hit.way] =
                [valid |-> TRUE, dirty |-> FALSE, tag |-> dreq.addr.tag]
           /\ Refilled.way[Other(hit.way)] = metarecord.way[Other(hit.way)]
<1>1. metarecord \in SetMeta /\ hit.way \in Ways /\ dreq.addr.tag \in CachedTags
  BY CachedFields DEF TypeInv, StateTyped, CacheTypeOK
<1>2. Refilled.way = [metarecord.way EXCEPT ![hit.way] =
                        [valid |-> TRUE, dirty |-> FALSE, tag |-> dreq.addr.tag]]
  BY <1>1 DEF Refilled, WithLine, SetMeta
<1>3. metarecord.way \in [Ways -> LineMeta]  BY <1>1 DEF SetMeta
<1>4. Other(hit.way) \in Ways /\ Other(hit.way) # hit.way
  BY <1>1 DEF Other, Ways
<1>5. /\ Refilled.way[hit.way] =
            [valid |-> TRUE, dirty |-> FALSE, tag |-> dreq.addr.tag]
      /\ Refilled.way[Other(hit.way)] = metarecord.way[Other(hit.way)]
  BY <1>1, <1>2, <1>3, <1>4
<1>6. MetaOK(Refilled)
  <2>1. \A w \in Ways : w = hit.way \/ w = Other(hit.way)
    BY <1>1 DEF Other, Ways
  <2> QED  BY <1>1, <1>4, <1>5, <2>1 DEF MetaOK, Missed, Ways
<1> QED  BY <1>5, <1>6

\* A cycle of the refill burst: the word that counts is the one the index
\* points to, and after the edge the words below the new index are copied,
\* all of them if the burst is over.
LEMMA FetchEdge ==
    ASSUME IInv, NEW cresp \in Responses, Edge(cresp), Cached, Fetch(cresp)
    PROVE  /\ UNCHANGED <<dreq, hit, metarecord, mem>>
           /\ metawrite' = Refilled
           /\ Missed /\ MetaOK(metarecord)
           /\ metaram' = [metaram EXCEPT ![dreq.addr.set] = metawrite]
           /\ dataram' = [dataram EXCEPT ![<<dreq.addr.set, hit.way, index>>] = cresp.data]
           /\ <<dreq.addr.set, hit.way, index>> \in Slots
           /\ cresp.last => metawrite = Refilled
           /\ \A o \in Offsets :
                o < index \/ (cresp.ready /\ o = index) =>
                  dataram'[<<dreq.addr.set, hit.way, o>>] =
                      mem[SlotAddr(dreq.addr.tag, dreq.addr.set, o)]
<1> DEFINE set == dreq.addr.set
           tag == dreq.addr.tag
<1>1. state = "FETCH" /\ InBurst /\ ~Uncached
  BY CachedFields DEF Fetch, InBurst, IInv
<1>2. /\ dreq' = dreq /\ Cached'
      /\ UNCHANGED <<hit, metarecord>>
      /\ metawrite' = Refilled
  BY <1>1, BurstFacts DEF Fetch, Refilled
<1>3. Missed /\ CopiedUpTo(tag) /\ MetaOK(metarecord)
  BY <1>1 DEF IInv, FetchOK, At, RecordOK
<1>4. /\ set \in Sets /\ hit.way \in Ways /\ index \in Offsets /\ tag \in CachedTags
      /\ metaram \in [Sets -> SetMeta] /\ dataram \in [Slots -> Word]
  BY <1>1, CachedFields, BurstFacts DEF IInv, TypeInv, StateTyped, CacheTypeOK
<1>5. metaram' = [metaram EXCEPT ![set] = metawrite]
  BY <1>1 DEF Edge, ClockEdge, RamEdge, MetaStrobe
<1>6. mem' = mem
  BY <1>1, BurstFacts DEF Edge, Memory
<1>7. dataram' = [dataram EXCEPT ![<<set, hit.way, index>>] = cresp.data]
  <2>1. /\ DataSlot = <<set, hit.way, index>>
        /\ DataStrobe = Lanes
        /\ DataWrite(cresp) = cresp.data
    BY <1>1 DEF DataSlot, DataStrobe, DataWrite
  <2>2. cresp.data \in Word  BY ResponseTyped DEF IInv, TypeInv, Response
  <2> QED  BY <2>1, <2>2, MergeAll DEF Edge, ClockEdge, RamEdge
\* A beat that counts brings the word the index points to.
<1>8. cresp.ready => cresp.data = mem[SlotAddr(tag, set, index)]
  <2> SUFFICES ASSUME cresp.ready PROVE cresp.data = mem[SlotAddr(tag, set, index)]
    OBVIOUS
  <2>1. cresp \notin NotReady  BY DEF NotReady
  <2>2. ~CBusIsWrite /\ BeatAddr = SlotAddr(tag, set, index)
    BY <1>1, BurstFacts DEF CBusAddr
  <2> QED  BY <2>1, <2>2 DEF Responses, Beat
<1>9. cresp.last => metawrite = Refilled
  <2>1. cresp.last => index > 0  BY <1>1, BurstFacts, LineAssumption
  <2> QED  BY <1>1, <2>1 DEF IInv, FetchOK, At
<1>10. <<set, hit.way, index>> \in Slots
  BY <1>4 DEF Slots
<1>11. \A o \in Offsets :
         o < index \/ (cresp.ready /\ o = index) =>
           dataram'[<<set, hit.way, o>>] = mem[SlotAddr(tag, set, o)]
  <2> SUFFICES ASSUME NEW o \in Offsets, o < index \/ (cresp.ready /\ o = index)
               PROVE  dataram'[<<set, hit.way, o>>] = mem[SlotAddr(tag, set, o)]
    OBVIOUS
  <2>1. CASE o = index
    <3>1. cresp.ready  BY <1>4, <2>1 DEF Offsets
    <3> QED  BY <1>4, <1>7, <1>8, <1>10, <2>1, <3>1
  <2>2. CASE o # index
    <3>1. <<set, hit.way, o>> \in Slots  BY <1>4 DEF Slots
    <3>2. <<set, hit.way, o>> # <<set, hit.way, index>>  BY <2>2
    <3> QED  BY <1>3, <1>4, <1>7, <2>2, <3>1, <3>2 DEF CopiedUpTo
  <2> QED  BY <2>1, <2>2
<1> QED  BY <1>2, <1>3, <1>5, <1>6, <1>7, <1>9, <1>10, <1>11

\* IInv survives a cycle of the refill burst.
LEMMA FetchStep ==
    ASSUME IInv, NEW cresp \in Responses, Edge(cresp), Cached, Fetch(cresp)
    PROVE  IInv'
<1> DEFINE set == dreq.addr.set
           tag == dreq.addr.tag
<1>1. TypeInv'  BY TypeInvStep DEF IInv
<1>2. state = "FETCH" /\ InBurst /\ ~Uncached
  BY CachedFields DEF Fetch, InBurst, IInv
<1>3. /\ dreq' = dreq /\ Cached'
      /\ UNCHANGED <<hit, metarecord>>
      /\ state' = IF cresp.last THEN "FINAL" ELSE "FETCH"
      /\ metawrite' = Refilled
  BY <1>2, BurstFacts, FetchEdge DEF Fetch
<1>4. Missed /\ MetaOK(metarecord)  BY FetchEdge
<1>5. /\ set \in Sets /\ hit.way \in Ways /\ index \in Offsets /\ tag \in CachedTags
      /\ metaram \in [Sets -> SetMeta] /\ dataram \in [Slots -> Word]
  BY <1>2, CachedFields, BurstFacts DEF IInv, TypeInv, StateTyped, CacheTypeOK
<1>6. metaram' = [metaram EXCEPT ![set] = metawrite]  BY FetchEdge
<1>7. mem' = mem  BY FetchEdge
<1>8. dataram' = [dataram EXCEPT ![<<set, hit.way, index>>] = cresp.data]
  BY FetchEdge
<1>9. cresp.last => metawrite = Refilled  BY FetchEdge
<1>10. Refilled' = Refilled
  BY <1>3 DEF Refilled
<1>11. \A o \in Offsets :
         o < index \/ (cresp.ready /\ o = index) =>
           dataram'[<<set, hit.way, o>>] = mem[SlotAddr(tag, set, o)]
  BY FetchEdge
<1>12. \A s \in Sets : s # set => ~Refilling(s) /\ ~Refilling(s)' /\ metaram'[s] = metaram[s]
  BY <1>3, <1>5, <1>6 DEF Refilling
<1>13. SetsOK'
  <2> SUFFICES ASSUME NEW s \in Sets, ~Refilling(s)' PROVE MetaOK(metaram'[s])
    BY DEF SetsOK, MetaOK
  <2>1. CASE s = set
    <3>1. cresp.last  BY <1>3, <2>1 DEF Refilling
    <3>2. metaram'[s] = Refilled  BY <1>5, <1>6, <1>9, <2>1, <3>1
    <3> QED  BY <1>4, <3>2, RefilledOK DEF IInv
  <2>2. CASE s # set
    BY <1>12, <2>2 DEF IInv, SetsOK
  <2> QED  BY <2>1, <2>2
<1>14. RecordOK'
  BY <1>3, <1>4 DEF RecordOK, MetaOK
<1>15. FetchOK'
  <2> SUFFICES ASSUME state' = "FETCH" PROVE FetchOK'
    BY DEF FetchOK, At
  <2>1. ~cresp.last  BY <1>3
  <2>2. \A o \in Offsets : o < index' => o < index \/ (cresp.ready /\ o = index)
    BY <1>2, <1>5, <2>1, BurstFacts DEF Offsets
  <2>3. CopiedUpTo(tag)'
    BY <1>3, <1>7, <1>11, <2>2 DEF CopiedUpTo
  <2> QED  BY <1>3, <1>4, <1>10, <2>3 DEF FetchOK, Missed
<1>16. FinalOK'
  <2> SUFFICES ASSUME state' = "FINAL" PROVE FinalOK'
    BY DEF FinalOK, At
  <2>1. cresp.last  BY <1>3
  <2> QED  BY <1>3, <1>4, <1>5, <1>6, <1>9, <1>10, <2>1 DEF FinalOK, Missed
<1>17. StaleHitHarmless'
  BY <1>3, <1>4 DEF StaleHitHarmless, Missed
<1>18. BurstInStep'
  <2>1. CASE cresp.ready
    BY <1>2, <2>1, BurstFacts DEF BurstInStep, Edge, Memory
  <2>2. CASE ~cresp.ready
    BY <1>2, <2>2, BurstFacts DEF BurstInStep, Edge, Memory
  <2> QED  BY <2>1, <2>2
<1>19. CleanLineIsCopy'
  <2> SUFFICES ASSUME NEW s \in Sets, NEW w \in Ways, NEW o \in Offsets,
                      Present(s, w)', ~Line(s, w)'.dirty
               PROVE  dataram'[<<s, w, o>>] = mem[SlotAddr(Line(s, w)'.tag, s, o)]
    BY <1>7 DEF CleanLineIsCopy, SlotAddr
  <2>1. <<s, w, o>> \in Slots  BY DEF Slots
  <2>2. \A ss \in Sets, ww \in Ways, oo \in Offsets : ~DirtyPending(ss, ww, oo)
    BY <1>2 DEF DirtyPending
  <2>3. CASE s = set /\ w = hit.way
    <3>1. cresp.last  BY <1>3, <2>3 DEF Present, Refilling
    <3>2. Line(s, w)' = Refilled.way[w]
      BY <1>3, <1>5, <1>6, <1>9, <2>3, <3>1 DEF Line, Refilling
    <3>3. Line(s, w)'.tag = tag  BY <1>4, <2>3, <3>2, RefilledOK DEF IInv
    <3>4. o < index \/ (cresp.ready /\ o = index)
      BY <1>2, <1>5, <3>1, BurstFacts, LineAssumption DEF Offsets
    <3> QED  BY <1>11, <2>3, <3>3, <3>4
  <2>4. CASE s = set /\ w # hit.way
    <3>1. w = Other(hit.way)  BY <1>5, <2>4 DEF Other, Ways
    <3>2. Line(s, w) = metarecord.way[w] /\ Refilling(s)
      BY <1>2, <2>4 DEF Line, Refilling, InBurst
    <3>3. Line(s, w)' = metarecord.way[w]
      <4>1. CASE cresp.last
        <5>1. Line(s, w)' = Refilled.way[w]
          BY <1>3, <1>5, <1>6, <1>9, <2>4, <4>1 DEF Line, Refilling
        <5> QED  BY <1>4, <3>1, <5>1, RefilledOK DEF IInv
      <4>2. CASE ~cresp.last
        BY <1>3, <2>4, <4>2 DEF Line, Refilling
      <4> QED  BY <4>1, <4>2
    <3>4. Present(s, w)  BY <2>4, <3>2, <3>3 DEF Present
    <3>5. dataram'[<<s, w, o>>] = dataram[<<s, w, o>>]
      BY <1>5, <1>8, <2>1, <2>4
    <3> QED  BY <2>2, <3>2, <3>3, <3>4, <3>5 DEF IInv, CleanLineIsCopy, SlotAddr
  <2>5. CASE s # set
    <3>1. Line(s, w) = metaram[s].way[w] /\ Line(s, w)' = metaram[s].way[w]
      BY <1>12, <2>5 DEF Line
    <3>2. Present(s, w)  BY <1>12, <2>5, <3>1 DEF Present
    <3>3. dataram'[<<s, w, o>>] = dataram[<<s, w, o>>]
      BY <1>5, <1>8, <2>1, <2>5
    <3> QED  BY <2>2, <3>1, <3>2, <3>3 DEF IInv, CleanLineIsCopy, SlotAddr
  <2> QED  BY <2>3, <2>4, <2>5
<1> QED
  BY <1>1, <1>3, <1>13, <1>14, <1>15, <1>16, <1>17, <1>18, <1>19
     DEF IInv, WriteBackOK, ReadyOK, WriteReadyOK, At

\* FINAL finds the refilled line in its way, and a missed store, but nothing
\* else, changes a word of it.
LEMMA FinalEdge ==
    ASSUME IInv, NEW cresp \in Responses, Edge(cresp), Cached, Final
    PROVE  /\ UNCHANGED <<dreq, mem, beat, metaram>>
           /\ metaram[dreq.addr.set].way[hit.way] =
                [valid |-> TRUE, dirty |-> FALSE, tag |-> dreq.addr.tag]
           /\ metaram[dreq.addr.set].way[Other(hit.way)] =
                metarecord.way[Other(hit.way)]
           /\ DataSlot = <<dreq.addr.set, hit.way, dreq.addr.word>>
           /\ DataSlot \in Slots
           /\ dataram' = [dataram EXCEPT ![DataSlot] =
                             Merge(dataram[DataSlot], dreq.strobe, dreq.data)]
           /\ ~IsStore => dataram' = dataram
<1>1. state = "FINAL"  BY DEF Final
<1>2. dreq' = dreq /\ UNCHANGED <<mem, beat>>
  <2>1. ~CBusValid /\ ~DataOk(cresp) /\ dreq.valid
    BY <1>1 DEF CBusValid, DataOk, Cached, Uncached
  <2> QED  BY <2>1, HeldRequest, QuietBus DEF IInv
<1>3. metaram' = metaram
  BY <1>1 DEF Edge, ClockEdge, RamEdge, MetaStrobe
<1>4. /\ metaram[dreq.addr.set].way[hit.way] =
           [valid |-> TRUE, dirty |-> FALSE, tag |-> dreq.addr.tag]
      /\ metaram[dreq.addr.set].way[Other(hit.way)] = metarecord.way[Other(hit.way)]
  <2>1. metarecord \in SetMeta /\ hit.way \in Ways
    BY DEF IInv, TypeInv, StateTyped, CacheTypeOK
  <2>2. Other(hit.way) \in Ways /\ Other(hit.way) # hit.way
    BY <2>1 DEF Other, Ways
  <2>3. metaram[dreq.addr.set] = Refilled  BY <1>1 DEF IInv, FinalOK, At
  <2> QED  BY <2>1, <2>2, <2>3 DEF Refilled, WithLine, SetMeta
<1>5. /\ DataSlot = <<dreq.addr.set, hit.way, dreq.addr.word>>
      /\ DataStrobe = dreq.strobe /\ DataWrite(cresp) = dreq.data
  BY <1>1 DEF DataSlot, DataStrobe, DataWrite
<1>6. DataSlot \in Slots  BY <1>5, CachedFields DEF Slots, IInv
<1>7. dataram' = [dataram EXCEPT ![DataSlot] =
                     Merge(dataram[DataSlot], dreq.strobe, dreq.data)]
  BY <1>5 DEF Edge, ClockEdge, RamEdge
<1>8. ~IsStore => dataram' = dataram
  BY <1>5, NoStrobe DEF IsStore, IInv, Edge, ClockEdge
<1> QED  BY <1>2, <1>3, <1>4, <1>5, <1>6, <1>7, <1>8

\* IInv survives FINAL, where a missed store reaches data_ram.
LEMMA FinalStep ==
    ASSUME IInv, NEW cresp \in Responses, Edge(cresp), Cached, Final
    PROVE  IInv'
<1> DEFINE set == dreq.addr.set
           tag == dreq.addr.tag
<1>1. TypeInv'  BY TypeInvStep DEF IInv
<1>2. state = "FINAL" /\ state' = "READY" /\ UNCHANGED <<hit, metarecord>>
  BY DEF Final
<1>3. /\ dreq' = dreq /\ Cached'
      /\ UNCHANGED <<mem, beat>>
  BY FinalEdge DEF Cached
<1>4. metaram' = metaram  BY FinalEdge
<1>5. /\ set \in Sets /\ hit.way \in Ways /\ tag \in CachedTags
      /\ dataram \in [Slots -> Word] /\ metarecord \in SetMeta
  BY CachedFields DEF IInv, TypeInv, StateTyped, CacheTypeOK
<1>6. \A s \in Sets : MetaOK(metaram[s]) /\ ~Refilling(s) /\ ~Refilling(s)'
  BY <1>2 DEF IInv, SetsOK, Refilling
<1>7. ~hit.match /\ metaram[set] = Refilled /\ MetaOK(metarecord)
  BY <1>2 DEF IInv, FinalOK, At, RecordOK
<1>8. /\ metaram[set].way[hit.way] = [valid |-> TRUE, dirty |-> FALSE, tag |-> tag]
      /\ metaram[set].way[Other(hit.way)] = metarecord.way[Other(hit.way)]
  BY FinalEdge
<1>9. SetsOK'
  BY <1>4, <1>6 DEF SetsOK, MetaOK
<1>10. RecordOK'
  BY <1>2, <1>7 DEF RecordOK, MetaOK
<1>11. ReadyOK'
  <2>1. metaread' = metaram[set] /\ (IsStore' <=> IsStore)
    BY <1>3, <1>4 DEF metaread, IsStore
  <2>2. ASSUME IsStore
        PROVE  /\ metawrite'.way[hit.way] =
                     [valid |-> TRUE, dirty |-> TRUE, tag |-> tag]
               /\ metawrite'.way[Other(hit.way)] = metarecord.way[Other(hit.way)]
    <3>1. metawrite' = DirtyLine  BY <2>2 DEF Final
    <3>2. metaread.way[hit.way].tag = tag  BY <1>8 DEF metaread
    <3>3. Other(hit.way) \in Ways /\ Other(hit.way) # hit.way
      BY <1>5 DEF Other, Ways
    <3> QED  BY <1>5, <3>1, <3>2, <3>3 DEF DirtyLine, WithLine, SetMeta
  <2> QED  BY <1>2, <1>3, <1>8, <2>1, <2>2 DEF ReadyOK
<1>12. StaleHitHarmless'
  BY <1>2, <1>7 DEF StaleHitHarmless
<1>13. BurstInStep'
  BY <1>2, <1>3 DEF BurstInStep, CBusValid, Cached, Uncached
<1>14. CleanLineIsCopy'
  <2> SUFFICES ASSUME NEW s \in Sets, NEW w \in Ways, NEW o \in Offsets,
                      Present(s, w)', ~Line(s, w)'.dirty, ~DirtyPending(s, w, o)'
               PROVE  dataram'[<<s, w, o>>] = mem[SlotAddr(metaram[s].way[w].tag, s, o)]
    BY <1>3, <1>4, <1>6 DEF CleanLineIsCopy, SlotAddr, Line
  <2>1. dataram[<<s, w, o>>] = mem[SlotAddr(metaram[s].way[w].tag, s, o)]
    BY <1>2, <1>4, <1>6
       DEF IInv, CleanLineIsCopy, DirtyPending, SlotAddr, Present, Line
  <2>2. DataSlot' = DataSlot  BY <1>2, <1>3 DEF DataSlot
  <2>3. <<s, w, o>> \in Slots /\ DataSlot \in Slots
    BY FinalEdge DEF Slots
  <2>4. dataram' = [dataram EXCEPT ![DataSlot] =
                       Merge(dataram[DataSlot], dreq.strobe, dreq.data)]
    BY FinalEdge
  <2>5. CASE IsStore
    <3>1. StoreDone'  BY <1>2, <1>3, <1>7, <2>5 DEF StoreDone, IsStore
    <3>2. <<s, w, o>> # DataSlot
      BY <1>2, <2>2, <3>1 DEF DirtyPending
    <3> QED  BY <1>5, <2>1, <2>3, <2>4, <3>2
  <2>6. CASE ~IsStore
    BY <2>1, <2>6, FinalEdge
  <2> QED  BY <2>5, <2>6
<1> QED
  BY <1>1, <1>2, <1>9, <1>10, <1>11, <1>12, <1>13, <1>14
     DEF IInv, WriteBackOK, FetchOK, FinalOK, WriteReadyOK, At

\* READY writes the word of a store that hit (one that missed was written in
\* FINAL) and turns its line dirty; every line keeps its tag.
LEMMA ReadyEdge ==
    ASSUME IInv, NEW cresp \in Responses, Edge(cresp), Cached, Ready
    PROVE  /\ UNCHANGED <<mem, beat>>
           /\ metaram[dreq.addr.set].way[hit.way].valid
           /\ metaram[dreq.addr.set].way[hit.way].tag = dreq.addr.tag
           /\ metaram' = IF IsStore THEN [metaram EXCEPT ![dreq.addr.set] = metawrite]
                                    ELSE metaram
           /\ \A s \in Sets, w \in Ways :
                /\ metaram'[s].way[w].valid <=> metaram[s].way[w].valid
                /\ metaram'[s].way[w].tag = metaram[s].way[w].tag
                /\ ~metaram'[s].way[w].dirty => metaram'[s].way[w] = metaram[s].way[w]
           /\ DataSlot = <<dreq.addr.set, hit.way, dreq.addr.word>>
           /\ DataSlot \in Slots
           /\ dataram' = IF IsStore /\ hit.match
                           THEN [dataram EXCEPT ![DataSlot] =
                                    Merge(dataram[DataSlot], dreq.strobe, dreq.data)]
                           ELSE dataram
<1> DEFINE set == dreq.addr.set
<1>1. state = "READY"  BY DEF Ready
<1>2. UNCHANGED <<mem, beat>>
  <2>1. ~CBusValid  BY <1>1 DEF CBusValid, Cached, Uncached
  <2> QED  BY <2>1, QuietBus DEF IInv
<1>3. /\ set \in Sets /\ hit.way \in Ways /\ metaram \in [Sets -> SetMeta]
  BY CachedFields DEF IInv, TypeInv, StateTyped, CacheTypeOK
<1>4. /\ metaram[set].way[hit.way].valid
      /\ metaram[set].way[hit.way].tag = dreq.addr.tag
      /\ IsStore =>
           /\ metawrite.way[hit.way] =
                [valid |-> TRUE, dirty |-> TRUE, tag |-> dreq.addr.tag]
           /\ metawrite.way[Other(hit.way)] = metaram[set].way[Other(hit.way)]
  BY <1>1 DEF IInv, ReadyOK, At, metaread
<1>5. metaram' = IF IsStore THEN [metaram EXCEPT ![set] = metawrite] ELSE metaram
  BY <1>1 DEF Edge, ClockEdge, RamEdge, MetaStrobe
<1>6. \A w \in Ways : w = hit.way \/ w = Other(hit.way)
  BY <1>3 DEF Other, Ways
<1>7. \A s \in Sets, w \in Ways :
        /\ metaram'[s].way[w].valid <=> metaram[s].way[w].valid
        /\ metaram'[s].way[w].tag = metaram[s].way[w].tag
        /\ ~metaram'[s].way[w].dirty => metaram'[s].way[w] = metaram[s].way[w]
  BY <1>3, <1>4, <1>5, <1>6
<1>8. DataSlot = <<set, hit.way, dreq.addr.word>>  BY <1>1 DEF DataSlot
<1>9. DataSlot \in Slots  BY <1>8, CachedFields DEF Slots, IInv
<1>10. CASE IsStore /\ hit.match
  <2>1. DataStrobe = dreq.strobe /\ DataWrite(cresp) = dreq.data
    BY <1>1, <1>10 DEF DataStrobe, DataWrite
  <2>2. dataram' = [dataram EXCEPT ![DataSlot] =
                       Merge(dataram[DataSlot], dreq.strobe, dreq.data)]
    BY <2>1 DEF Edge, ClockEdge, RamEdge
  <2> QED  BY <1>2, <1>4, <1>5, <1>7, <1>8, <1>9, <1>10, <2>2
<1>11. CASE ~(IsStore /\ hit.match)
  <2>1. DataStrobe = {}
    BY <1>1, <1>11 DEF DataStrobe, IsStore
  <2>2. dataram' = dataram  BY <2>1, NoStrobe DEF IInv, Edge, ClockEdge
  <2> QED  BY <1>2, <1>4, <1>5, <1>7, <1>8, <1>9, <1>11, <2>2
<1> QED  BY <1>10, <1>11

\* IInv survives READY, where a store marks its line dirty.
LEMMA ReadyStep ==
    ASSUME IInv, NEW cresp \in Responses, Edge(cresp), Cached, Ready
    PROVE  IInv'
<1> DEFINE set == dreq.addr.set
           tag == dreq.addr.tag
<1>1. TypeInv'  BY TypeInvStep DEF IInv
<1>2. /\ state = "READY"
      /\ state' = IF IsStore THEN "WRITEREADY" ELSE "COMPARETAG"
      /\ metarecord' = metarecord
  BY DEF Ready
<1>3. UNCHANGED <<mem, beat>>  BY ReadyEdge
<1>4. /\ set \in Sets /\ hit.way \in Ways /\ tag \in CachedTags
      /\ dataram \in [Slots -> Word] /\ metaram \in [Sets -> SetMeta]
  BY CachedFields DEF IInv, TypeInv, StateTyped, CacheTypeOK
<1>5. \A s \in Sets : MetaOK(metaram[s]) /\ ~Refilling(s) /\ ~Refilling(s)'
  BY <1>2 DEF IInv, SetsOK, Refilling
<1>6. /\ metaram[set].way[hit.way].valid
      /\ metaram[set].way[hit.way].tag = tag
      /\ IsStore =>
           /\ metawrite.way[hit.way] = [valid |-> TRUE, dirty |-> TRUE, tag |-> tag]
           /\ metawrite.way[Other(hit.way)] = metaram[set].way[Other(hit.way)]
  BY <1>2 DEF IInv, ReadyOK, At, metaread
<1>7. metaram' = IF IsStore THEN [metaram EXCEPT ![set] = metawrite] ELSE metaram
  BY ReadyEdge
\* A store changes one line of metadata: it keeps its tag and turns dirty.
<1>8. \A s \in Sets, w \in Ways :
         /\ metaram'[s].way[w].valid <=> metaram[s].way[w].valid
         /\ metaram'[s].way[w].tag = metaram[s].way[w].tag
         /\ ~metaram'[s].way[w].dirty => metaram'[s].way[w] = metaram[s].way[w]
  BY ReadyEdge
<1>9. \A s \in Sets, w \in Ways :
         IsStore /\ s = set /\ w = hit.way => metaram'[s].way[w].dirty
  BY <1>4, <1>6, <1>7
<1>10. SetsOK'
  BY <1>5, <1>8 DEF SetsOK, MetaOK, Ways
<1>11. RecordOK'
  <2>1. Cached' /\ state' # "COMPARETAG" => MetaOK(metarecord)
    BY <1>2 DEF IInv, RecordOK
  <2> QED  BY <1>2, <2>1 DEF RecordOK, MetaOK
<1>12. StaleHitHarmless'
  <2>1. CASE IsStore
    <3>1. dreq' = dreq
      BY <1>2, <2>1, HeldRequest DEF DataOk, Cached, Uncached
    <3> QED  BY <1>2, <2>1, <3>1 DEF StaleHitHarmless, Cached
  <2>2. CASE ~IsStore
    <3>1. hit' = [match |-> FALSE, way |-> 0]  BY <2>2 DEF Ready
    <3> QED  BY <3>1 DEF StaleHitHarmless
  <2> QED  BY <2>1, <2>2
<1>13. BurstInStep'
  BY <1>2 DEF BurstInStep, CBusValid, Cached, Uncached
<1>14. CleanLineIsCopy'
  <2> SUFFICES ASSUME NEW s \in Sets, NEW w \in Ways, NEW o \in Offsets,
                      metaram'[s].way[w].valid, ~metaram'[s].way[w].dirty
               PROVE  dataram'[<<s, w, o>>] = mem[SlotAddr(metaram'[s].way[w].tag, s, o)]
    BY <1>3, <1>5 DEF CleanLineIsCopy, SlotAddr, Present, Line
  <2>1. metaram'[s].way[w] = metaram[s].way[w]  BY <1>8
  <2>2. ~IsStore \/ <<s, w>> # <<set, hit.way>>  BY <1>9
  <2>3. DataSlot = <<set, hit.way, dreq.addr.word>>  BY <1>2 DEF DataSlot
  <2>4. ~DirtyPending(s, w, o)
    BY <2>2, <2>3 DEF DirtyPending, StoreDone
  <2>5. dataram[<<s, w, o>>] = mem[SlotAddr(metaram[s].way[w].tag, s, o)]
    BY <1>5, <2>1, <2>4 DEF IInv, CleanLineIsCopy, SlotAddr, Present, Line
  <2>6. <<s, w, o>> \in Slots  BY DEF Slots
  <2>7. dataram'[<<s, w, o>>] = dataram[<<s, w, o>>]
    <3>1. CASE IsStore
      <4>1. <<s, w, o>> # DataSlot  BY <2>2, <2>3, <3>1
      <4> QED  BY <1>4, <2>6, <4>1, ReadyEdge
    <3>2. CASE ~IsStore
      BY <3>2, ReadyEdge
    <3> QED  BY <3>1, <3>2
  <2> QED  BY <2>1, <2>5, <2>7
<1>15. WriteReadyOK'
  <2>1. CASE IsStore
    <3>1. dreq' = dreq
      BY <1>2, <2>1, HeldRequest DEF DataOk, Cached, Uncached
    <3> QED  BY <2>1, <3>1 DEF WriteReadyOK, IsStore
  <2>2. CASE ~IsStore
    BY <1>2, <2>2 DEF WriteReadyOK, At
  <2> QED  BY <2>1, <2>2
<1> QED
  BY <1>1, <1>2, <1>10, <1>11, <1>12, <1>13, <1>14, <1>15
     DEF IInv, WriteBackOK, FetchOK, FinalOK, ReadyOK, At

\* IInv survives WRITEREADY, where a store is answered.
LEMMA WriteReadyStep ==
    ASSUME IInv, NEW cresp \in Responses, Edge(cresp), Cached, WriteReady
    PROVE  IInv'
<1>1. TypeInv'  BY TypeInvStep DEF IInv
<1>2. /\ state = "WRITEREADY" /\ state' = "COMPARETAG"
      /\ hit' = [match |-> FALSE, way |-> 0]
  BY DEF WriteReady
<1>3. UNCHANGED <<mem, beat>>
  <2>1. ~CBusValid  BY <1>2 DEF CBusValid, Cached, Uncached
  <2> QED  BY <2>1, QuietBus DEF IInv
<1>4. metaram' = metaram /\ dataram' = dataram
  BY <1>2, NoStrobe DEF MetaStrobe, DataStrobe, IInv, Edge, ClockEdge, RamEdge
<1>5. \A s \in Sets : MetaOK(metaram[s]) /\ ~Refilling(s) /\ ~Refilling(s)'
  BY <1>2 DEF IInv, SetsOK, Refilling
<1>6. SetsOK'
  BY <1>4, <1>5 DEF SetsOK, MetaOK
<1>7. BurstInStep'
  BY <1>2 DEF BurstInStep, CBusValid, Cached, Uncached
<1>8. CleanLineIsCopy'
  BY <1>2, <1>3, <1>4, <1>5 DEF IInv, CleanLineIsCopy, Present, Line, DirtyPending
<1> QED
  BY <1>1, <1>2, <1>6, <1>7, <1>8
     DEF IInv, RecordOK, WriteBackOK, FetchOK, FinalOK, ReadyOK, WriteReadyOK, At,
         StaleHitHarmless

\* The reset cache satisfies IInv.
LEMMA IInvInit == Init => IInv
<1> SUFFICES ASSUME Init PROVE IInv
  OBVIOUS
<1>1. TypeInv  BY TypeInvInit
<1>2. ~Cached /\ \A s \in Sets, w \in Ways :
        metaram[s].way[w] = [valid |-> FALSE, dirty |-> FALSE, tag |-> ResetTag]
  BY DEF Init, CacheInit, EmptyMeta, Cached, NoRequest
<1>3. SetsOK
  BY <1>2 DEF SetsOK, MetaOK, Ways
<1>4. BurstInStep  BY <1>2 DEF BurstInStep
<1>5. CleanLineIsCopy  BY <1>2 DEF CleanLineIsCopy, Present, Line, Refilling
<1>6. StaleHitHarmless  BY <1>2 DEF StaleHitHarmless
<1> QED
  BY <1>1, <1>2, <1>3, <1>4, <1>5, <1>6
     DEF IInv, RecordOK, WriteBackOK, FetchOK, FinalOK, ReadyOK, WriteReadyOK, At

\* Every clock edge keeps IInv: without a cached request NotCachedStep, with
\* one the lemma of its state.
LEMMA IInvEdge ==
    ASSUME IInv, NEW cresp \in Responses, Edge(cresp)
    PROVE  IInv'
<1>1. CASE ~Cached
  BY <1>1, NotCachedStep
<1>2. CASE Cached
  <2>1. dreq.valid  BY <1>2 DEF Cached
  <2>2. \/ CompareHit \/ CompareMiss \/ WriteBack(cresp) \/ Fetch(cresp)
        \/ Final \/ Ready \/ WriteReady
    BY <2>1 DEF Edge, ClockEdge, Idle
  <2> QED
    BY <1>2, <2>2, CompareHitStep, CompareMissStep, WriteBackStep, FetchStep,
       FinalStep, ReadyStep, WriteReadyStep
<1> QED  BY <1>1, <1>2

\* What does not move keeps it.
LEMMA IInvStutter ==
    ASSUME IInv, UNCHANGED <<dreq, cachevars, mem, beat>>
    PROVE  IInv'
<1>1. TypeInv'  BY TypeInvStutter DEF IInv
<1>2. UNCHANGED <<dreq, state, hit, index, metarecord, metawrite, metaram, dataram,
                  mem, beat>>
  BY DEF cachevars
<1>3. UNCHANGED <<Cached, metaread, IsStore, Missed, Refilled, CBusValid, StoreDone,
                  DataSlot>>
  BY <1>2 DEF Cached, metaread, IsStore, Missed, Refilled, CBusValid, Uncached,
              StoreDone, DataSlot
<1>4. SetsOK' /\ RecordOK'
  BY <1>2, <1>3 DEF IInv, SetsOK, RecordOK, Refilling, MetaOK
<1>5. WriteBackOK' /\ FetchOK' /\ FinalOK'
  BY <1>2, <1>3 DEF IInv, WriteBackOK, FetchOK, FinalOK, At, CopiedUpTo
<1>6. ReadyOK' /\ WriteReadyOK' /\ StaleHitHarmless' /\ BurstInStep'
  BY <1>2, <1>3 DEF IInv, ReadyOK, WriteReadyOK, StaleHitHarmless, BurstInStep, At
<1>7. CleanLineIsCopy'
  BY <1>2, <1>3
     DEF IInv, CleanLineIsCopy, Present, Line, DirtyPending, Refilling
<1> QED  BY <1>1, <1>4, <1>5, <1>6, <1>7 DEF IInv

LEMMA IInvStep == IInv /\ [Next]_vars => IInv'
<1>1. IInv /\ UNCHANGED vars => IInv'
  BY IInvStutter DEF vars, cachevars
<1> QED  BY <1>1, StepIsEdge, IInvEdge DEF Next

\* IInv is invariant, for every number of sets, tags, words and byte lanes and
\* every latency of the memory.
THEOREM CacheInvariant == Spec => []IInv
BY IInvInit, IInvStep, PTL DEF Spec

\* No line is in both ways of a set.
LEMMA HeldOnce == IInv => NoDuplicateLine
<1> SUFFICES ASSUME IInv, NEW s \in Sets, Present(s, 0), Present(s, 1)
             PROVE  Line(s, 0).tag # Line(s, 1).tag
  BY DEF NoDuplicateLine
<1>1. ~Refilling(s)
  <2>1. hit.way \in Ways  BY DEF IInv, TypeInv, StateTyped, CacheTypeOK
  <2> QED  BY <2>1 DEF Present, Ways
<1> QED  BY <1>1 DEF IInv, SetsOK, MetaOK, Present, Line

\* No line is ever in both ways of a set (DCache.sv:194-203 looks at way 1
\* only if way 0 does not match, and at valid bits never).
THEOREM NoDuplicateLines == Spec => []NoDuplicateLine
BY CacheInvariant, HeldOnce, PTL

\* A clean line may be dropped without a write-back: it equals memory.
THEOREM CleanLinesAreCopies == Spec => []CleanLineIsCopy
<1>1. IInv => CleanLineIsCopy  BY DEF IInv
<1> QED  BY CacheInvariant, <1>1, PTL

\* The cache's word counter and the memory's beat counter never part.
THEOREM BurstsInStep == Spec => []BurstInStep
<1>1. IInv => BurstInStep  BY DEF IInv
<1> QED  BY CacheInvariant, <1>1, PTL

-----------------------------------------------------------------------------
(* The cache bus: a request stands until its last beat.                    *)

\* A cycle without the last beat leaves the request where it is.
LEMMA HeldEdge ==
    ASSUME IInv, NEW cresp \in Responses, Edge(cresp), CBusValid, ~cresp.last
    PROVE  CBusRequest' = CBusRequest
<1>1. CASE Uncached
  <2>1. beat = 0  BY <1>1 DEF IInv, TypeInv, BeatOK, InBurst, Uncached, Cached
  <2>2. ~cresp.ready
    BY <1>1, <2>1, ResponseTyped DEF IInv, TypeInv, LastBeat, CBusLen
  <2>3. dreq.valid /\ ~DataOk(cresp)  BY <1>1, <2>2 DEF Uncached, DataOk
  <2>4. dreq' = dreq  BY <2>3, HeldRequest
  <2>5. Uncached' /\ CBusValid'  BY <1>1, <2>4 DEF Uncached, CBusValid
  <2> QED
    BY <1>1, <2>4, <2>5 DEF CBusRequest, CBusIsWrite, CBusAddr, CBusLen, IsStore
<1>2. CASE ~Uncached
  <2>1. InBurst /\ ~Uncached
    BY <1>2 DEF InBurst, CBusValid, Cached, Uncached
  <2>2. dreq' = dreq  BY <2>1, BurstFacts
  <2>3. UNCHANGED <<state, hit, metarecord>>
    BY <2>1
       DEF InBurst, Cached, Edge, ClockEdge, Idle, CompareHit, CompareMiss, WriteBack,
           Fetch, Final, Ready, WriteReady
  <2>4. ~Uncached'  BY <2>1, <2>2 DEF Uncached
  <2> QED
    BY <2>1, <2>2, <2>3, <2>4
       DEF CBusRequest, CBusValid, CBusIsWrite, CBusAddr, CBusLen
<1> QED  BY <1>1, <1>2

\* The master sees the last beat of an uncached access, the memory that of a burst.
LEMMA HeldStep ==
    ASSUME IInv, NEW cresp \in Responses, Step(cresp), CBusValid, ~LastBeatTaken
    PROVE  CBusRequest' = CBusRequest
<1>1. cresp.last => cresp.ready /\ LastBeat
  BY ResponseTyped DEF IInv, TypeInv
<1>2. ~cresp.last
  <2>1. CASE Uncached
    BY <1>1, <2>1 DEF Uncached, DataOk, Step, Master, LastBeatTaken
  <2>2. CASE ~Uncached
    <3>1. cresp.last => beat' = 0  BY <1>1 DEF Step, Memory
    <3> QED  BY <1>1, <2>2, <3>1 DEF LastBeatTaken
  <2> QED  BY <2>1, <2>2
<1> QED  BY <1>2, HeldEdge, StepIsEdge

\* CBusDevice::eval_req (cbus_device.cpp:39-43) never sees the kind, the
\* address or the length of a transaction move before its last beat, and
\* never sees it withdrawn.
THEOREM RequestHeld == Spec => CBusHeld
<1> DEFINE A == CBusValid /\ ~LastBeatTaken => CBusRequest' = CBusRequest
<1>1. IInv /\ [Next]_vars => [A]_vars
  BY HeldStep DEF Next
<1> QED  BY CacheInvariant, <1>1, PTL DEF Spec, CBusHeld

-----------------------------------------------------------------------------
(* The cache is invisible: CacheSystem implements AtomicMemory.            *)

\* The word the cache holds for an address, if way w holds its line.
Copy(w, a) == dataram[<<a.set, w, a.word>>]

\* What Value returns, in the form the proofs use: whichever way holds the
\* line, its copy, and the memory's word if none does.
ValueIsHeld ==
    \A a \in Addr :
        /\ \A w \in Ways : Holds(w, a) => Value(a) = Copy(w, a)
        /\ (\A w \in Ways : ~Holds(w, a)) => Value(a) = mem[a]

\* The priority of way 0 in Value never chooses between two copies.
LEMMA HeldValue == IInv => ValueIsHeld
<1> SUFFICES ASSUME IInv, NEW a \in Addr
             PROVE  /\ \A w \in Ways : Holds(w, a) => Value(a) = Copy(w, a)
                    /\ (\A w \in Ways : ~Holds(w, a)) => Value(a) = mem[a]
  BY DEF ValueIsHeld
<1>1. a.set \in Sets  BY DEF Addr
<1>2. ~(Holds(0, a) /\ Holds(1, a))
  BY <1>1, HeldOnce DEF NoDuplicateLine, Holds
<1> QED  BY <1>2 DEF Value, Copy, Ways

\* So it is on both sides of a clock edge.
LEMMA ValueHeldByStep ==
    ASSUME IInv, NEW cresp \in Responses, Edge(cresp)
    PROVE  ValueIsHeld /\ ValueIsHeld'
<1>1. IInv'  BY IInvEdge
<1>2. ValueIsHeld  BY HeldValue
<1>3. ValueIsHeld'  BY <1>1, HeldValue, PTL
<1> QED  BY <1>2, <1>3

\* What an edge does to the values: nothing, the effect of a store, or an answer.
SameValues == \A a \in Addr : Value(a)' = Value(a)
NewValues ==
    \A a \in Addr : Value(a)' = IF a = dreq.addr
                                  THEN Merge(Value(a), dreq.strobe, dreq.data)
                                  ELSE Value(a)

Quiet(cresp)   == ~DataOk(cresp) /\ SameValues /\ (StoreDone' <=> StoreDone)
Applies(cresp) == /\ ~DataOk(cresp) /\ NewValues
                  /\ dreq.valid /\ IsStore /\ ~StoreDone /\ StoreDone'
Loads(cresp)   == /\ DataOk(cresp) /\ SameValues /\ (StoreDone' <=> StoreDone)
                  /\ ~IsStore /\ RespData(cresp) = Value(dreq.addr)
Stores(cresp)  == /\ DataOk(cresp) /\ IF StoreDone THEN SameValues ELSE NewValues
                  /\ IsStore /\ ~StoreDone'
Effect(cresp)  == Quiet(cresp) \/ Applies(cresp) \/ Loads(cresp) \/ Stores(cresp)

\* Without a request nothing happens.
LEMMA IdleEffect ==
    ASSUME IInv, NEW cresp \in Responses, Edge(cresp), ~dreq.valid
    PROVE  Effect(cresp)
<1>1. ~Cached /\ ~CBusValid /\ ~DataOk(cresp)  BY DEF Cached, CBusValid, DataOk
<1>2. UNCHANGED <<mem, metaram, dataram>>  BY <1>1, NotCachedEdge, QuietBus DEF IInv
<1>3. \A a \in Addr : Value(a)' = Value(a)
  <2> SUFFICES ASSUME NEW a \in Addr PROVE Value(a)' = Value(a)
    OBVIOUS
  <2>1. a.set \in Sets  BY DEF Addr
  <2>2. ~Refilling(a.set) /\ ~Refilling(a.set)'  BY <1>1, <2>1, NotCachedEdge
  <2> QED  BY <1>2, <2>2 DEF Value, Holds, Present, Line
<1>4. ~StoreDone /\ ~StoreDone'
  <2>1. state' = "COMPARETAG"
    BY DEF Edge, ClockEdge, Idle, CompareHit, CompareMiss, WriteBack, Fetch, Final,
           Ready, WriteReady
  <2> QED  BY <1>1, <2>1 DEF StoreDone
<1> QED  BY <1>1, <1>3, <1>4 DEF Effect, Quiet, SameValues

\* An uncached request goes to the memory in one beat, whatever the cache
\* holds: no line has an uncached tag.
LEMMA UncachedEffect ==
    ASSUME IInv, NEW cresp \in Responses, Edge(cresp), Uncached
    PROVE  Effect(cresp)
<1>1. dreq.valid /\ ~Cached /\ CBusValid  BY DEF Uncached, Cached, CBusValid
<1>2. /\ dreq.addr \in Addr /\ dreq.addr.set \in Sets /\ dreq.addr.word \in Offsets
      /\ dreq.addr.tag \in UncachedTags
  BY <1>1, RequestFields DEF Uncached, IInv, TypeInv, StateTyped, CacheTypeOK
<1>3. UNCHANGED <<metaram, dataram>>  BY <1>1, NotCachedEdge
<1>4. \A a \in Addr, w \in Ways : (Holds(w, a)' <=> Holds(w, a)) /\ Copy(w, a)' = Copy(w, a)
  <2> SUFFICES ASSUME NEW a \in Addr, NEW w \in Ways
               PROVE  (Holds(w, a)' <=> Holds(w, a)) /\ Copy(w, a)' = Copy(w, a)
    OBVIOUS
  <2>1. a.set \in Sets  BY DEF Addr
  <2>2. ~Refilling(a.set) /\ ~Refilling(a.set)'  BY <1>1, <2>1, NotCachedEdge
  <2> QED  BY <1>3, <2>2 DEF Holds, Present, Line, Copy
<1>5. \A a \in Addr : mem'[a] = mem[a] => Value(a)' = Value(a)
  BY <1>4 DEF Value, Copy, Ways
<1>6. \A w \in Ways : ~Holds(w, dreq.addr)
  <2> SUFFICES ASSUME NEW w \in Ways, Holds(w, dreq.addr) PROVE FALSE
    OBVIOUS
  <2>1. ~Refilling(dreq.addr.set) /\ MetaOK(metaram[dreq.addr.set])
    BY <1>1, <1>2, NotCachedEdge
  <2>2. metaram[dreq.addr.set].way[w].tag \in CachedTags
    BY <2>1 DEF Holds, Present, Line, MetaOK
  <2> QED  BY <1>2, <2>1, <2>2, TagAssumption DEF Holds, Line
<1>7. Value(dreq.addr) = mem[dreq.addr]  BY <1>6 DEF Value, Ways
<1>8. \A a \in Addr : a = dreq.addr => Value(a)' = mem'[a]
  BY <1>4, <1>6 DEF Value, Ways
<1>9. BeatAddr = dreq.addr
  <2>1. beat = 0  BY <1>1 DEF IInv, TypeInv, BeatOK, InBurst
  <2>2. (dreq.addr.word + beat) % LineWords = dreq.addr.word
    <3>1. dreq.addr.word \in Nat /\ dreq.addr.word < LineWords
      BY <1>2, LineAssumption DEF Offsets
    <3>2. dreq.addr.word + beat = dreq.addr.word  BY <2>1, <3>1
    <3> QED  BY <3>1, <3>2, SmallMod
  <2> QED  BY <1>2, <2>2 DEF BeatAddr, CBusAddr, Addr
<1>10. mem' = IF cresp.ready /\ IsStore
                THEN [mem EXCEPT ![dreq.addr] =
                         Merge(mem[dreq.addr], dreq.strobe, dreq.data)]
                ELSE mem
  BY <1>9 DEF Edge, Memory, CBusIsWrite, CBusStrobe, CBusData
<1>11. mem \in [Addr -> Word]  BY DEF IInv, TypeInv, StateTyped
<1>12. ~StoreDone /\ ~StoreDone'
  BY <1>1, NotCachedEdge DEF StoreDone
<1>13. CASE ~cresp.ready
  <2>1. ~DataOk(cresp)  BY <1>13 DEF DataOk
  <2>2. SameValues  BY <1>5, <1>10, <1>13 DEF SameValues
  <2> QED  BY <1>12, <2>1, <2>2 DEF Effect, Quiet
<1>14. CASE cresp.ready
  <2>1. DataOk(cresp)  BY <1>1, <1>14 DEF DataOk
  <2>2. RespData(cresp) = cresp.data  BY DEF RespData
  <2>3. CASE IsStore
    <3>1. \A a \in Addr : Value(a)' = IF a = dreq.addr
                                        THEN Merge(Value(a), dreq.strobe, dreq.data)
                                        ELSE Value(a)
      BY <1>5, <1>7, <1>8, <1>10, <1>11, <1>14, <2>3
    <3> QED  BY <1>12, <2>1, <2>3, <3>1 DEF Effect, Stores, NewValues
  <2>4. CASE ~IsStore
    <3>1. \A a \in Addr : Value(a)' = Value(a)  BY <1>5, <1>10, <2>4
    <3>2. cresp.data = Value(dreq.addr)
      <4>1. cresp \notin NotReady  BY <1>14 DEF NotReady
      <4>2. cresp \in Beat /\ ~CBusIsWrite  BY <2>4, <4>1 DEF Responses, CBusIsWrite
      <4> QED  BY <1>7, <1>9, <4>2 DEF Beat
    <3> QED  BY <1>12, <2>1, <2>2, <2>4, <3>1, <3>2 DEF Effect, Loads, SameValues
  <2> QED  BY <2>3, <2>4
<1> QED  BY <1>13, <1>14

\* Between a cached request and its answer the master sees nothing.
LEMMA UnansweredEffect ==
    ASSUME IInv, NEW cresp \in Responses, Edge(cresp), Cached,
           state \notin {"READY", "WRITEREADY"},
           \A a \in Addr : Value(a)' = Value(a), ~StoreDone'
    PROVE  Effect(cresp)
<1>1. dreq.valid /\ ~DataOk(cresp)  BY DEF Cached, Uncached, DataOk
<1>2. ~StoreDone  BY DEF StoreDone
<1> QED  BY <1>1, <1>2 DEF Effect, Quiet, SameValues

\* COMPARETAG changes no value: a line a miss will overwrite is either empty,
\* or clean and so a copy of memory, or still held while it is written back.
LEMMA CompareEffect ==
    ASSUME IInv, NEW cresp \in Responses, Edge(cresp), Cached,
           CompareHit \/ CompareMiss
    PROVE  Effect(cresp)
<1>1. state = "COMPARETAG"  BY DEF CompareHit, CompareMiss
<1>2. \A s \in Sets : ~Refilling(s)  BY <1>1 DEF Refilling
<1>3. CASE CompareHit
  <2>1. UNCHANGED <<mem, metaram, dataram>>  BY <1>3, CompareHitEdge
  <2>2. state' = "READY" /\ hit'.match  BY <1>3 DEF CompareHit
  <2>3. \A s \in Sets : ~Refilling(s)'  BY <2>2 DEF Refilling
  <2>4. \A a \in Addr : Value(a)' = Value(a)
    BY <1>2, <2>1, <2>3 DEF Value, Holds, Present, Line, Addr
  <2> QED  BY <1>1, <2>2, <2>4, UnansweredEffect DEF StoreDone
<1>4. CASE CompareMiss
  <2>1. /\ UNCHANGED <<dreq, mem, metaram>>
        /\ dataram' = dataram \/ \A s \in Sets, w \in Ways : ~metaram[s].way[w].valid
    BY <1>4, CompareMissEdge
  <2>2. /\ state' = IF SetFull /\ metaread.way[FreeWay].dirty THEN "WRITEBACK" ELSE "FETCH"
        /\ hit' = [match |-> FALSE, way |-> FreeWay]
        /\ metarecord' = metaread
    BY <1>4 DEF CompareMiss
  <2>3. \A s \in Sets, w \in Ways : Line(s, w)' = metaram[s].way[w]
                                    /\ Line(s, w) = metaram[s].way[w]
    BY <1>2, <2>1, <2>2 DEF Line, Refilling, metaread
  \* Only the victim's line is lost, and only if it need not be written back.
  <2>4. \A s \in Sets, w \in Ways :
          Present(s, w) /\ ~Present(s, w)' =>
            s = dreq.addr.set /\ w = FreeWay /\ ~metaram[s].way[w].dirty
    <3> SUFFICES ASSUME NEW s \in Sets, NEW w \in Ways, Present(s, w), ~Present(s, w)'
                 PROVE  s = dreq.addr.set /\ w = FreeWay /\ ~metaram[s].way[w].dirty
      OBVIOUS
    <3>1. metaram[s].way[w].valid  BY <2>3 DEF Present
    <3>2. Refilling(s)' /\ w = FreeWay  BY <2>2, <2>3, <3>1 DEF Present
    <3>3. s = dreq.addr.set /\ state' = "FETCH"  BY <2>1, <3>2 DEF Refilling
    <3>4. ~(SetFull /\ metaread.way[FreeWay].dirty)  BY <2>2, <3>3
    <3>5. SetFull
      <4>1. metaread \in SetMeta  BY CachedFields DEF IInv, metaread
      <4> QED  BY <3>1, <3>2, <3>3, <4>1 DEF FreeWay, SetFull, SetMeta, Ways, metaread
    <3> QED  BY <3>2, <3>3, <3>4, <3>5 DEF metaread
  <2>5. \A s \in Sets, w \in Ways : Present(s, w)' => Present(s, w)
    BY <1>2, <2>3 DEF Present
  <2>6. ASSUME NEW a \in Addr PROVE Value(a)' = Value(a)
    <3>1. a.set \in Sets /\ a.word \in Offsets /\ a = SlotAddr(a.tag, a.set, a.word)
      BY DEF Addr, SlotAddr
    <3>2. CASE \A s \in Sets, w \in Ways : ~metaram[s].way[w].valid
      <4>1. \A w \in Ways : ~Holds(w, a) /\ ~Holds(w, a)'
        BY <2>3, <3>1, <3>2 DEF Holds, Present
      <4> QED  BY <2>1, <4>1 DEF Value, Ways
    <3>3. CASE dataram' = dataram
      <4>1. ValueIsHeld /\ ValueIsHeld'
        BY ValueHeldByStep
      <4>2. \A w \in Ways : Copy(w, a)' = Copy(w, a)  BY <3>3 DEF Copy
      <4>3. CASE \E w \in Ways : Holds(w, a) /\ ~Holds(w, a)'
        <5>1. PICK w \in Ways : Holds(w, a) /\ ~Holds(w, a)'
          BY <4>3
        <5>2. Present(a.set, w) /\ ~Present(a.set, w)'
          BY <2>3, <3>1, <5>1 DEF Holds
        <5>3. ~Line(a.set, w).dirty  BY <2>3, <2>4, <3>1, <5>2
        <5>4. Copy(w, a) = mem[a]
          <6>1. ~DirtyPending(a.set, w, a.word)  BY <1>1 DEF DirtyPending
          <6>2. Line(a.set, w).tag = a.tag  BY <5>1 DEF Holds
          <6> QED
            BY <3>1, <5>2, <5>3, <6>1, <6>2 DEF IInv, CleanLineIsCopy, Copy, SlotAddr
        <5>5. Value(a) = mem[a]  BY <4>1, <5>1, <5>4 DEF ValueIsHeld
        <5>6. \A v \in Ways : ~Holds(v, a)'
          <6>1. ASSUME NEW v \in Ways, Holds(v, a)' PROVE FALSE
            <7>1. Holds(v, a)  BY <2>3, <2>5, <3>1, <6>1 DEF Holds
            <7>2. v # w  BY <5>1, <6>1
            <7>3. Present(a.set, 0) /\ Present(a.set, 1)
                  /\ Line(a.set, 0).tag = Line(a.set, 1).tag
              BY <5>1, <7>1, <7>2 DEF Holds, Ways
            <7> QED  BY <3>1, <7>3, HeldOnce DEF NoDuplicateLine
          <6> QED  BY <6>1
        <5>7. Value(a)' = mem'[a]  BY <4>1, <5>6 DEF ValueIsHeld
        <5> QED  BY <2>1, <5>5, <5>7
      <4>4. CASE \A w \in Ways : Holds(w, a) => Holds(w, a)'
        <5>1. \A w \in Ways : Holds(w, a)' => Holds(w, a)
          BY <2>3, <2>5, <3>1 DEF Holds
        <5> QED  BY <2>1, <4>2, <4>4, <5>1 DEF Value, Copy, Ways
      <4> QED  BY <4>3, <4>4
    <3> QED  BY <2>1, <3>2, <3>3
  <2>7. ~StoreDone'  BY <2>2 DEF StoreDone
  <2> QED  BY <1>1, <2>6, <2>7, UnansweredEffect
<1> QED  BY <1>3, <1>4

\* An address held by the same way, or by none, before and after the edge.
LEMMA SameValue ==
    ASSUME NEW a \in Addr,
           \A w \in Ways : /\ Holds(w, a)' <=> Holds(w, a)
                           /\ Holds(w, a) => Copy(w, a)' = Copy(w, a),
           (\A w \in Ways : ~Holds(w, a)) => mem'[a] = mem[a]
    PROVE  Value(a)' = Value(a)
BY DEF Value, Copy, Ways

\* A write-back takes the value of an address along: until the last beat the
\* victim is still held, and by then memory has all of its words.
LEMMA WriteBackEffect ==
    ASSUME IInv, NEW cresp \in Responses, Edge(cresp), Cached, WriteBack(cresp)
    PROVE  Effect(cresp)
<1> DEFINE set == dreq.addr.set
<1>1. state = "WRITEBACK" /\ InBurst  BY DEF WriteBack, InBurst
<1>2. /\ UNCHANGED <<dreq, hit, metarecord, metaram, dataram>>
      /\ metarecord = metaram[set]
      /\ metarecord.way[hit.way].valid
      /\ CopiedUpTo(Victim)
      /\ Victim \in CachedTags
      /\ mem' = IF cresp.ready
                  THEN [mem EXCEPT ![SlotAddr(Victim, set, index)] =
                           dataram[<<set, hit.way, index>>]]
                  ELSE mem
  BY WriteBackEdge
<1>3. state' = IF cresp.last THEN "FETCH" ELSE "WRITEBACK"
  BY DEF WriteBack
<1>4. /\ index \in Offsets /\ set \in Sets /\ hit.way \in Ways
      /\ cresp.last <=> (cresp.ready /\ index = LineWords - 1)
  BY <1>1, BurstFacts, CachedFields DEF IInv
<1>5. mem \in [Addr -> Word] /\ SlotAddr(Victim, set, index) \in Addr
  BY <1>2, <1>4 DEF IInv, TypeInv, StateTyped, SlotAddr, Addr, Tags
<1>6. \A s \in Sets, w \in Ways :
        /\ Line(s, w) = metaram[s].way[w] /\ Line(s, w)' = metaram[s].way[w]
        /\ Present(s, w) <=> metaram[s].way[w].valid
        /\ Present(s, w)' <=>
             metaram[s].way[w].valid /\ ~(cresp.last /\ s = set /\ w = hit.way)
  BY <1>1, <1>2, <1>3 DEF Line, Refilling, Present, Cached
<1>7. ASSUME NEW a \in Addr PROVE Value(a)' = Value(a)
  <2>1. a.set \in Sets /\ a.word \in Offsets /\ a = SlotAddr(a.tag, a.set, a.word)
    BY DEF Addr, SlotAddr
  <2>2. \A w \in Ways : Copy(w, a)' = Copy(w, a)  BY <1>2 DEF Copy
  <2>3. CASE a.set = set /\ a.tag = Victim
    <3>1. Holds(hit.way, a)
      BY <1>2, <1>4, <1>6, <2>3 DEF Holds, Victim
    <3>2. CASE cresp.last
      <4>1. \A w \in Ways : ~Holds(w, a)'
        <5>1. ASSUME NEW w \in Ways, Holds(w, a)' PROVE FALSE
          <6>1. w # hit.way  BY <1>6, <2>1, <2>3, <3>2, <5>1 DEF Holds
          <6>2. Holds(w, a)  BY <1>6, <2>1, <5>1 DEF Holds
          <6>3. /\ Present(set, 0) /\ Present(set, 1)
                /\ Line(set, 0).tag = Line(set, 1).tag
            BY <1>4, <2>3, <3>1, <6>1, <6>2 DEF Holds, Ways
          <6> QED  BY <1>4, <6>3, HeldOnce DEF NoDuplicateLine
        <5> QED  BY <5>1
      <4>2. mem'[a] = Copy(hit.way, a)
        <5>1. CASE a.word = index
          BY <1>2, <1>4, <1>5, <2>1, <2>3, <3>2, <5>1 DEF Copy
        <5>2. CASE a.word # index
          <6>1. a.word < index  BY <1>4, <2>1, <3>2, <5>2 DEF Offsets
          <6>2. mem[a] = Copy(hit.way, a)
            BY <1>2, <2>1, <2>3, <6>1 DEF CopiedUpTo, Copy
          <6>3. a # SlotAddr(Victim, set, index)  BY <5>2 DEF SlotAddr
          <6> QED  BY <1>2, <1>5, <6>2, <6>3
        <5> QED  BY <5>1, <5>2
      <4> QED  BY <1>4, <3>1, <4>1, <4>2, ValueHeldByStep DEF ValueIsHeld
    <3>3. CASE ~cresp.last
      <4>1. \A w \in Ways : Holds(w, a)' <=> Holds(w, a)
        BY <1>6, <2>1, <3>3 DEF Holds
      <4> QED  BY <1>4, <2>2, <3>1, <4>1, SameValue
    <3> QED  BY <3>2, <3>3
  <2>4. CASE ~(a.set = set /\ a.tag = Victim)
    <3>1. a # SlotAddr(Victim, set, index)  BY <2>4 DEF SlotAddr
    <3>2. mem'[a] = mem[a]  BY <1>2, <1>5, <3>1
    <3>3. ASSUME NEW w \in Ways PROVE Holds(w, a)' <=> Holds(w, a)
      <4>1. CASE a.set = set /\ w = hit.way
        <5>1. Line(a.set, w).tag # a.tag  BY <1>2, <1>6, <2>1, <2>4, <4>1 DEF Victim
        <5>2. Line(a.set, w)' = Line(a.set, w)  BY <1>6, <2>1
        <5> QED  BY <5>1, <5>2 DEF Holds
      <4>2. CASE ~(a.set = set /\ w = hit.way)
        BY <1>6, <2>1, <4>2 DEF Holds
      <4> QED  BY <4>1, <4>2
    <3> QED  BY <2>2, <3>2, <3>3, SameValue
  <2> QED  BY <2>3, <2>4
<1>8. ~StoreDone'  BY <1>3 DEF StoreDone
<1> QED  BY <1>1, <1>7, <1>8, UnansweredEffect

\* A refill brings the values memory has; what arrives before the last beat
\* cannot be seen.
LEMMA FetchEffect ==
    ASSUME IInv, NEW cresp \in Responses, Edge(cresp), Cached, Fetch(cresp)
    PROVE  Effect(cresp)
<1> DEFINE set == dreq.addr.set
           tag == dreq.addr.tag
<1>1. state = "FETCH" /\ InBurst  BY DEF Fetch, InBurst
<1>2. /\ UNCHANGED <<dreq, hit, metarecord, mem>>
      /\ Missed /\ MetaOK(metarecord)
      /\ metaram' = [metaram EXCEPT ![set] = metawrite]
      /\ dataram' = [dataram EXCEPT ![<<set, hit.way, index>>] = cresp.data]
      /\ cresp.last => metawrite = Refilled
      /\ \A o \in Offsets :
           o < index \/ (cresp.ready /\ o = index) =>
             dataram'[<<set, hit.way, o>>] = mem[SlotAddr(tag, set, o)]
  BY FetchEdge
<1>3. state' = IF cresp.last THEN "FINAL" ELSE "FETCH"  BY DEF Fetch
<1>4. /\ index \in Offsets /\ set \in Sets /\ hit.way \in Ways
      /\ cresp.last <=> (cresp.ready /\ index = LineWords - 1)
      /\ metaram \in [Sets -> SetMeta] /\ dataram \in [Slots -> Word]
  BY <1>1, BurstFacts, CachedFields DEF IInv, TypeInv, StateTyped, CacheTypeOK
<1>5. /\ Refilled.way[hit.way] = [valid |-> TRUE, dirty |-> FALSE, tag |-> tag]
      /\ Refilled.way[Other(hit.way)] = metarecord.way[Other(hit.way)]
  BY <1>2, RefilledOK DEF IInv
<1>6. \A w \in Ways : w = hit.way \/ w = Other(hit.way)
  BY <1>4 DEF Other, Ways
<1>7. \A s \in Sets : /\ Refilling(s) <=> s = set
                      /\ Refilling(s)' <=> s = set /\ ~cresp.last
  BY <1>1, <1>2, <1>3 DEF Refilling, Cached
<1>8. ASSUME NEW a \in Addr PROVE Value(a)' = Value(a)
  <2>1. a.set \in Sets /\ a.word \in Offsets /\ a = SlotAddr(a.tag, a.set, a.word)
    BY DEF Addr, SlotAddr
  <2>2. ASSUME NEW w \in Ways, <<a.set, w>> # <<set, hit.way>>
        PROVE  (Holds(w, a)' <=> Holds(w, a)) /\ Copy(w, a)' = Copy(w, a)
    <3>1. <<a.set, w, a.word>> \in Slots /\ <<a.set, w, a.word>> # <<set, hit.way, index>>
      BY <2>1, <2>2 DEF Slots
    <3>2. Copy(w, a)' = Copy(w, a)  BY <1>2, <1>4, <3>1 DEF Copy
    <3>3. CASE a.set # set
      <4>1. metaram'[a.set] = metaram[a.set]  BY <1>2, <1>4, <2>1, <3>3
      <4> QED  BY <1>7, <2>1, <3>2, <3>3, <4>1 DEF Holds, Line, Present
    <3>4. CASE a.set = set
      <4>1. w = Other(hit.way) /\ w # hit.way  BY <1>6, <2>2, <3>4
      <4>2. Line(set, w) = metarecord.way[w]  BY <1>4, <1>7 DEF Line
      <4>3. Line(set, w)' = metarecord.way[w]
        <5>1. CASE cresp.last
          <6>1. metaram'[set] = Refilled  BY <1>2, <1>4, <5>1
          <6> QED  BY <1>2, <1>4, <1>5, <1>7, <4>1, <5>1, <6>1 DEF Line
        <5>2. CASE ~cresp.last
          BY <1>2, <1>4, <1>7, <5>2 DEF Line
        <5> QED  BY <5>1, <5>2
      <4> QED  BY <1>2, <3>2, <3>4, <4>1, <4>2, <4>3 DEF Holds, Present
    <3> QED  BY <3>3, <3>4
  <2>3. CASE a.set # set
    BY <1>2, <2>2, <2>3, SameValue
  <2>4. CASE a.set = set
    <3>1. ~Holds(hit.way, a)  BY <1>4, <1>7, <2>4 DEF Holds, Present
    <3>2. CASE ~Holds(hit.way, a)'
      BY <1>2, <1>6, <2>2, <3>1, <3>2, SameValue
    <3>3. CASE Holds(hit.way, a)'
      <4>1. cresp.last  BY <1>2, <1>4, <1>7, <2>4, <3>3 DEF Holds, Present
      <4>2. a.tag = tag
        <5>1. metaram'[set] = Refilled  BY <1>2, <1>4, <4>1
        <5>2. Line(set, hit.way)'.tag = tag
          BY <1>2, <1>4, <1>5, <1>7, <4>1, <5>1 DEF Line
        <5> QED  BY <1>2, <2>4, <3>3, <5>2 DEF Holds
      <4>3. Copy(hit.way, a)' = mem[a]
        <5>1. a.word < index \/ (cresp.ready /\ a.word = index)
          BY <1>4, <2>1, <4>1 DEF Offsets
        <5> QED  BY <1>2, <2>1, <2>4, <4>2, <5>1 DEF Copy
      <4>4. \A w \in Ways : ~Holds(w, a)
        BY <1>2, <1>7, <2>1, <2>4, <4>2 DEF Holds, Line, Missed
      <4>5. \A w \in Ways : w = hit.way => Value(a)' = Copy(w, a)'
        BY <1>2, <3>3, ValueHeldByStep DEF ValueIsHeld
      <4>6. Value(a)' = mem[a]  BY <1>2, <1>4, <4>3, <4>5
      <4> QED  BY <4>4, <4>6, ValueHeldByStep DEF ValueIsHeld
    <3> QED  BY <3>2, <3>3
  <2> QED  BY <2>3, <2>4
<1>9. ~StoreDone'  BY <1>3 DEF StoreDone
<1> QED  BY <1>1, <1>8, <1>9, UnansweredEffect

\* A word written through a held line is the new value of its address, and of
\* no other.
LEMMA WrittenValue ==
    ASSUME IInv, NEW cresp \in Responses, Edge(cresp), Cached,
           Holds(hit.way, dreq.addr),
           DataSlot = <<dreq.addr.set, hit.way, dreq.addr.word>>,
           dataram' = [dataram EXCEPT ![DataSlot] =
                          Merge(dataram[DataSlot], dreq.strobe, dreq.data)],
           mem' = mem,
           \A a \in Addr, w \in Ways : Holds(w, a)' <=> Holds(w, a),
           NEW a \in Addr
    PROVE  Value(a)' = IF a = dreq.addr
                         THEN Merge(Value(a), dreq.strobe, dreq.data) ELSE Value(a)
<1>1. /\ hit.way \in Ways /\ dreq.addr \in Addr /\ DataSlot \in Slots
      /\ dataram \in [Slots -> Word]
  BY CachedFields DEF IInv, TypeInv, StateTyped, CacheTypeOK, Slots
<1>2. a.set \in Sets /\ a.word \in Offsets /\ a = SlotAddr(a.tag, a.set, a.word)
  BY DEF Addr, SlotAddr
<1>3. CASE a = dreq.addr
  <2>1. \A w \in Ways : w = hit.way =>
          Copy(w, a)' = Merge(Copy(w, a), dreq.strobe, dreq.data)
    BY <1>1, <1>3 DEF Copy
  <2>2. \A w \in Ways : w = hit.way =>
          Value(a) = Copy(w, a) /\ Value(a)' = Copy(w, a)'
    BY <1>3, ValueHeldByStep DEF ValueIsHeld
  <2> QED  BY <1>1, <1>3, <2>1, <2>2
<1>4. CASE a # dreq.addr
  <2>1. ASSUME NEW w \in Ways, Holds(w, a) PROVE Copy(w, a)' = Copy(w, a)
    <3>1. <<a.set, w, a.word>> # DataSlot
      <4> SUFFICES ASSUME <<a.set, w, a.word>> = DataSlot PROVE FALSE
        OBVIOUS
      <4>1. a.set = dreq.addr.set /\ w = hit.way /\ a.word = dreq.addr.word
        OBVIOUS
      <4>2. a.tag = dreq.addr.tag  BY <2>1, <4>1 DEF Holds
      <4> QED  BY <1>1, <1>4, <4>1, <4>2 DEF Addr
    <3>2. <<a.set, w, a.word>> \in Slots  BY <1>2 DEF Slots
    <3> QED  BY <1>1, <3>1, <3>2 DEF Copy
  <2> QED  BY <1>4, <2>1, SameValue
<1> QED  BY <1>3, <1>4

\* FINAL is the moment a store that missed takes effect; for a load it is one
\* more cycle of waiting.
LEMMA FinalEffect ==
    ASSUME IInv, NEW cresp \in Responses, Edge(cresp), Cached, Final
    PROVE  Effect(cresp)
<1>1. state = "FINAL" /\ state' = "READY" /\ hit' = hit  BY DEF Final
<1>2. /\ UNCHANGED <<dreq, mem, metaram>>
      /\ metaram[dreq.addr.set].way[hit.way] =
           [valid |-> TRUE, dirty |-> FALSE, tag |-> dreq.addr.tag]
  BY FinalEdge
<1>3. \A s \in Sets : ~Refilling(s) /\ ~Refilling(s)'  BY <1>1 DEF Refilling
<1>4. \A a \in Addr, w \in Ways : Holds(w, a)' <=> Holds(w, a)
  <2>1. \A a \in Addr : a.set \in Sets  BY DEF Addr
  <2> QED  BY <1>2, <1>3, <2>1 DEF Holds, Line, Present
<1>5. CASE IsStore
  <2>1. Holds(hit.way, dreq.addr)
    BY <1>2, <1>3, CachedFields DEF Holds, Line, Present, IInv
  <2>2. \A a \in Addr : Value(a)' = IF a = dreq.addr
                                      THEN Merge(Value(a), dreq.strobe, dreq.data)
                                      ELSE Value(a)
    BY <1>2, <1>4, <2>1, FinalEdge, WrittenValue
  <2>3. ~StoreDone  BY <1>1 DEF StoreDone
  <2>4. StoreDone'
    <3>1. ~hit.match  BY <1>1 DEF IInv, FinalOK, At
    <3> QED  BY <1>1, <1>2, <1>5, <3>1 DEF StoreDone, Cached, IsStore
  <2>5. dreq.valid /\ ~DataOk(cresp)  BY <1>1 DEF Cached, Uncached, DataOk
  <2> QED  BY <1>5, <2>2, <2>3, <2>4, <2>5 DEF Effect, Applies, NewValues
<1>6. CASE ~IsStore
  <2>1. dataram' = dataram  BY <1>6, FinalEdge
  <2>2. \A a \in Addr : Value(a)' = Value(a)
    BY <1>2, <1>4, <2>1, SameValue DEF Copy
  <2>3. ~StoreDone'  BY <1>2, <1>6 DEF StoreDone, IsStore
  <2> QED  BY <1>1, <2>2, <2>3, UnansweredEffect
<1> QED  BY <1>5, <1>6

\* READY answers a load, and is the moment a store that hit takes effect.
LEMMA ReadyEffect ==
    ASSUME IInv, NEW cresp \in Responses, Edge(cresp), Cached, Ready
    PROVE  Effect(cresp)
<1>1. /\ state = "READY" /\ dreq.valid
      /\ state' = IF IsStore THEN "WRITEREADY" ELSE "COMPARETAG"
  BY DEF Ready
<1>2. mem' = mem  BY ReadyEdge
<1>3. \A s \in Sets : ~Refilling(s) /\ ~Refilling(s)'  BY <1>1 DEF Refilling
<1>4. \A a \in Addr, w \in Ways : Holds(w, a)' <=> Holds(w, a)
  <2>1. \A a \in Addr : a.set \in Sets  BY DEF Addr
  <2>2. \A s \in Sets, w \in Ways :
          /\ Line(s, w) = metaram[s].way[w] /\ Line(s, w)' = metaram'[s].way[w]
          /\ Present(s, w) <=> metaram[s].way[w].valid
          /\ Present(s, w)' <=> metaram'[s].way[w].valid
    BY <1>3 DEF Line, Present
  <2> QED  BY <2>1, <2>2, ReadyEdge DEF Holds
<1>5. Holds(hit.way, dreq.addr)
  BY <1>3, CachedFields, ReadyEdge DEF Holds, Line, Present, IInv
<1>6. CASE IsStore
  <2>1. ~DataOk(cresp)  BY <1>1, <1>6 DEF Cached, Uncached, DataOk
  <2>2. dreq' = dreq  BY <1>1, <2>1 DEF Edge
  <2>3. StoreDone'  BY <1>1, <1>6, <2>2 DEF StoreDone, Cached, IsStore
  <2>4. CASE hit.match
    <3>1. ~StoreDone  BY <1>1, <2>4 DEF StoreDone
    <3>2. \A a \in Addr : Value(a)' = IF a = dreq.addr
                                        THEN Merge(Value(a), dreq.strobe, dreq.data)
                                        ELSE Value(a)
      BY <1>2, <1>4, <1>5, <1>6, <2>4, ReadyEdge, WrittenValue
    <3> QED  BY <1>1, <1>6, <2>1, <2>3, <3>1, <3>2 DEF Effect, Applies, NewValues
  <2>5. CASE ~hit.match
    <3>1. StoreDone  BY <1>1, <1>6, <2>5 DEF StoreDone
    <3>2. dataram' = dataram  BY <2>5, ReadyEdge
    <3>3. \A a \in Addr : Value(a)' = Value(a)
      BY <1>2, <1>4, <3>2, SameValue DEF Copy
    <3> QED  BY <2>1, <2>3, <3>1, <3>3 DEF Effect, Quiet, SameValues
  <2> QED  BY <2>4, <2>5
<1>7. CASE ~IsStore
  <2>1. DataOk(cresp) /\ ~Uncached  BY <1>1, <1>7 DEF Cached, Uncached, DataOk
  <2>2. RespData(cresp) = Value(dreq.addr)
    <3>1. RespData(cresp) = dataread  BY <2>1 DEF RespData
    <3>2. dataread = Copy(hit.way, dreq.addr)
      BY ReadyEdge DEF dataread, Copy
    <3>3. Value(dreq.addr) = Copy(hit.way, dreq.addr)
      BY <1>5, CachedFields, HeldValue DEF ValueIsHeld, IInv
    <3> QED  BY <3>1, <3>2, <3>3
  <2>3. dataram' = dataram  BY <1>7, ReadyEdge
  <2>4. \A a \in Addr : Value(a)' = Value(a)
    BY <1>2, <1>4, <2>3, SameValue DEF Copy
  <2>5. ~StoreDone /\ ~StoreDone'  BY <1>1, <1>7 DEF StoreDone
  <2> QED  BY <1>7, <2>1, <2>2, <2>4, <2>5 DEF Effect, Loads, SameValues
<1> QED  BY <1>6, <1>7

\* WRITEREADY answers a store that has taken effect already.
LEMMA WriteReadyEffect ==
    ASSUME IInv, NEW cresp \in Responses, Edge(cresp), Cached, WriteReady
    PROVE  Effect(cresp)
<1>1. state = "WRITEREADY" /\ state' = "COMPARETAG" /\ dreq.valid
  BY DEF WriteReady
<1>2. IsStore  BY <1>1 DEF IInv, WriteReadyOK, At
<1>3. StoreDone /\ ~StoreDone'  BY <1>1, <1>2 DEF StoreDone
<1>4. UNCHANGED <<mem, metaram, dataram>>
  <2>1. ~CBusValid  BY <1>1 DEF CBusValid, Cached, Uncached
  <2>2. mem' = mem  BY <2>1, QuietBus DEF IInv
  <2>3. metaram' = metaram /\ dataram' = dataram
    BY <1>1, NoStrobe DEF MetaStrobe, DataStrobe, IInv, Edge, ClockEdge, RamEdge
  <2> QED  BY <2>2, <2>3
<1>5. \A a \in Addr : Value(a)' = Value(a)
  <2>1. \A s \in Sets : ~Refilling(s) /\ ~Refilling(s)'  BY <1>1 DEF Refilling
  <2> QED  BY <1>4, <2>1 DEF Value, Holds, Present, Line, Addr
<1>6. DataOk(cresp)  BY <1>1 DEF Cached, Uncached, DataOk
<1> QED  BY <1>2, <1>3, <1>5, <1>6 DEF Effect, Stores, SameValues

\* Every edge has one of the four effects.
LEMMA EdgeEffect ==
    ASSUME IInv, NEW cresp \in Responses, Edge(cresp)
    PROVE  Effect(cresp)
<1>1. CASE ~dreq.valid
  BY <1>1, IdleEffect
<1>2. CASE Uncached
  BY <1>2, UncachedEffect
<1>3. CASE Cached
  <2>1. dreq.valid  BY <1>3 DEF Cached
  <2>2. \/ CompareHit \/ CompareMiss \/ WriteBack(cresp) \/ Fetch(cresp)
        \/ Final \/ Ready \/ WriteReady
    BY <2>1 DEF Edge, ClockEdge, Idle
  <2> QED
    BY <1>3, <2>2, CompareEffect, WriteBackEffect, FetchEffect, FinalEffect, ReadyEffect,
       WriteReadyEffect
<1> QED  BY <1>1, <1>2, <1>3 DEF Cached, Uncached

\* Each of the effects, with what the master latches, is a step of the memory.
LEMMA EffectMaps ==
    ASSUME IInv, NEW cresp, Step(cresp), Effect(cresp)
    PROVE  Atomic!Next
<1> DEFINE amem == [a \in Addr |-> Value(a)]
<1>1. dreq \in Request \cup {NoRequest}  BY DEF IInv, TypeInv, StateTyped, CacheTypeOK
<1>2. Request \subseteq Atomic!Request /\ NoRequest = Atomic!NoRequest
  BY DEF Request, NoRequest, Word, Atomic!Request, Atomic!NoRequest, Atomic!Word
<1>3. NoAnswer = Atomic!NoAnswer /\ ZeroWord = Atomic!ZeroWord
  BY DEF NoAnswer, Atomic!NoAnswer, ZeroWord, Atomic!ZeroWord
<1>4. IsStore <=> Atomic!IsStoreReq  BY DEF IsStore, Atomic!IsStoreReq
<1>5. DataOk(cresp) =>
        /\ dreq.valid /\ dreq' \in Atomic!Request \cup {Atomic!NoRequest}
        /\ rsp' = [ok |-> TRUE, data |-> IF IsStore THEN ZeroWord ELSE RespData(cresp)]
  BY <1>2, EnvironmentAssumption DEF DataOk, Step, Master, NextRequests
<1>6. ~DataOk(cresp) => rsp' = NoAnswer  BY DEF Step, Master
<1>7. SameValues => amem' = amem  BY DEF SameValues
<1>8. NewValues => amem' = Atomic!Stored
  BY DEF NewValues, Atomic!Stored, Merge, Atomic!Merge
<1>9. StoreDone \in BOOLEAN /\ StoreDone' \in BOOLEAN  BY DEF StoreDone
<1>10. CASE Quiet(cresp)
  <2>1. amem' = amem /\ rsp' = NoAnswer /\ StoreDone' = StoreDone
    BY <1>6, <1>7, <1>9, <1>10 DEF Quiet
  <2>2. dreq' = dreq \/ (~dreq.valid /\ dreq' \in Atomic!Request)
    BY <1>1, <1>2, <1>10, EnvironmentAssumption DEF Quiet, Step, Master, Request
  <2> QED  BY <1>3, <2>1, <2>2 DEF Atomic!Next, Atomic!Settle, Atomic!Send
<1>11. CASE Applies(cresp)
  <2>1. /\ amem' = Atomic!Stored /\ rsp' = NoAnswer /\ StoreDone' = TRUE
        /\ dreq' = dreq
    BY <1>6, <1>8, <1>9, <1>11 DEF Applies, Step, Master
  <2> QED  BY <1>3, <1>4, <1>11, <2>1 DEF Applies, Atomic!Next, Atomic!Apply
<1>12. CASE Loads(cresp)
  <2>1. /\ amem' = amem /\ StoreDone' = StoreDone
        /\ rsp' = [ok |-> TRUE, data |-> Value(dreq.addr)]
    BY <1>5, <1>7, <1>9, <1>12 DEF Loads
  <2>2. Value(dreq.addr) = amem[dreq.addr]
    <3>1. dreq.valid  BY <1>12 DEF Loads, DataOk
    <3>2. dreq.addr \in Addr
      BY <3>1, RequestFields DEF IInv, TypeInv, StateTyped, CacheTypeOK
    <3> QED  BY <3>2
  <2> QED  BY <1>4, <1>5, <1>12, <2>1, <2>2 DEF Loads, Atomic!Next, Atomic!AnswerLoad
<1>13. CASE Stores(cresp)
  <2>1. /\ amem' = IF StoreDone THEN amem ELSE Atomic!Stored
        /\ StoreDone' = FALSE /\ rsp' = [ok |-> TRUE, data |-> ZeroWord]
    BY <1>5, <1>7, <1>8, <1>9, <1>13 DEF Stores
  <2> QED  BY <1>3, <1>4, <1>5, <1>13, <2>1 DEF Stores, Atomic!Next, Atomic!AnswerStore
<1> QED  BY <1>10, <1>11, <1>12, <1>13 DEF Effect

\* A request that comes between two edges finds the cache idle, and changes nothing.
LEMMA RequestArrives ==
    ASSUME IInv, ~dreq.valid, state = "COMPARETAG", dreq' \in Request,
           UNCHANGED <<cachevars, mem, beat>>
    PROVE  IInv' /\ ~StoreDone' /\ SameValues
<1>1. UNCHANGED <<state, hit, index, metarecord, metawrite, metaram, dataram, mem, beat>>
  BY DEF cachevars
<1>2. ~Cached /\ \A s \in Sets : ~Refilling(s) /\ ~Refilling(s)' /\ MetaOK(metaram[s])
  BY <1>1 DEF Cached, Refilling, IInv, SetsOK
<1>3. ~StoreDone /\ ~StoreDone'  BY <1>1 DEF StoreDone
<1>4. TypeInv'
  BY <1>1, <1>2 DEF IInv, TypeInv, StateTyped, CacheTypeOK, BeatOK, InBurst
<1>5. SetsOK'  BY <1>1, <1>2 DEF SetsOK, MetaOK
<1>6. StaleHitHarmless'  BY <1>1, <1>2 DEF IInv, StaleHitHarmless
<1>7. BurstInStep'  BY <1>1 DEF BurstInStep, Cached, CBusValid, Uncached
<1>8. \A s \in Sets, w \in Ways : /\ Line(s, w)' = Line(s, w)
                                  /\ Present(s, w)' <=> Present(s, w)
  BY <1>1, <1>2 DEF Line, Present
<1>9. CleanLineIsCopy'
  BY <1>1, <1>3, <1>8 DEF IInv, CleanLineIsCopy, DirtyPending
<1>10. SameValues
  <2> SUFFICES ASSUME NEW a \in Addr PROVE Value(a)' = Value(a)
    BY DEF SameValues
  <2>1. a.set \in Sets  BY DEF Addr
  <2> QED  BY <1>1, <1>8, <2>1 DEF Value, Holds, Ways
<1> QED
  BY <1>1, <1>3, <1>4, <1>5, <1>6, <1>7, <1>9, <1>10
     DEF IInv, RecordOK, WriteBackOK, FetchOK, FinalOK, ReadyOK, WriteReadyOK, At

\* The reset cache holds nothing: every value is the memory's.
LEMMA InitMaps == Init => Atomic!Init
<1> SUFFICES ASSUME Init PROVE Atomic!Init
  OBVIOUS
<1>1. ~StoreDone /\ \A s \in Sets, w \in Ways : ~Present(s, w)
  BY DEF Init, CacheInit, EmptyMeta, StoreDone, Cached, NoRequest, Present, Line, Refilling
<1>2. \A a \in Addr : Value(a) = mem[a]
  BY <1>1 DEF Value, Holds, Addr, Ways
<1>3. mem \in [Addr -> Word]  BY EnvironmentAssumption DEF Init
<1>4. [a \in Addr |-> Value(a)] \in [Addr -> Atomic!Word]
  BY <1>2, <1>3 DEF Word, Atomic!Word
<1>5. StoreDone = FALSE  BY <1>1 DEF StoreDone
<1> QED
  BY <1>4, <1>5 DEF Init, Atomic!Init, NoRequest, Atomic!NoRequest, NoAnswer,
                    Atomic!NoAnswer, ZeroWord, Atomic!ZeroWord

\* The cache is invisible (the promise VCacheTop's testbench and the pipeline
\* rely on): for every geometry, every mix of cached and uncached requests and
\* every delay of the memory, each load returns the last store to its address,
\* and each store takes effect once, between its request and its answer.
THEOREM CacheInvisible == Spec => ReadsLastWrite
<1>1. ASSUME UNCHANGED vars PROVE UNCHANGED Atomic!avars
  BY <1>1 DEF vars, Atomic!avars, Value, Holds, Present, Line, Refilling, StoreDone,
              Cached, IsStore
<1>2. IInv /\ [Next]_vars => [Atomic!Next]_(Atomic!avars)
  BY <1>1, StepIsEdge, EdgeEffect, EffectMaps DEF Next
<1> QED
  BY InitMaps, CacheInvariant, <1>2, PTL DEF Spec, ReadsLastWrite, Atomic!Spec
=============================================================================
