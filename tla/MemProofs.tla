----------------------------- MODULE MemProofs ------------------------------
(***************************************************************************)
(* The two caches on one bus, for every size of the caches.                *)
(*                                                                         *)
(* What CacheProofs proves of one cache and a memory that answers it alone *)
(* carries over to the data cache: seen from it, the arbiter, the device   *)
(* and the instruction cache beside it are such a memory.  DFacts and      *)
(* IFacts are CacheProofs seen from the two caches.  The rest of the       *)
(* invariant is the bus's (whose transaction the device is in) and the     *)
(* instruction cache's: it never holds a dirty line, so it never writes.   *)
(***************************************************************************)
EXTENDS MemSystem, TLAPS

DFacts == INSTANCE CacheProofs WITH
    Requests <- DRequests, beat <- BeatOf(DPort), rsp <- drsp
IFacts == INSTANCE CacheProofs WITH
    dreq <- ireq, state <- istate, hit <- ihit, index <- iindex,
    metarecord <- imetarecord, metawrite <- imetawrite,
    metaram <- imetaram, dataram <- idataram,
    Requests <- IRequests, beat <- BeatOf(IPort), rsp <- irsp

Ports == {DPort, IPort}
Lengths == {1, LineWords}
Transaction == [busy : {TRUE}, is_write : BOOLEAN, N : 1 .. LineWords,
                addr : Addr, start : Addr, len : Lengths]

\* The arbiter and the device.
WiresOK ==
    /\ busy \in BOOLEAN /\ grant \in Ports /\ enable \in BOOLEAN
    /\ tx \in Transaction \cup {Device!NoTransaction}

\* The granted cache keeps its request up.
GrantHeld == busy => ireqs[grant].valid

\* The transaction in progress is the granted cache's.
Owner ==
    tx.busy =>
        /\ busy
        /\ tx.is_write = ireqs[grant].write /\ tx.start = ireqs[grant].addr
        /\ tx.len = ireqs[grant].len /\ tx.N <= tx.len
        /\ tx.addr = [ireqs[grant].addr EXCEPT !.word = @ + (tx.N - 1)]

\* No line of a set is dirty.
Clean(meta) == \A w \in Ways : ~meta.way[w].dirty

\* The set the instruction cache refills.
Filling(s) == ireq.valid /\ istate = "FETCH" /\ ireq.addr.set = s

\* The instruction cache never has a line to write back.  In the first cycle
\* of FETCH it puts the stale metawrite into meta_ram, a dirty line perhaps:
\* READY leaves one there for a load too.
CodeClean ==
    /\ IFacts!CacheTypeOK
    /\ ireq \in IRequests \cup {NoRequest}
    /\ istate \notin {"WRITEBACK", "WRITEREADY"}
    /\ \A s \in Sets : ~Filling(s) => Clean(imetaram[s])
    /\ ireq.valid /\ istate # "COMPARETAG" => Clean(imetarecord)
    /\ ireq.valid /\ istate = "FETCH" =>
         /\ iindex > 0 => Clean(imetawrite)
         /\ iindex = BeatOf(IPort)

MemInv == DFacts!IInv /\ WiresOK /\ GrantHeld /\ Owner /\ CodeClean

-----------------------------------------------------------------------------
(* The caches as CacheProofs knows them are the caches of MemSystem.       *)

LEMMA SameClock ==
  /\ \A r : DFacts!ClockEdge(r) <=> ClockEdge(r)
  /\ \A r : IFacts!ClockEdge(r) <=> I!ClockEdge(r)
<1>1. \A r : DFacts!ClockEdge(r) <=> ClockEdge(r)
  BY DEF DFacts!ClockEdge, DFacts!RamEdge, DFacts!Idle, DFacts!CompareHit,
    DFacts!CompareMiss, DFacts!WriteBack, DFacts!Fetch, DFacts!Final, DFacts!Ready,
    DFacts!WriteReady, DFacts!Matches, DFacts!FreeWay, DFacts!SetFull, DFacts!WithLine,
    DFacts!metaread, DFacts!NextIndex, DFacts!DirtyLine, DFacts!IsStore, DFacts!Cached,
    DFacts!Ways, DFacts!MetaStrobe, DFacts!DataSlot, DFacts!DataStrobe,
    DFacts!DataWrite, DFacts!Merge,
    ClockEdge, RamEdge, Idle, CompareHit, CompareMiss, WriteBack, Fetch, Final, Ready,
    WriteReady, Matches, FreeWay, SetFull, WithLine, metaread, NextIndex, DirtyLine,
    IsStore, Cached, Ways, MetaStrobe, DataSlot, DataStrobe, DataWrite, Merge
<1>2. \A r : IFacts!ClockEdge(r) <=> I!ClockEdge(r)
  BY DEF IFacts!ClockEdge, IFacts!RamEdge, IFacts!Idle, IFacts!CompareHit,
    IFacts!CompareMiss, IFacts!WriteBack, IFacts!Fetch, IFacts!Final, IFacts!Ready,
    IFacts!WriteReady, IFacts!Matches, IFacts!FreeWay, IFacts!SetFull, IFacts!WithLine,
    IFacts!metaread, IFacts!NextIndex, IFacts!DirtyLine, IFacts!IsStore, IFacts!Cached,
    IFacts!Ways, IFacts!MetaStrobe, IFacts!DataSlot, IFacts!DataStrobe,
    IFacts!DataWrite, IFacts!Merge,
    I!ClockEdge, I!RamEdge, I!Idle, I!CompareHit, I!CompareMiss, I!WriteBack, I!Fetch,
    I!Final, I!Ready, I!WriteReady, I!Matches, I!FreeWay, I!SetFull, I!WithLine,
    I!metaread, I!NextIndex, I!DirtyLine, I!IsStore, I!Cached, I!Ways, I!MetaStrobe,
    I!DataSlot, I!DataStrobe, I!DataWrite, I!Merge
<1>3. QED BY <1>1, <1>2

LEMMA SameSignals ==
  /\ DFacts!CBusValid <=> CBusValid
  /\ DFacts!CBusIsWrite <=> CBusIsWrite
  /\ DFacts!CBusAddr = CBusAddr /\ DFacts!CBusLen = CBusLen
  /\ DFacts!CBusStrobe = CBusStrobe /\ DFacts!CBusData = CBusData
  /\ DFacts!CBusRequest = CBusRequest
  /\ DFacts!IsStore <=> IsStore
  /\ DFacts!Uncached <=> Uncached
  /\ \A r : (DFacts!DataOk(r) <=> DataOk(r)) /\ DFacts!RespData(r) = RespData(r)
BY DEF DFacts!CBusValid, DFacts!CBusIsWrite, DFacts!CBusAddr, DFacts!CBusLen,
  DFacts!CBusStrobe, DFacts!CBusData, DFacts!CBusRequest, DFacts!IsStore, DFacts!DataOk,
  DFacts!RespData, DFacts!Uncached, DFacts!dataread, DFacts!DataSlot,
  CBusValid, CBusIsWrite, CBusAddr, CBusLen, CBusStrobe, CBusData, CBusRequest, IsStore,
  DataOk, RespData, Uncached, dataread, DataSlot

LEMMA SameData ==
  /\ DFacts!Word = Word /\ DFacts!Addr = Addr /\ DFacts!Request = Request
  /\ DFacts!Response = Response /\ IFacts!Response = Response
  /\ DFacts!ZeroWord = ZeroWord /\ DFacts!NoRequest = NoRequest
  /\ DFacts!NoAnswer = NoAnswer
  /\ Arbiter!NoResponse = NoResponse /\ Device!NoResponse = NoResponse
  /\ Arbiter!Silent = Silent
BY DEF DFacts!Word, Word, DFacts!Addr, Addr, DFacts!Request, Request, DFacts!Response,
  IFacts!Response, IFacts!Word, Response, DFacts!ZeroWord, ZeroWord, DFacts!NoRequest,
  NoRequest, DFacts!NoAnswer, NoAnswer, Arbiter!NoResponse, Device!NoResponse,
  NoResponse, Arbiter!ZeroWord, Device!ZeroWord, Arbiter!Silent, Silent, DFacts!Tags,
  Tags, DFacts!Offsets, Offsets

\* What CacheProofs assumes holds of both caches.
LEMMA Surroundings ==
  /\ DRequests \subseteq DFacts!Request /\ Memories \subseteq [DFacts!Addr -> DFacts!Word]
  /\ IRequests \subseteq IFacts!Request /\ Memories \subseteq [IFacts!Addr -> IFacts!Word]
  /\ CachedTags \cap UncachedTags = {} /\ ResetTag \notin CachedTags \cup UncachedTags
  /\ LineWords \in Nat /\ LineWords > 1
  /\ ZeroByte \in Bytes
BY PortAssumption, TagAssumption, LineAssumption, ByteAssumption, SameData
  DEF IFacts!Request, IFacts!Addr, IFacts!Word, IFacts!Tags, IFacts!Offsets, Request,
      Addr, Word, Tags, Offsets

-----------------------------------------------------------------------------
(* The request wires behind the caches.                                    *)

\* A line has more than one word, and a first one.
LEMMA LineFacts ==
  /\ LineWords \in Nat /\ LineWords > 1
  /\ 0 \in Offsets /\ Offsets \subseteq Nat
  /\ \A o \in Offsets : o < LineWords
BY LineAssumption DEF Offsets

\* What the data cache asks of the bus.
LEMMA DataWire ==
  ASSUME MemInv, CBusValid
  PROVE  /\ ireqs[DPort] = CBusRequest /\ CBusRequest.valid = CBusValid
         /\ dreq \in Request
         /\ CBusRequest.write = CBusIsWrite /\ CBusIsWrite \in BOOLEAN
         /\ CBusRequest.addr = CBusAddr /\ CBusAddr \in Addr
         /\ CBusRequest.len = CBusLen
         /\ \/ Uncached /\ CBusLen = 1
            \/ ~Uncached /\ CBusLen = LineWords /\ CBusAddr.word = 0
               /\ state \in {"FETCH", "WRITEBACK"}
<1>1. DFacts!CacheTypeOK
  BY DEF MemInv, DFacts!IInv, DFacts!TypeInv, DFacts!StateTyped
<1>2. dreq \in Request /\ dreq.addr \in Addr
  <2>1. dreq \in DFacts!Request \cup {DFacts!NoRequest} BY <1>1 DEF DFacts!CacheTypeOK
  <2>2. dreq # NoRequest BY DEF CBusValid, NoRequest
  <2>3. QED BY <2>1, <2>2, SameData DEF Request
<1>3. ireqs[DPort] = CBusRequest BY DEF ireqs, DPort, IPort
<1>4. CBusIsWrite \in BOOLEAN BY DEF CBusIsWrite, IsStore
<1>5. CASE Uncached
  BY <1>2, <1>3, <1>4, <1>5 DEF CBusRequest, CBusAddr, CBusLen
<1>6. CASE ~Uncached
  <2>1. state \in {"FETCH", "WRITEBACK"} BY <1>6 DEF CBusValid
  <2>2. CBusAddr \in Addr /\ CBusAddr.word = 0
    <3>1. CASE state = "WRITEBACK"
      <4>1. DFacts!Cached BY <1>6 DEF CBusValid, DFacts!Cached, Uncached
      <4>2. metarecord.way[hit.way].tag \in CachedTags
        BY <1>1, <3>1, <4>1
           DEF MemInv, DFacts!IInv, DFacts!RecordOK, DFacts!MetaOK, DFacts!CacheTypeOK,
               DFacts!WriteBackOK, DFacts!At
      <4>3. CBusAddr = [tag |-> metarecord.way[hit.way].tag, set |-> dreq.addr.set,
                        word |-> 0]
        BY <1>6, <3>1 DEF CBusAddr
      <4>4. QED BY <1>2, <4>2, <4>3, LineFacts DEF Addr, Tags
    <3>2. CASE state # "WRITEBACK"
      <4>1. CBusAddr = [dreq.addr EXCEPT !.word = 0] BY <1>6, <3>2 DEF CBusAddr
      <4>2. QED BY <1>2, <4>1, LineFacts DEF Addr
    <3>3. QED BY <3>1, <3>2
  <2>3. QED BY <1>2, <1>3, <1>4, <1>6, <2>1, <2>2 DEF CBusRequest, CBusLen
<1>7. QED BY <1>5, <1>6

\* What the instruction cache asks of the bus: to read a line.
LEMMA CodeRequest ==
  ASSUME MemInv, ireq.valid
  PROVE  /\ ireq \in Request /\ ireq.strobe = {} /\ ireq.addr \in Addr
         /\ ireq.addr.set \in Sets
         /\ ireq.addr.tag \in CachedTags /\ ireq.addr.tag \notin UncachedTags
<1>1. ireq \in IRequests BY DEF MemInv, CodeClean, NoRequest
<1>2. QED BY <1>1, PortAssumption, TagAssumption DEF Request, Addr

LEMMA CodeWire ==
  ASSUME MemInv
  PROVE  /\ I!CBusValid <=> ireq.valid /\ istate = "FETCH"
         /\ I!CBusValid =>
              /\ ireqs[IPort] = I!CBusRequest /\ I!CBusRequest.valid = I!CBusValid
              /\ I!CBusRequest.write = FALSE /\ I!CBusRequest.len = LineWords
              /\ I!CBusRequest.addr = [ireq.addr EXCEPT !.word = 0]
              /\ [ireq.addr EXCEPT !.word = 0] \in Addr
         /\ ~I!CBusValid => ireqs[IPort] = Silent
<1>1. ireq.valid => ~I!Uncached BY CodeRequest DEF I!Uncached
<1>2. istate # "WRITEBACK" BY DEF MemInv, CodeClean
<1>3. I!CBusValid <=> ireq.valid /\ istate = "FETCH"
  BY <1>1, <1>2 DEF I!CBusValid, I!Uncached
<1>4. ireqs[IPort] = IF I!CBusValid THEN I!CBusRequest ELSE Silent
  BY DEF ireqs, IPort, DPort
<1>5. ASSUME I!CBusValid
      PROVE  /\ ireqs[IPort] = I!CBusRequest /\ I!CBusRequest.valid = I!CBusValid
             /\ I!CBusRequest.write = FALSE /\ I!CBusRequest.len = LineWords
             /\ I!CBusRequest.addr = [ireq.addr EXCEPT !.word = 0]
             /\ [ireq.addr EXCEPT !.word = 0] \in Addr
  <2>1. ~I!Uncached /\ ireq.valid BY <1>1, <1>3, <1>5
  <2>2. I!CBusIsWrite = FALSE BY <1>2, <2>1 DEF I!CBusIsWrite
  <2>3. I!CBusAddr = [ireq.addr EXCEPT !.word = 0] /\ I!CBusLen = LineWords
    BY <1>2, <2>1 DEF I!CBusAddr, I!CBusLen
  <2>4. [ireq.addr EXCEPT !.word = 0] \in Addr BY <2>1, CodeRequest, LineFacts DEF Addr
  <2>5. QED BY <1>4, <1>5, <2>2, <2>3, <2>4 DEF I!CBusRequest
<1>6. QED BY <1>3, <1>4, <1>5

\* A request on a wire.
LEMMA WireFields ==
  ASSUME MemInv, NEW i \in Ports, ireqs[i].valid
  PROVE  /\ ireqs[i].write \in BOOLEAN /\ ireqs[i].addr \in Addr
         /\ ireqs[i].len \in Lengths
         /\ ireqs[i].len = LineWords => ireqs[i].addr.word = 0
         /\ i = DPort => CBusValid
         /\ i = IPort => I!CBusValid /\ ~ireqs[i].write
<1>1. CASE i = DPort
  <2>1. CBusValid BY <1>1 DEF ireqs, Silent, DPort, IPort
  <2>2. QED BY <1>1, <2>1, DataWire, LineFacts DEF Lengths, DPort, IPort
<1>2. CASE i = IPort
  <2>1. I!CBusValid BY <1>2, CodeWire DEF Silent
  <2>2. ireq.addr \in Addr BY <2>1, CodeWire, CodeRequest
  <2>3. ireqs[IPort].addr.word = 0 BY <2>1, <2>2, CodeWire DEF Addr
  <2>4. /\ ireqs[IPort].write = FALSE /\ ireqs[IPort].addr \in Addr
        /\ ireqs[IPort].len = LineWords
    BY <2>1, CodeWire
  <2>5. i # DPort BY <1>2 DEF DPort, IPort
  <2>6. QED BY <1>2, <2>1, <2>3, <2>4, <2>5, LineFacts DEF Lengths
<1>3. QED BY <1>1, <1>2 DEF Ports

-----------------------------------------------------------------------------
(* The bus.                                                                *)

\* The output of the arbiter.
LEMMA Output ==
  ASSUME MemInv
  PROVE  /\ Arbiter!oreq = IF busy THEN ireqs[grant] ELSE Silent
         /\ busy => ireqs[grant].valid /\ grant \in Ports
         /\ tx.busy => busy
BY SameData DEF MemInv, GrantHeld, Owner, WiresOK, Arbiter!oreq

\* What the device and the arbiter answer in a cycle with a beat, and in one
\* without.
LEMMA Answers ==
  ASSUME MemInv
  PROVE  /\ tx.busy => tx \in Transaction
         /\ enable /\ tx.busy =>
              oresp = [ready |-> TRUE, last |-> tx.N = tx.len,
                       data |-> IF tx.is_write THEN ZeroWord ELSE mem[tx.addr]]
         /\ ~(enable /\ tx.busy) => oresp = NoResponse
         /\ dresp = IF busy /\ grant = DPort THEN oresp ELSE NoResponse
         /\ iresp = IF busy /\ grant = IPort THEN oresp ELSE NoResponse
<1>1. tx.busy => tx \in Transaction
  BY DEF MemInv, WiresOK, Device!NoTransaction
<1>2. Device!ZeroWord = ZeroWord BY DEF Device!ZeroWord, ZeroWord
<1>3. QED
  BY <1>1, <1>2, SameData
     DEF oresp, dresp, iresp, Device!DeviceResp, Device!Last, Arbiter!iresp

\* The arbiter keeps its grant to the last beat, and grants a request that is
\* being made.
LEMMA GrantEdge ==
  ASSUME MemInv, Next
  PROVE  /\ busy => busy' = ~oresp.last /\ grant' = grant
         /\ ~busy => busy' \in BOOLEAN /\ grant' \in Ports
                     /\ (busy' => ireqs[grant'].valid)
<1>1. Arbiter!ArbiterEdge(oresp) BY DEF Next
<1>2. Arbiter!Inputs = Ports BY DEF Arbiter!Inputs, Ports, DPort, IPort
<1>3. Arbiter!select \in Ports
  <2>1. CASE ireqs[DPort].valid
    <3>1. DPort \in Ports /\ \A j \in Ports : j < DPort => ~ireqs[j].valid
      BY DEF Ports, DPort, IPort
    <3>2. QED BY <1>2, <2>1, <3>1 DEF Arbiter!select
  <2>2. CASE ~ireqs[DPort].valid /\ ireqs[IPort].valid
    <3>1. IPort \in Ports /\ \A j \in Ports : j < IPort => ~ireqs[j].valid
      BY <2>2 DEF Ports, DPort, IPort
    <3>2. QED BY <1>2, <2>2, <3>1 DEF Arbiter!select
  <2>3. CASE ~ireqs[DPort].valid /\ ~ireqs[IPort].valid
    BY <1>2, <2>3 DEF Arbiter!select, Ports, DPort, IPort
  <2>4. QED BY <2>1, <2>2, <2>3
<1>4. \A i \in Ports : ireqs[i].valid \in BOOLEAN
  <2>1. CBusValid \in BOOLEAN => ireqs[DPort].valid \in BOOLEAN
    BY DataWire DEF ireqs, Silent, DPort, IPort
  <2>2. I!CBusValid \in BOOLEAN => ireqs[IPort].valid \in BOOLEAN
    <3>1. CASE I!CBusValid
      <4>1. ireqs[IPort] = I!CBusRequest /\ I!CBusRequest.valid = I!CBusValid
        BY <3>1, CodeWire
      <4>2. QED BY <4>1
    <3>2. CASE ~I!CBusValid
      <4>1. ireqs[IPort] = Silent BY <3>2, CodeWire
      <4>2. QED BY <4>1 DEF Silent
    <3>3. QED BY <3>1, <3>2
  <2>3. CBusValid \in BOOLEAN /\ I!CBusValid \in BOOLEAN BY DEF CBusValid, I!CBusValid
  <2>4. QED BY <2>1, <2>2, <2>3 DEF Ports
<1>5. QED BY <1>1, <1>3, <1>4 DEF Arbiter!ArbiterEdge

\* The device.
LEMMA DeviceMoves ==
  ASSUME MemInv, Next
  PROVE  /\ enable' \in BOOLEAN
         /\ ~enable => tx' = tx /\ mem' = mem
         /\ enable /\ ~tx.busy =>
              /\ tx' = IF busy THEN Device!Start(ireqs[grant]) ELSE tx
              /\ mem' = mem
         /\ enable /\ tx.busy =>
              /\ tx' = IF tx.N = tx.len THEN Device!NoTransaction
                       ELSE [tx EXCEPT !.N = @ + 1,
                                       !.addr = Device!NextAddr(tx.addr, tx.len)]
              /\ mem' = IF tx.is_write
                          THEN [mem EXCEPT ![tx.addr] =
                                   Merge(mem[tx.addr], WireStrobe, WireData)]
                          ELSE mem
<1>1. Device!DeviceEdge(Arbiter!oreq, WireStrobe, WireData) BY DEF Next
<1>2. Arbiter!oreq.valid <=> busy BY Output DEF Silent
<1>3. busy => Arbiter!oreq = ireqs[grant] BY Output
<1>4. QED
  BY <1>1, <1>2, <1>3 DEF Device!DeviceEdge, Device!Last, Device!Merge, Merge

\* Where a transaction has got to.
LEMMA TransactionFacts ==
  ASSUME MemInv, tx.busy
  PROVE  /\ tx \in Transaction /\ busy /\ grant \in Ports /\ ireqs[grant].valid
         /\ ireqs[grant].addr \in Addr
         /\ tx.is_write = ireqs[grant].write /\ tx.len = ireqs[grant].len
         /\ tx.len \in Lengths
         /\ tx.N \in Nat /\ tx.N >= 1 /\ tx.N <= tx.len
         /\ tx.N - 1 \in Nat /\ (tx.N - 1) + 1 = tx.N
         /\ tx.len = LineWords => ireqs[grant].addr.word = 0
         /\ tx.len = 1 => tx.N = 1
         /\ tx.addr = [ireqs[grant].addr EXCEPT !.word = @ + (tx.N - 1)]
         /\ tx.addr.word = ireqs[grant].addr.word + (tx.N - 1)
         /\ tx.addr \in Addr
<1>1. /\ tx \in Transaction /\ busy /\ grant \in Ports /\ ireqs[grant].valid
  BY Answers, Output
<1>2. /\ tx.is_write = ireqs[grant].write /\ tx.len = ireqs[grant].len /\ tx.N <= tx.len
      /\ tx.addr = [ireqs[grant].addr EXCEPT !.word = @ + (tx.N - 1)]
  BY DEF MemInv, Owner
<1>3. /\ ireqs[grant].addr \in Addr /\ ireqs[grant].addr.word \in Offsets
      /\ tx.len \in Lengths
      /\ tx.len = LineWords => ireqs[grant].addr.word = 0
  BY <1>1, <1>2, WireFields DEF Addr
<1>4. /\ tx.N \in Nat /\ tx.N >= 1 /\ tx.N - 1 \in Nat /\ (tx.N - 1) + 1 = tx.N
      /\ tx.len = 1 => tx.N = 1
  BY <1>1, <1>2, LineFacts DEF Transaction
<1>5. tx.addr.word = ireqs[grant].addr.word + (tx.N - 1)
  BY <1>2, <1>3 DEF Addr
<1>6. tx.addr.word \in Offsets
  <2>1. CASE tx.len = 1
    <3>1. tx.N - 1 = 0 BY <1>4, <2>1
    <3>2. tx.addr.word = ireqs[grant].addr.word + 0 BY <1>5, <3>1
    <3>3. QED BY <1>3, <3>2, LineFacts DEF Offsets
  <2>2. CASE tx.len = LineWords
    <3>1. tx.addr.word = tx.N - 1 BY <1>3, <1>4, <1>5, <2>2
    <3>2. QED BY <1>2, <1>4, <2>2, <3>1, LineFacts DEF Offsets
  <2>3. QED BY <1>3, <2>1, <2>2 DEF Lengths
<1>7. tx.addr \in Addr BY <1>2, <1>3, <1>5, <1>6 DEF Addr
<1>8. QED BY <1>1, <1>2, <1>3, <1>4, <1>5, <1>7

LEMMA SmallQuotient ==
  ASSUME NEW n \in Nat, n < LineWords
  PROVE  n \div LineWords = 0 /\ n % LineWords = n
BY LineAssumption

\* The next word of a burst.
LEMMA NextWord ==
  ASSUME MemInv, tx.busy, tx.N # tx.len
  PROVE  /\ tx.len = LineWords
         /\ Device!NextAddr(tx.addr, tx.len) = [ireqs[grant].addr EXCEPT !.word = @ + tx.N]
         /\ Device!NextAddr(tx.addr, tx.len) \in Addr
         /\ tx.N + 1 <= tx.len /\ tx.N + 1 \in 1 .. LineWords
         /\ (tx.N + 1) - 1 = tx.N
<1>1. /\ tx.len = LineWords /\ ireqs[grant].addr.word = 0 /\ ireqs[grant].addr \in Addr
      /\ tx.N \in Nat /\ tx.N < LineWords
      /\ tx.addr = [ireqs[grant].addr EXCEPT !.word = @ + (tx.N - 1)]
      /\ tx.addr.word = tx.N - 1
  BY TransactionFacts, LineFacts DEF Lengths
<1>2. /\ tx.N + 1 <= tx.len /\ tx.N + 1 \in 1 .. LineWords /\ (tx.N + 1) - 1 = tx.N
      /\ 0 + tx.N = tx.N /\ tx.N \in Offsets
      /\ tx.addr.word \in Nat /\ tx.addr.word < LineWords /\ tx.addr.word + 1 = tx.N
  BY <1>1, TransactionFacts, LineFacts DEF Offsets
<1>3. tx.addr.word \div LineWords = 0 BY <1>2, SmallQuotient
<1>4. (tx.addr.word \div LineWords) * LineWords = 0 BY <1>3, LineFacts
<1>5. Device!NextAddr(tx.addr, tx.len) = [tx.addr EXCEPT !.word = tx.N]
  <2>1. ~(tx.addr.word + 1 >= 0 + LineWords) BY <1>1, <1>2, LineFacts
  <2>2. QED BY <1>1, <1>2, <1>4, <2>1 DEF Device!NextAddr
<1>6. [tx.addr EXCEPT !.word = tx.N] = [ireqs[grant].addr EXCEPT !.word = @ + tx.N]
  BY <1>1, <1>2 DEF Addr
<1>7. [tx.addr EXCEPT !.word = tx.N] \in Addr BY <1>2, TransactionFacts DEF Addr
<1>8. QED BY <1>1, <1>2, <1>5, <1>6, <1>7

-----------------------------------------------------------------------------
(* The data cache.                                                         *)

\* How far a cache's burst has got, before and after the edge.
LEMMA BeatEdge ==
  ASSUME MemInv, Next, NEW p \in Ports
  PROVE  /\ ~(busy /\ grant = p /\ enable /\ tx.busy) => BeatOf(p)' = BeatOf(p)
         /\ busy /\ grant = p /\ enable /\ tx.busy =>
              /\ BeatOf(p) = tx.N - 1
              /\ BeatOf(p)' = IF tx.N = tx.len THEN 0 ELSE BeatOf(p) + 1
<1>1. CASE ~(enable /\ tx.busy)
  <2>1. oresp = NoResponse BY <1>1, Answers
  <2>2. busy => busy' = TRUE /\ grant' = grant BY <2>1, GrantEdge DEF NoResponse
  <2>3. CASE tx' = tx
    <3>1. CASE tx.busy
      <4>1. busy /\ busy' /\ grant' = grant BY <2>2, <3>1, Output
      <4>2. QED BY <1>1, <2>3, <3>1, <4>1 DEF BeatOf
    <3>2. CASE ~tx.busy BY <1>1, <2>3, <3>2 DEF BeatOf
    <3>3. QED BY <3>1, <3>2
  <2>4. CASE ~tx.busy /\ busy /\ tx' = Device!Start(ireqs[grant])
    BY <2>4 DEF BeatOf, Device!Start
  <2>5. QED BY <1>1, <2>3, <2>4, DeviceMoves
<1>2. CASE enable /\ tx.busy
  <2>1. busy /\ busy' = ~(tx.N = tx.len) /\ grant' = grant
    <3>1. busy BY <1>2, Output
    <3>2. oresp.last = (tx.N = tx.len) BY <1>2, Answers
    <3>3. QED BY <3>1, <3>2, GrantEdge
  <2>2. CASE tx.N = tx.len
    <3>1. tx' = Device!NoTransaction BY <1>2, <2>2, DeviceMoves
    <3>2. BeatOf(p)' = 0 BY <3>1 DEF BeatOf, Device!NoTransaction
    <3>3. QED BY <1>2, <2>1, <2>2, <3>2 DEF BeatOf
  <2>3. CASE tx.N # tx.len
    <3>1. tx' = [tx EXCEPT !.N = @ + 1, !.addr = Device!NextAddr(tx.addr, tx.len)]
      BY <1>2, <2>3, DeviceMoves
    <3>2. tx'.busy = TRUE /\ tx'.N = tx.N + 1
      BY <1>2, <3>1, TransactionFacts DEF Transaction
    <3>3. BeatOf(p)' = IF grant = p THEN (tx.N + 1) - 1 ELSE 0
      BY <2>1, <2>3, <3>2 DEF BeatOf
    <3>4. BeatOf(p) = IF grant = p THEN tx.N - 1 ELSE 0 BY <1>2, <2>1 DEF BeatOf
    <3>5. (tx.N + 1) - 1 = (tx.N - 1) + 1 BY <1>2, TransactionFacts
    <3>6. QED BY <1>2, <2>1, <2>3, <3>3, <3>4, <3>5
  <2>4. QED BY <2>2, <2>3
<1>3. QED BY <1>1, <1>2

\* A cycle in which the data cache gets no beat: its memory stands still, for
\* the instruction cache only reads.
LEMMA DataWaits ==
  ASSUME MemInv, Next, ~(busy /\ grant = DPort /\ enable /\ tx.busy)
  PROVE  /\ dresp = NoResponse
         /\ mem' = mem
<1>1. dresp = NoResponse BY Answers
<1>2. CASE enable /\ tx.busy
  <2>1. grant = IPort BY <1>2, TransactionFacts DEF Ports
  <2>2. ~tx.is_write BY <1>2, <2>1, TransactionFacts, WireFields
  <2>3. QED BY <1>1, <1>2, <2>2, DeviceMoves
<1>3. CASE ~(enable /\ tx.busy)
  BY <1>1, <1>3, DeviceMoves
<1>4. QED BY <1>2, <1>3

\* A cycle in which it gets one: the word is the one it has got to.
LEMMA DataServed ==
  ASSUME MemInv, Next, busy, grant = DPort, enable, tx.busy
  PROVE  /\ CBusValid /\ tx.addr = DFacts!BeatAddr
         /\ tx.is_write = CBusIsWrite /\ tx.N = BeatOf(DPort) + 1
         /\ (tx.N = tx.len) = DFacts!LastBeat
         /\ dresp = [ready |-> TRUE, last |-> DFacts!LastBeat,
                     data |-> IF CBusIsWrite THEN ZeroWord ELSE mem[tx.addr]]
         /\ mem' = IF CBusIsWrite
                     THEN [mem EXCEPT ![tx.addr] = Merge(mem[tx.addr], CBusStrobe, CBusData)]
                     ELSE mem
<1>1. ireqs[DPort].valid /\ DPort \in Ports BY Output
<1>2. CBusValid BY <1>1, WireFields
<1>3. /\ tx.is_write = CBusIsWrite /\ tx.len = CBusLen
      /\ tx.addr = [CBusAddr EXCEPT !.word = @ + (tx.N - 1)]
      /\ CBusAddr \in Addr
  BY <1>2, TransactionFacts, DataWire
<1>4. BeatOf(DPort) = tx.N - 1 /\ tx.N = BeatOf(DPort) + 1
  BY TransactionFacts, <1>1, BeatEdge
<1>5. tx.addr = DFacts!BeatAddr
  <2>1. tx.addr.word = CBusAddr.word + (tx.N - 1) /\ tx.addr.word \in Offsets
    BY <1>2, <1>3, TransactionFacts DEF Addr
  <2>2. (CBusAddr.word + (tx.N - 1)) % LineWords = CBusAddr.word + (tx.N - 1)
    BY <2>1, LineFacts, SmallQuotient
  <2>3. QED BY <1>3, <1>4, <2>2, SameSignals DEF DFacts!BeatAddr
<1>6. (tx.N = tx.len) = DFacts!LastBeat
  BY <1>3, <1>4, TransactionFacts, SameSignals, LineFacts DEF DFacts!LastBeat, Lengths
<1>7. dresp = [ready |-> TRUE, last |-> DFacts!LastBeat,
               data |-> IF CBusIsWrite THEN ZeroWord ELSE mem[tx.addr]]
  <2>1. dresp = [ready |-> TRUE, last |-> tx.N = tx.len,
                 data |-> IF tx.is_write THEN ZeroWord ELSE mem[tx.addr]]
    BY Answers
  <2>2. QED BY <1>3, <1>6, <2>1
<1>8. WireStrobe = CBusStrobe /\ WireData = CBusData
  BY <1>2 DEF WireStrobe, WireData
<1>9. QED BY <1>2, <1>3, <1>4, <1>5, <1>6, <1>7, <1>8, DeviceMoves

\* Seen from the data cache, an edge of the memory system is a step of
\* CacheSystem: everything beside the cache answers it like a memory.
LEMMA DataStep ==
  ASSUME MemInv, Next
  PROVE  dresp \in DFacts!Responses /\ DFacts!Step(dresp)
<1>1. DFacts!ClockEdge(dresp) BY SameClock DEF Next
<1>2. DFacts!Master(dresp)
  BY SameSignals, SameData DEF Next, DataPort, DFacts!Master, DFacts!NextRequests
<1>3. ZeroWord \in DFacts!Word BY ByteAssumption DEF ZeroWord, DFacts!Word
<1>4. CASE busy /\ grant = DPort /\ enable /\ tx.busy
  <2>1. dresp \in DFacts!Responses
    <3>1. CASE CBusIsWrite
      BY <1>3, <1>4, <3>1, DataServed, SameSignals DEF DFacts!Responses, DFacts!Beat
    <3>2. CASE ~CBusIsWrite
      BY <1>4, <3>2, DataServed, SameSignals DEF DFacts!Responses, DFacts!Beat
    <3>3. QED BY <3>1, <3>2
  <2>2. DFacts!Memory(dresp)
    <3>1. BeatOf(DPort)' = IF dresp.last THEN 0 ELSE BeatOf(DPort) + 1
      <4>1. (tx.N = tx.len) = dresp.last BY <1>4, DataServed
      <4>2. BeatOf(DPort)' = IF tx.N = tx.len THEN 0 ELSE BeatOf(DPort) + 1
        BY <1>4, BeatEdge DEF Ports
      <4>3. QED BY <4>1, <4>2
    <3>2. dresp.ready BY <1>4, DataServed
    <3>3. QED
      BY <1>4, <3>1, <3>2, DataServed, SameSignals DEF DFacts!Memory, DFacts!Merge, Merge
  <2>3. QED BY <1>1, <1>2, <2>1, <2>2 DEF DFacts!Step
<1>5. CASE ~(busy /\ grant = DPort /\ enable /\ tx.busy)
  <2>1. dresp = NoResponse /\ mem' = mem BY <1>5, DataWaits
  <2>2. BeatOf(DPort)' = BeatOf(DPort) BY <1>5, BeatEdge DEF Ports
  <2>3. dresp \in DFacts!Responses
    BY <1>3, <2>1 DEF NoResponse, DFacts!Responses, DFacts!NotReady
  <2>4. DFacts!Memory(dresp) BY <2>1, <2>2 DEF NoResponse, DFacts!Memory
  <2>5. QED BY <1>1, <1>2, <2>3, <2>4 DEF DFacts!Step
<1>6. QED BY <1>4, <1>5

\* Its request stays up to the last beat.
LEMMA DataRequestHeld ==
  ASSUME MemInv, Next, CBusValid, ~dresp.last
  PROVE  CBusValid' /\ CBusRequest' = CBusRequest
<1>1. /\ dresp \in DFacts!Responses /\ DFacts!IInv /\ DFacts!CBusValid
      /\ DFacts!Edge(dresp)
  BY DataStep, SameSignals, Surroundings, DFacts!StepIsEdge DEF MemInv
<1>2. DFacts!CBusRequest' = DFacts!CBusRequest
  BY <1>1, Surroundings, DFacts!HeldEdge
<1>3. /\ DFacts!CBusRequest = CBusRequest
      /\ DFacts!CBusRequest' = CBusRequest'
      /\ CBusRequest.valid = CBusValid /\ CBusRequest'.valid = CBusValid'
  BY DEF DFacts!CBusRequest, CBusRequest, DFacts!CBusValid, CBusValid, DFacts!CBusIsWrite,
    CBusIsWrite, DFacts!CBusAddr, CBusAddr, DFacts!CBusLen, CBusLen, DFacts!Uncached,
    Uncached, DFacts!IsStore, IsStore
<1>4. QED BY <1>2, <1>3

\* CacheProofs' invariant of the data cache survives.
LEMMA DataInvStep ==
  ASSUME MemInv, Next
  PROVE  DFacts!IInv'
<1>1. DFacts!Next BY DataStep DEF DFacts!Next
<1>2. QED BY <1>1, Surroundings, DFacts!IInvStep DEF MemInv

-----------------------------------------------------------------------------
(* The instruction cache.                                                  *)

\* What the fetch port does to its request.
LEMMA FetchPortMoves ==
  ASSUME MemInv, Next
  PROVE  /\ ireq' \in IRequests \cup {NoRequest}
         /\ ireq.valid => ireq' \in {ireq, NoRequest}
         /\ ireq.valid /\ istate \in {"FETCH", "FINAL"} => ireq' = ireq
<1>1. ireq.valid => ~I!Uncached BY CodeRequest DEF I!Uncached
<1>2. I!DataOk(iresp) => ireq.valid /\ istate \notin {"COMPARETAG", "FETCH", "FINAL"}
  BY <1>1 DEF I!DataOk
<1>3. FetchPort BY DEF Next
<1>4. QED BY <1>2, <1>3 DEF FetchPort, MemInv, CodeClean

\* The response the instruction cache sees.
LEMMA CodeResponse ==
  ASSUME MemInv
  PROVE  iresp \in IFacts!Response
<1>1. ZeroWord \in Word BY ByteAssumption DEF ZeroWord, Word
<1>2. mem \in [Addr -> Word]
  BY SameData DEF MemInv, DFacts!IInv, DFacts!TypeInv, DFacts!StateTyped
<1>3. oresp \in Response
  <2>1. CASE enable /\ tx.busy
    <3>1. tx.addr \in Addr BY <2>1, TransactionFacts
    <3>2. (IF tx.is_write THEN ZeroWord ELSE mem[tx.addr]) \in Word
      BY <1>1, <1>2, <3>1
    <3>3. oresp = [ready |-> TRUE, last |-> tx.N = tx.len,
                   data |-> IF tx.is_write THEN ZeroWord ELSE mem[tx.addr]]
      BY <2>1, Answers
    <3>4. (tx.N = tx.len) \in BOOLEAN OBVIOUS
    <3>5. QED BY <3>2, <3>3, <3>4 DEF Response
  <2>2. CASE ~(enable /\ tx.busy)
    <3>1. oresp = NoResponse BY <2>2, Answers
    <3>2. QED BY <1>1, <3>1 DEF Response, NoResponse
  <2>3. QED BY <2>1, <2>2
<1>4. NoResponse \in Response BY <1>1 DEF Response, NoResponse
<1>5. QED BY <1>3, <1>4, Answers, SameData

\* Its burst and the device's count the same words, and end together.
LEMMA CodeBurst ==
  ASSUME MemInv, Next, ireq.valid, istate = "FETCH"
  PROVE  /\ iindex' = BeatOf(IPort)'
         /\ iresp.last => iindex > 0
<1>1. IPort \in Ports /\ iindex = BeatOf(IPort) BY DEF Ports, MemInv, CodeClean
<1>2. I!Fetch(iresp)
  <2>1. I!ClockEdge(iresp) BY DEF Next
  <2>2. QED
    BY <2>1 DEF I!ClockEdge, I!Idle, I!CompareHit, I!CompareMiss, I!WriteBack, I!Final,
                I!Ready, I!WriteReady
<1>3. iindex' = I!NextIndex(iresp) BY <1>2 DEF I!Fetch
<1>4. CASE busy /\ grant = IPort /\ enable /\ tx.busy
  <2>1. iresp.ready = TRUE /\ iresp.last = (tx.N = tx.len) BY <1>4, Answers
  <2>2. tx.len = LineWords BY <1>4, TransactionFacts, CodeWire
  <2>3. CASE tx.N = tx.len
    BY <1>1, <1>3, <1>4, <2>1, <2>2, <2>3, BeatEdge, LineFacts DEF I!NextIndex
  <2>4. CASE tx.N # tx.len
    <3>1. iindex + 1 = tx.N /\ tx.N \in Nat /\ tx.N < LineWords
      BY <1>1, <1>4, <2>2, <2>4, BeatEdge, TransactionFacts, LineFacts
    <3>2. (iindex + 1) % LineWords = iindex + 1 BY <3>1, SmallQuotient
    <3>3. QED BY <1>1, <1>3, <1>4, <2>1, <2>4, <3>2, BeatEdge DEF I!NextIndex
  <2>5. QED BY <2>3, <2>4
<1>5. CASE ~(busy /\ grant = IPort /\ enable /\ tx.busy)
  <2>1. iresp = NoResponse BY <1>5, Answers
  <2>2. BeatOf(IPort)' = BeatOf(IPort) BY <1>1, <1>5, BeatEdge
  <2>3. QED BY <1>1, <1>3, <2>1, <2>2 DEF I!NextIndex, NoResponse
<1>6. QED BY <1>4, <1>5

\* Its request stays up to the last beat: the fetch port withdraws it only
\* while the tags are compared.
LEMMA CodeRequestHeld ==
  ASSUME MemInv, Next, I!CBusValid, ~iresp.last
  PROVE  I!CBusValid' /\ I!CBusRequest' = I!CBusRequest
<1>1. ireq.valid /\ istate = "FETCH" BY CodeWire
<1>2. ireq' = ireq BY <1>1, FetchPortMoves
<1>3. istate' = "FETCH"
  BY <1>1 DEF Next, I!ClockEdge, I!Idle, I!CompareHit, I!CompareMiss, I!WriteBack,
              I!Fetch, I!Final, I!Ready, I!WriteReady
<1>4. ~I!Uncached /\ ~I!Uncached' BY <1>1, <1>2, CodeRequest DEF I!Uncached
<1>5. QED
  BY <1>1, <1>2, <1>3, <1>4
     DEF I!CBusValid, I!CBusRequest, I!CBusIsWrite, I!CBusAddr, I!CBusLen

\* Its registers and RAMs stay in their types.
LEMMA CodeTyped ==
  ASSUME MemInv, Next
  PROVE  IFacts!CacheTypeOK' /\ ireq' \in IRequests \cup {NoRequest}
<1>1. IFacts!CacheTypeOK /\ iresp \in IFacts!Response
  BY CodeResponse DEF MemInv, CodeClean
<1>2. IFacts!ClockEdge(iresp) BY SameClock DEF Next
<1>3. IFacts!RamEdge(iresp) BY <1>2 DEF IFacts!ClockEdge
<1>4. imetaram' \in [Sets -> IFacts!SetMeta] /\ idataram' \in [IFacts!Slots -> IFacts!Word]
  BY <1>1, <1>3, Surroundings, IFacts!RamEdgeTyped
<1>5. /\ istate' \in IFacts!States
      /\ ihit' \in [match : BOOLEAN, way : IFacts!Ways]
      /\ iindex' \in IFacts!Offsets
      /\ imetarecord' \in IFacts!SetMeta
      /\ imetawrite' \in IFacts!SetMeta
  BY <1>1, <1>2, Surroundings, IFacts!RegistersTyped
<1>6. ireq' \in IRequests \cup {NoRequest} BY FetchPortMoves
<1>7. ireq' \in IFacts!Request \cup {IFacts!NoRequest}
  BY <1>6, Surroundings DEF NoRequest, IFacts!NoRequest
<1>8. QED BY <1>4, <1>5, <1>6, <1>7 DEF IFacts!CacheTypeOK

\* It writes meta_ram in FETCH only.
LEMMA CodeRam ==
  ASSUME MemInv, Next
  PROVE  imetaram' = IF ireq.valid /\ istate = "FETCH"
                       THEN [imetaram EXCEPT ![ireq.addr.set] = imetawrite]
                       ELSE imetaram
<1>1. I!RamEdge(iresp) BY DEF Next, I!ClockEdge
<1>2. ireq.valid => ~I!IsStore /\ I!Cached BY CodeRequest DEF I!IsStore, I!Cached
<1>3. QED BY <1>1, <1>2 DEF I!RamEdge, I!MetaStrobe, I!Cached

\* The metadata FETCH builds is clean if the set's was.
LEMMA RefilledClean ==
  ASSUME NEW meta \in IFacts!SetMeta, NEW w \in Ways, NEW tag, NEW cnt, Clean(meta)
  PROVE  Clean([I!WithLine(meta, w, FALSE, tag) EXCEPT !.cnt = cnt])
<1> DEFINE new == [I!WithLine(meta, w, FALSE, tag) EXCEPT !.cnt = cnt]
<1>1. meta.way \in [Ways -> IFacts!LineMeta] BY DEF IFacts!SetMeta, IFacts!Ways, Ways
<1>2. new.way = [meta.way EXCEPT ![w] = [valid |-> TRUE, dirty |-> FALSE, tag |-> tag]]
  BY DEF I!WithLine, IFacts!SetMeta
<1> HIDE DEF new
<1>3. ASSUME NEW v \in Ways PROVE ~new.way[v].dirty
  <2>1. CASE v = w
    <3>1. new.way[v].dirty = FALSE BY <1>1, <1>2, <2>1
    <3>2. QED BY <3>1
  <2>2. CASE v # w
    <3>1. new.way[v] = meta.way[v] BY <1>1, <1>2, <2>2
    <3>2. QED BY <3>1 DEF Clean
  <2>3. QED BY <2>1, <2>2
<1>4. Clean(new) BY <1>3 DEF Clean
<1>5. QED BY <1>4 DEF new

\* It stays clean.
LEMMA CodeCleanStep ==
  ASSUME MemInv, Next
  PROVE  CodeClean'
<1>1. IFacts!CacheTypeOK' /\ ireq' \in IRequests \cup {NoRequest} BY CodeTyped
<1>2. I!ClockEdge(iresp) BY DEF Next
<1>3. /\ IFacts!CacheTypeOK
      /\ istate \notin {"WRITEBACK", "WRITEREADY"}
      /\ \A s \in Sets : ~Filling(s) => Clean(imetaram[s])
      /\ ireq.valid /\ istate # "COMPARETAG" => Clean(imetarecord)
  BY DEF MemInv, CodeClean
<1>4. istate \in States
  BY <1>3 DEF IFacts!CacheTypeOK, IFacts!States, States
\* A cycle without a burst: meta_ram stands still.
<1>5. ASSUME istate' # "WRITEBACK", istate' # "WRITEREADY",
             ~(ireq.valid /\ istate = "FETCH"),
             istate' # "COMPARETAG" => Clean(imetarecord'),
             istate' = "FETCH" => iindex' = 0 /\ BeatOf(IPort)' = 0
      PROVE  CodeClean'
  <2>1. imetaram' = imetaram BY <1>5, CodeRam
  <2>2. \A s \in Sets : Clean(imetaram'[s]) BY <1>3, <1>5, <2>1 DEF Filling
  <2>3. ~(iindex' > 0) \/ istate' # "FETCH" BY <1>5
  <2>4. QED BY <1>1, <1>5, <2>2, <2>3 DEF CodeClean, Clean
<1>6. CASE ~ireq.valid
  <2>1. istate' = "COMPARETAG"
    BY <1>2, <1>6 DEF I!ClockEdge, I!Idle, I!CompareHit, I!CompareMiss, I!WriteBack,
                      I!Fetch, I!Final, I!Ready, I!WriteReady
  <2>2. QED BY <1>5, <1>6, <2>1
<1>7. CASE ireq.valid /\ istate = "COMPARETAG"
  <2>1. I!CompareHit \/ I!CompareMiss
    BY <1>2, <1>7 DEF I!ClockEdge, I!Idle, I!WriteBack, I!Fetch, I!Final, I!Ready,
                      I!WriteReady
  <2>2. /\ Clean(I!metaread) /\ imetarecord' = I!metaread /\ iindex' = 0
    BY <1>3, <1>7, <2>1, CodeRequest DEF I!metaread, Filling, I!CompareHit, I!CompareMiss
  <2>3. istate' \in {"READY", "FETCH"}
    <3>1. CASE I!CompareHit BY <3>1 DEF I!CompareHit
    <3>2. CASE I!CompareMiss
      <4>1. I!metaread \in IFacts!SetMeta
        BY <1>3, <1>7, CodeRequest DEF IFacts!CacheTypeOK, I!metaread
      <4>2. I!FreeWay \in Ways
        BY <4>1 DEF I!FreeWay, IFacts!SetMeta, IFacts!Ways, Ways
      <4>3. ~I!metaread.way[I!FreeWay].dirty BY <2>2, <4>2 DEF Clean
      <4>4. QED BY <3>2, <4>3 DEF I!CompareMiss
    <3>3. QED BY <2>1, <3>1, <3>2
  <2>4. BeatOf(IPort)' = 0
    <3>1. ~(busy /\ grant = IPort)
      BY <1>7, Output, CodeWire DEF Silent
    <3>2. BeatOf(IPort)' = BeatOf(IPort) BY <3>1, BeatEdge DEF Ports
    <3>3. QED BY <3>1, <3>2 DEF BeatOf
  <2>5. QED BY <1>5, <1>7, <2>2, <2>3, <2>4
<1>8. CASE ireq.valid /\ istate = "FETCH"
  <2>1. I!Fetch(iresp)
    BY <1>2, <1>8 DEF I!ClockEdge, I!Idle, I!CompareHit, I!CompareMiss, I!WriteBack,
                      I!Final, I!Ready, I!WriteReady
  <2>2. ireq' = ireq BY <1>8, FetchPortMoves
  <2>3. imetarecord' = imetarecord /\ istate' = IF iresp.last THEN "FINAL" ELSE "FETCH"
    BY <2>1 DEF I!Fetch
  <2>4. Clean(imetawrite')
    <3>1. imetarecord \in IFacts!SetMeta /\ ihit.way \in Ways
      BY <1>3 DEF IFacts!CacheTypeOK, IFacts!Ways, Ways
    <3>2. Clean(imetarecord) BY <1>3, <1>8
    <3>3. imetawrite' = [I!WithLine(imetarecord, ihit.way, FALSE, ireq.addr.tag)
                            EXCEPT !.cnt = 1 - imetarecord.cnt]
      BY <2>1 DEF I!Fetch
    <3>4. QED BY <3>1, <3>2, <3>3, RefilledClean
  <2>5. iindex' = BeatOf(IPort)' /\ (iresp.last => iindex > 0) BY <1>8, CodeBurst
  <2>6. ASSUME NEW s \in Sets, ~Filling(s)' PROVE Clean(imetaram'[s])
    <3>1. imetaram' = [imetaram EXCEPT ![ireq.addr.set] = imetawrite] BY <1>8, CodeRam
    <3>2. imetaram \in [Sets -> IFacts!SetMeta] BY <1>3 DEF IFacts!CacheTypeOK
    <3>3. CASE s = ireq.addr.set
      <4>1. iresp.last BY <1>8, <2>2, <2>3, <2>6, <3>3 DEF Filling
      <4>2. Clean(imetawrite) BY <1>8, <2>5, <4>1 DEF MemInv, CodeClean
      <4>3. QED BY <3>1, <3>2, <3>3, <4>2
    <3>4. CASE s # ireq.addr.set
      <4>1. Clean(imetaram[s]) BY <1>3, <3>4 DEF Filling
      <4>2. QED BY <3>1, <3>2, <3>4, <4>1
    <3>5. QED BY <3>3, <3>4
  <2>7. Clean(imetarecord') BY <1>3, <1>8, <2>3
  <2>8. QED BY <1>1, <2>3, <2>4, <2>5, <2>6, <2>7 DEF CodeClean, Clean
<1>9. CASE ireq.valid /\ istate = "FINAL"
  <2>1. istate' = "READY" /\ imetarecord' = imetarecord
    BY <1>2, <1>9 DEF I!ClockEdge, I!Idle, I!CompareHit, I!CompareMiss, I!WriteBack,
                      I!Fetch, I!Final, I!Ready, I!WriteReady
  <2>2. QED BY <1>3, <1>5, <1>9, <2>1
<1>10. CASE ireq.valid /\ istate = "READY"
  <2>1. ~I!IsStore BY <1>10, CodeRequest DEF I!IsStore
  <2>2. istate' = "COMPARETAG"
    BY <1>2, <1>10, <2>1 DEF I!ClockEdge, I!Idle, I!CompareHit, I!CompareMiss,
                      I!WriteBack, I!Fetch, I!Final, I!Ready, I!WriteReady
  <2>3. QED BY <1>5, <1>10, <2>2
<1>11. QED BY <1>3, <1>4, <1>6, <1>7, <1>8, <1>9, <1>10 DEF States

-----------------------------------------------------------------------------
(* The bus keeps to its owner.                                             *)

\* A request stays up until its last beat.
LEMMA WireHeld ==
  ASSUME MemInv, Next, NEW i \in Ports, ireqs[i].valid,
         busy /\ grant = i => ~oresp.last
  PROVE  ireqs'[i] = ireqs[i] /\ ireqs'[i].valid
<1>1. ~NoResponse.last BY DEF NoResponse
<1>2. CASE i = DPort
  <2>1. CBusValid BY <1>2, WireFields
  <2>2. ~dresp.last BY <1>1, <1>2, Answers
  <2>3. CBusValid' /\ CBusRequest' = CBusRequest BY <2>1, <2>2, DataRequestHeld
  <2>4. ireqs[DPort] = CBusRequest BY <2>1 DEF ireqs, DPort, IPort
  <2>5. ireqs'[DPort] = CBusRequest' BY <2>3 DEF ireqs, DPort, IPort
  <2>6. QED BY <1>2, <2>3, <2>4, <2>5
<1>3. CASE i = IPort
  <2>1. I!CBusValid BY <1>3, WireFields
  <2>2. ~iresp.last BY <1>1, <1>3, Answers
  <2>3. I!CBusValid' /\ I!CBusRequest' = I!CBusRequest BY <2>1, <2>2, CodeRequestHeld
  <2>4. ireqs[IPort] = I!CBusRequest BY <2>1 DEF ireqs, DPort, IPort
  <2>5. ireqs'[IPort] = I!CBusRequest' BY <2>3 DEF ireqs, DPort, IPort
  <2>6. QED BY <1>3, <2>3, <2>4, <2>5
<1>4. QED BY <1>2, <1>3 DEF Ports

\* The grant, the transaction and the granted cache's request stay in step.
LEMMA BusStep ==
  ASSUME MemInv, Next
  PROVE  WiresOK' /\ GrantHeld' /\ Owner'
<1>1. CASE ~busy
  <2>1. ~tx.busy BY <1>1, Output
  <2>2. busy' \in BOOLEAN /\ grant' \in Ports /\ (busy' => ireqs[grant'].valid)
    BY <1>1, GrantEdge
  <2>3. tx' = tx BY <1>1, <2>1, DeviceMoves DEF MemInv, WiresOK
  <2>4. WiresOK' BY <2>2, <2>3, DeviceMoves DEF MemInv, WiresOK
  <2>5. GrantHeld'
    <3> SUFFICES ASSUME busy' PROVE ireqs'[grant'].valid BY DEF GrantHeld
    <3>1. QED BY <1>1, <2>2, WireHeld
  <2>6. QED BY <2>1, <2>3, <2>4, <2>5 DEF Owner
<1>2. CASE busy /\ ~(enable /\ tx.busy)
  <2>1. grant \in Ports /\ ireqs[grant].valid BY <1>2, Output
  <2>2. oresp = NoResponse BY <1>2, Answers
  <2>3. ~oresp.last BY <2>2 DEF NoResponse
  <2>4. busy' = TRUE /\ grant' = grant BY <1>2, <2>2, GrantEdge DEF NoResponse
  <2>5. ireqs'[grant] = ireqs[grant] /\ ireqs'[grant].valid BY <2>1, <2>3, WireHeld
  <2>6. GrantHeld' BY <2>4, <2>5 DEF GrantHeld
  <2>7. CASE tx' = tx
    <3>1. WiresOK' BY <2>1, <2>4, <2>7, DeviceMoves DEF MemInv, WiresOK
    <3>2. Owner' BY <2>4, <2>5, <2>7 DEF MemInv, Owner
    <3>3. QED BY <2>6, <3>1, <3>2
  <2>8. CASE tx' = Device!Start(ireqs[grant])
    <3> DEFINE req == ireqs[grant]
    <3>1. tx' = [busy |-> TRUE, is_write |-> req.write, N |-> 1, addr |-> req.addr,
                 start |-> req.addr, len |-> req.len]
      BY <2>8 DEF Device!Start
    <3>2. /\ req.write \in BOOLEAN /\ req.addr \in Addr /\ req.len \in Lengths
          /\ 1 \in 1 .. LineWords /\ 1 <= req.len
      BY <2>1, WireFields, LineFacts DEF Lengths
    <3>3. tx' \in Transaction BY <3>1, <3>2 DEF Transaction
    <3>4. WiresOK' BY <2>1, <2>4, <3>3, DeviceMoves DEF WiresOK
    <3>5. req.addr = [req.addr EXCEPT !.word = @ + (1 - 1)]
      <4>1. req.addr.word + (1 - 1) = req.addr.word
        <5>1. req.addr.word \in Nat BY <3>2 DEF Addr, Offsets
        <5>2. QED BY <5>1
      <4>2. QED BY <3>2, <4>1 DEF Addr
    <3>6. Owner' BY <2>4, <2>5, <3>1, <3>2, <3>5 DEF Owner
    <3>7. QED BY <2>6, <3>4, <3>6
  <2>9. QED BY <1>2, <2>7, <2>8, DeviceMoves DEF MemInv, WiresOK
<1>3. CASE enable /\ tx.busy
  <2>1. busy /\ grant \in Ports /\ ireqs[grant].valid /\ tx \in Transaction
    BY <1>3, TransactionFacts
  <2>2. oresp.last = (tx.N = tx.len) BY <1>3, Answers
  <2>3. busy' = ~(tx.N = tx.len) /\ grant' = grant BY <2>1, <2>2, GrantEdge
  <2>4. CASE tx.N = tx.len
    <3>1. tx' = Device!NoTransaction BY <1>3, <2>4, DeviceMoves
    <3>2. ~tx'.busy BY <3>1 DEF Device!NoTransaction
    <3>3. QED
      BY <2>1, <2>3, <2>4, <3>1, <3>2, DeviceMoves DEF WiresOK, GrantHeld, Owner
  <2>5. CASE tx.N # tx.len
    <3>1. ireqs'[grant] = ireqs[grant] /\ ireqs'[grant].valid
      BY <2>1, <2>2, <2>5, WireHeld
    <3>2. GrantHeld' BY <2>3, <3>1 DEF GrantHeld
    <3>3. tx' = [tx EXCEPT !.N = @ + 1, !.addr = Device!NextAddr(tx.addr, tx.len)]
      BY <1>3, <2>5, DeviceMoves
    <3>4. /\ tx' \in Transaction /\ tx'.busy /\ tx'.N = tx.N + 1
          /\ tx'.is_write = tx.is_write /\ tx'.start = tx.start /\ tx'.len = tx.len
          /\ tx'.addr = [ireqs[grant].addr EXCEPT !.word = @ + tx.N]
      BY <1>3, <2>1, <2>5, <3>3, NextWord DEF Transaction
    <3>5. WiresOK' BY <2>1, <2>3, <3>4, DeviceMoves DEF WiresOK
    <3>6. Owner'
      <4>1. (tx.N + 1) - 1 = tx.N /\ tx.N + 1 <= tx.len BY <1>3, <2>5, NextWord
      <4>2. /\ tx.is_write = ireqs[grant].write /\ tx.start = ireqs[grant].addr
            /\ tx.len = ireqs[grant].len
        BY <1>3 DEF MemInv, Owner
      <4>3. ireqs'[grant'] = ireqs[grant] /\ busy' /\ tx'.N - 1 = tx.N
        BY <2>3, <2>5, <3>1, <3>4, <4>1
      <4>4. tx'.addr = [ireqs'[grant'].addr EXCEPT !.word = @ + (tx'.N - 1)]
        BY <3>4, <4>3
      <4>5. QED BY <3>4, <4>1, <4>2, <4>3, <4>4 DEF Owner
    <3>7. QED BY <3>2, <3>5, <3>6
  <2>6. QED BY <2>4, <2>5
<1>4. QED BY <1>1, <1>2, <1>3

-----------------------------------------------------------------------------
(* The invariant and what follows from it.                                 *)

\* The start.
LEMMA MemInit == Init => DFacts!Init /\ MemInv
<1> SUFFICES ASSUME Init PROVE DFacts!Init /\ MemInv OBVIOUS
<1>1. ~busy /\ grant = DPort /\ ~tx.busy /\ tx = Device!NoTransaction /\ enable = TRUE
  BY DEF Init, Arbiter!ArbiterInit, Device!DeviceInit, Device!NoTransaction, DPort
<1>2. BeatOf(DPort) = 0 /\ BeatOf(IPort) = 0 BY <1>1 DEF BeatOf
<1>3. DFacts!CacheInit
  BY DEF Init, CacheInit, DFacts!CacheInit, EmptyMeta, DFacts!EmptyMeta, Ways,
         DFacts!Ways, Slots, DFacts!Slots, Offsets, DFacts!Offsets, ZeroWord,
         DFacts!ZeroWord
<1>4. DFacts!Init BY <1>2, <1>3, SameData DEF Init, DFacts!Init
<1>5. DFacts!IInv BY <1>4, Surroundings, DFacts!IInvInit
<1>6. WiresOK /\ GrantHeld /\ Owner
  BY <1>1 DEF Init, Arbiter!ArbiterInit, WiresOK, GrantHeld, Owner, Ports
<1>7. CodeClean
  <2>1. ireq = NoRequest /\ ~ireq.valid BY DEF Init, NoRequest
  <2>2. I!CacheInit BY DEF Init
  <2>3. I!EmptyMeta \in IFacts!SetMeta /\ Clean(I!EmptyMeta)
    BY DEF I!EmptyMeta, IFacts!SetMeta, IFacts!LineMeta, IFacts!Ways, I!Ways, Ways, Clean
  <2>4. IFacts!CacheTypeOK
    <3>1. I!ZeroWord \in IFacts!Word BY ByteAssumption DEF I!ZeroWord, IFacts!Word
    <3>2. 0 \in IFacts!Offsets BY LineAssumption DEF IFacts!Offsets
    <3>3. I!Slots = IFacts!Slots
      BY DEF I!Slots, IFacts!Slots, I!Ways, IFacts!Ways, I!Offsets, IFacts!Offsets
    <3>4. QED
      BY <2>1, <2>2, <2>3, <3>1, <3>2, <3>3
         DEF I!CacheInit, IFacts!CacheTypeOK, IFacts!States, IFacts!NoRequest, NoRequest,
             I!Ways, IFacts!Ways
  <2>5. \A s \in Sets : Clean(imetaram[s]) BY <2>2, <2>3 DEF I!CacheInit
  <2>6. istate = "COMPARETAG" BY <2>2 DEF I!CacheInit
  <2>7. QED BY <2>1, <2>4, <2>5, <2>6 DEF CodeClean
<1>8. QED BY <1>4, <1>5, <1>6, <1>7 DEF MemInv

LEMMA MemInvStep == MemInv /\ [Next]_vars => MemInv'
<1> SUFFICES ASSUME MemInv, [Next]_vars PROVE MemInv' OBVIOUS
<1>1. CASE Next
  BY <1>1, DataInvStep, BusStep, CodeCleanStep DEF MemInv
<1>2. CASE UNCHANGED vars
  <2>1. UNCHANGED DFacts!vars
    BY <1>2 DEF vars, cachevars, DFacts!vars, BeatOf
  <2>2. DFacts!IInv' BY <2>1, Surroundings, DFacts!IInvStep DEF MemInv
  <2>3. UNCHANGED ireqs
    BY <1>2 DEF vars, cachevars, icachevars, ireqs, CBusValid, CBusRequest, CBusIsWrite,
                CBusAddr, CBusLen, Uncached, IsStore, I!CBusValid, I!CBusRequest,
                I!CBusIsWrite, I!CBusAddr, I!CBusLen, I!Uncached, I!IsStore
  <2>4. WiresOK' /\ GrantHeld' /\ Owner'
    BY <1>2, <2>3 DEF MemInv, vars, WiresOK, GrantHeld, Owner
  <2>5. CodeClean'
    BY <1>2 DEF MemInv, vars, icachevars, CodeClean, IFacts!CacheTypeOK, Filling, Clean,
                BeatOf
  <2>6. QED BY <2>2, <2>4, <2>5 DEF MemInv
<1>3. QED BY <1>1, <1>2

THEOREM MemInvariant == Spec => []MemInv
BY MemInit, MemInvStep, PTL DEF Spec

\* CBusDevice's checks of a request in service (cbus_device.cpp:39-43) never
\* fail for the two caches behind the arbiter, however their bursts, misses
\* and write-backs fall and whenever a fetch is withdrawn.
THEOREM CachesPassChecks == Spec => []DeviceChecks
<1>1. MemInv => DeviceChecks
  BY Output, SameData DEF MemInv, Owner, DeviceChecks, Device!Checks
<1>2. QED BY <1>1, MemInvariant, PTL

\* Seen from the data cache, every edge is a step of CacheSystem.
LEMMA DataCacheSteps ==
  MemInv /\ [Next]_vars => [DFacts!Next]_(DFacts!vars)
<1> SUFFICES ASSUME MemInv, [Next]_vars PROVE [DFacts!Next]_(DFacts!vars) OBVIOUS
<1>1. CASE Next BY <1>1, DataStep DEF DFacts!Next
<1>2. CASE UNCHANGED vars
  BY <1>2 DEF vars, cachevars, DFacts!vars, BeatOf
<1>3. QED BY <1>1, <1>2

\* CacheProofs and MemSystem mean the same by CacheSystem.
LEMMA SameSystem ==
  (DFacts!Next <=> DataCacheAlone!Next) /\ (DFacts!Init <=> DataCacheAlone!Init)
  BY DEF DFacts!Next, DFacts!Step, DFacts!Responses, DFacts!NotReady, DFacts!Beat,
    DFacts!Memory, DFacts!Master, DFacts!BeatAddr, DFacts!LastBeat,
    DFacts!NextRequests, DFacts!NoAnswer, DFacts!CBusAddr, DFacts!CBusValid,
    DFacts!CBusIsWrite, DFacts!CBusLen, DFacts!CBusStrobe, DFacts!CBusData,
    DFacts!Uncached, DFacts!RespData, DFacts!DataOk, DFacts!dataread, DFacts!Word,
    DFacts!ZeroWord, DFacts!NoRequest, DFacts!ClockEdge, DFacts!RamEdge, DFacts!Idle,
    DFacts!CompareHit, DFacts!CompareMiss, DFacts!WriteBack, DFacts!Fetch,
    DFacts!Final, DFacts!Ready, DFacts!WriteReady, DFacts!Matches, DFacts!FreeWay,
    DFacts!SetFull, DFacts!WithLine, DFacts!metaread, DFacts!NextIndex,
    DFacts!DirtyLine, DFacts!IsStore, DFacts!Cached, DFacts!Ways, DFacts!MetaStrobe,
    DFacts!DataSlot, DFacts!DataStrobe, DFacts!DataWrite, DFacts!Merge, DFacts!Init,
    DFacts!CacheInit, DFacts!EmptyMeta, DFacts!Slots, DFacts!Offsets,
    DataCacheAlone!Next, DataCacheAlone!Step, DataCacheAlone!Responses,
    DataCacheAlone!NotReady, DataCacheAlone!Beat, DataCacheAlone!Memory,
    DataCacheAlone!Master, DataCacheAlone!BeatAddr, DataCacheAlone!LastBeat,
    DataCacheAlone!NextRequests, DataCacheAlone!NoAnswer, DataCacheAlone!CBusAddr,
    DataCacheAlone!CBusValid, DataCacheAlone!CBusIsWrite, DataCacheAlone!CBusLen,
    DataCacheAlone!CBusStrobe, DataCacheAlone!CBusData, DataCacheAlone!Uncached,
    DataCacheAlone!RespData, DataCacheAlone!DataOk, DataCacheAlone!dataread,
    DataCacheAlone!Word, DataCacheAlone!ZeroWord, DataCacheAlone!NoRequest,
    DataCacheAlone!ClockEdge, DataCacheAlone!RamEdge, DataCacheAlone!Idle,
    DataCacheAlone!CompareHit, DataCacheAlone!CompareMiss, DataCacheAlone!WriteBack,
    DataCacheAlone!Fetch, DataCacheAlone!Final, DataCacheAlone!Ready,
    DataCacheAlone!WriteReady, DataCacheAlone!Matches, DataCacheAlone!FreeWay,
    DataCacheAlone!SetFull, DataCacheAlone!WithLine, DataCacheAlone!metaread,
    DataCacheAlone!NextIndex, DataCacheAlone!DirtyLine, DataCacheAlone!IsStore,
    DataCacheAlone!Cached, DataCacheAlone!Ways, DataCacheAlone!MetaStrobe,
    DataCacheAlone!DataSlot, DataCacheAlone!DataStrobe, DataCacheAlone!DataWrite,
    DataCacheAlone!Merge, DataCacheAlone!Init, DataCacheAlone!CacheInit,
    DataCacheAlone!EmptyMeta, DataCacheAlone!Slots, DataCacheAlone!Offsets

\* Behind the fixed priority of the arbiter, beside another cache and with a
\* device that is disabled at random, the data cache is the cache of
\* VCacheTop.sv with a memory that takes its time: all of CacheProofs holds of
\* it.
THEOREM DataCacheIsAlone == Spec => DataCacheUndisturbed
<1>1. Init => DataCacheAlone!Init BY MemInit, SameSystem
<1>2. MemInv /\ [Next]_vars => [DataCacheAlone!Next]_(DataCacheAlone!vars)
  BY DataCacheSteps, SameSystem DEF DFacts!vars, DataCacheAlone!vars
<1>3. QED
  BY <1>1, <1>2, MemInvariant, PTL DEF Spec, DataCacheUndisturbed, DataCacheAlone!Spec

\* So the data port of the whole memory system is an atomic memory: each load
\* returns the last store to its address, each store takes effect once, and
\* no fetch of the instruction cache can be told from a pause.
THEOREM DataPortReadsLastWrite == Spec => DFacts!ReadsLastWrite
<1>1. DFacts!Spec => DFacts!ReadsLastWrite
  BY Surroundings, DFacts!CacheInvisible
<1>2. QED
  BY <1>1, MemInit, DataCacheSteps, MemInvariant, PTL DEF Spec, DFacts!Spec

-----------------------------------------------------------------------------
(* What the data cache writes to memory.                                   *)

\* Does the data port ever store to this line?
Stored(tag, s) == \E r \in DRequests : r.strobe # {} /\ r.addr.tag = tag /\ r.addr.set = s

DirtyIsStored(meta, s) ==
    \A w \in Ways : meta.way[w].valid /\ meta.way[w].dirty => Stored(meta.way[w].tag, s)

\* A dirty line has been stored to, and WRITEBACK writes a dirty one.
DirtyInv ==
    /\ dreq \in DRequests \cup {NoRequest}
    /\ \A s \in Sets : ~DFacts!Refilling(s) => DirtyIsStored(metaram[s], s)
    /\ DFacts!Cached /\ state # "COMPARETAG" => DirtyIsStored(metarecord, dreq.addr.set)
    /\ DFacts!Cached /\ state = "WRITEBACK" => metarecord.way[hit.way].dirty

LEMMA DirtyStep ==
  ASSUME MemInv, DirtyInv, Next
  PROVE  DirtyInv'
<1> DEFINE set == dreq.addr.set
<1>1. /\ dresp \in DFacts!Responses /\ DFacts!IInv
      /\ DFacts!Step(dresp) /\ DFacts!Edge(dresp)
  BY DataStep, Surroundings, DFacts!StepIsEdge DEF MemInv
<1>2. dreq' \in DRequests \cup {NoRequest}
  BY DEF Next, DataPort, DirtyInv
<1>3. /\ \A s \in Sets : ~DFacts!Refilling(s) => DirtyIsStored(metaram[s], s)
      /\ DFacts!Cached /\ state # "COMPARETAG" => DirtyIsStored(metarecord, set)
      /\ DFacts!Cached /\ state = "WRITEBACK" => metarecord.way[hit.way].dirty
  BY DEF DirtyInv
\* Cycles that do not touch meta_ram and end outside a refill.
<1>4. ASSUME metaram' = metaram, \A s \in Sets : ~DFacts!Refilling(s),
             DFacts!Cached' /\ state' # "COMPARETAG" => DirtyIsStored(metarecord', dreq'.addr.set),
             DFacts!Cached' /\ state' = "WRITEBACK" => metarecord'.way[hit'.way].dirty
      PROVE  DirtyInv'
  BY <1>2, <1>3, <1>4 DEF DirtyInv, DirtyIsStored
<1>5. CASE ~DFacts!Cached
  <2>1. /\ metaram' = metaram /\ (DFacts!Cached' => state' = "COMPARETAG")
        /\ \A s \in Sets : ~DFacts!Refilling(s)
    BY <1>1, <1>5, Surroundings, DFacts!NotCachedEdge
  <2>2. QED BY <1>4, <2>1
<1>6. CASE DFacts!Cached /\ DFacts!CompareHit
  <2>1. metaram' = metaram /\ dreq' = dreq
    BY <1>1, <1>6, Surroundings, DFacts!CompareHitEdge
  <2>2. /\ state = "COMPARETAG" /\ state' = "READY" /\ dreq.valid
        /\ metarecord' = metaram[set]
    BY <1>6 DEF DFacts!CompareHit, DFacts!metaread
  <2>3. \A s \in Sets : ~DFacts!Refilling(s) BY <2>2 DEF DFacts!Refilling
  <2>4. set \in Sets
    BY <1>6, Surroundings, DFacts!CachedFields, <1>1 DEF DFacts!IInv
  <2>5. QED BY <1>3, <1>4, <2>1, <2>2, <2>3, <2>4 DEF DirtyIsStored
<1>7. CASE DFacts!Cached /\ DFacts!CompareMiss
  <2>1. metaram' = metaram /\ dreq' = dreq
    BY <1>1, <1>7, Surroundings, DFacts!CompareMissEdge
  <2>2. /\ state = "COMPARETAG" /\ dreq.valid
        /\ metarecord' = metaram[set]
        /\ state' = "WRITEBACK" => metarecord'.way[hit'.way].dirty
    BY <1>7 DEF DFacts!CompareMiss, DFacts!metaread
  <2>3. \A s \in Sets : ~DFacts!Refilling(s) BY <2>2 DEF DFacts!Refilling
  <2>4. set \in Sets
    BY <1>7, Surroundings, DFacts!CachedFields, <1>1 DEF DFacts!IInv
  <2>5. QED BY <1>3, <1>4, <2>1, <2>2, <2>3, <2>4 DEF DirtyIsStored
<1>8. CASE DFacts!Cached /\ DFacts!WriteBack(dresp)
  <2>1. UNCHANGED <<dreq, hit, metarecord, metaram>>
    BY <1>1, <1>8, Surroundings, DFacts!WriteBackEdge
  <2>2. state = "WRITEBACK" BY <1>8 DEF DFacts!WriteBack
  <2>3. \A s \in Sets : ~DFacts!Refilling(s) BY <2>2 DEF DFacts!Refilling
  <2>4. QED BY <1>3, <1>4, <1>8, <2>1, <2>2, <2>3 DEF DirtyIsStored
<1>9. CASE DFacts!Cached /\ DFacts!Fetch(dresp)
  <2>1. /\ UNCHANGED <<dreq, hit, metarecord>>
        /\ metaram' = [metaram EXCEPT ![set] = metawrite]
        /\ dresp.last => metawrite = DFacts!Refilled
        /\ DFacts!Missed /\ DFacts!MetaOK(metarecord)
    BY <1>1, <1>9, Surroundings, DFacts!FetchEdge
  <2>2. state = "FETCH" /\ state' = IF dresp.last THEN "FINAL" ELSE "FETCH"
    BY <1>9 DEF DFacts!Fetch
  <2>3. DFacts!Cached' BY <1>9, <2>1 DEF DFacts!Cached, DFacts!Uncached
  <2>4. ASSUME NEW s \in Sets, ~DFacts!Refilling(s)'
        PROVE  DirtyIsStored(metaram'[s], s)
    <3>1. metaram \in [Sets -> DFacts!SetMeta]
      BY <1>1 DEF DFacts!IInv, DFacts!TypeInv, DFacts!StateTyped, DFacts!CacheTypeOK
    <3>2. CASE s = set
      <4>1. dresp.last BY <2>1, <2>2, <2>3, <2>4, <3>2 DEF DFacts!Refilling
      <4>2. metaram'[s] = DFacts!Refilled BY <2>1, <3>1, <3>2, <4>1
      <4>3. /\ DFacts!Refilled.way[hit.way] =
                 [valid |-> TRUE, dirty |-> FALSE, tag |-> dreq.addr.tag]
            /\ DFacts!Refilled.way[DFacts!Other(hit.way)] =
                 metarecord.way[DFacts!Other(hit.way)]
        BY <1>1, <1>9, <2>1, Surroundings, DFacts!RefilledOK DEF DFacts!IInv
      <4>4. \A w \in Ways : w = hit.way \/ w = DFacts!Other(hit.way)
        BY <1>1 DEF DFacts!IInv, DFacts!TypeInv, DFacts!StateTyped, DFacts!CacheTypeOK,
                    DFacts!Ways, Ways, DFacts!Other
      <4>5. DirtyIsStored(metarecord, s) BY <1>3, <1>9, <2>2, <3>2
      <4>6. ~DFacts!Refilled.way[hit.way].dirty BY <4>3
      <4>7. QED BY <4>2, <4>3, <4>4, <4>5, <4>6 DEF DirtyIsStored
    <3>3. CASE s # set
      <4>1. ~DFacts!Refilling(s) BY <3>3 DEF DFacts!Refilling
      <4>2. metaram'[s] = metaram[s] BY <2>1, <3>1, <3>3
      <4>3. QED BY <1>3, <4>1, <4>2
    <3>4. QED BY <3>2, <3>3
  <2>5. DirtyIsStored(metarecord', dreq'.addr.set)
    BY <1>3, <1>9, <2>1, <2>2
  <2>6. state' # "WRITEBACK" BY <2>2
  <2>7. QED BY <1>2, <2>4, <2>5, <2>6 DEF DirtyInv, DirtyIsStored
<1>10. CASE DFacts!Cached /\ DFacts!Final
  <2>1. metaram' = metaram /\ dreq' = dreq
    BY <1>1, <1>10, Surroundings, DFacts!FinalEdge
  <2>2. state = "FINAL" /\ state' = "READY" /\ metarecord' = metarecord
    BY <1>10 DEF DFacts!Final
  <2>3. \A s \in Sets : ~DFacts!Refilling(s) BY <2>2 DEF DFacts!Refilling
  <2>4. QED BY <1>3, <1>4, <1>10, <2>1, <2>2, <2>3 DEF DirtyIsStored
<1>11. CASE DFacts!Cached /\ DFacts!Ready
  <2>1. /\ metaram' = IF DFacts!IsStore THEN [metaram EXCEPT ![set] = metawrite]
                                        ELSE metaram
    BY <1>1, <1>11, Surroundings, DFacts!ReadyEdge
  <2>2. /\ state = "READY" /\ dreq.valid /\ metarecord' = metarecord
        /\ state' = IF DFacts!IsStore THEN "WRITEREADY" ELSE "COMPARETAG"
    BY <1>11 DEF DFacts!Ready
  <2>3. \A s \in Sets : ~DFacts!Refilling(s) BY <2>2 DEF DFacts!Refilling
  <2>4. CASE ~DFacts!IsStore
    BY <1>4, <2>1, <2>2, <2>3, <2>4
  <2>5. CASE DFacts!IsStore
    <3>1. dreq' = dreq
      <4>1. ~DFacts!DataOk(dresp)
        BY <1>11, <2>2, <2>5 DEF DFacts!DataOk, DFacts!Cached, DFacts!Uncached
      <4>2. QED BY <1>1, <2>2, <4>1 DEF DFacts!Step, DFacts!Master
    <3>2. set \in Sets /\ metaram \in [Sets -> DFacts!SetMeta] /\ hit.way \in Ways
      BY <1>1, <1>11, Surroundings, DFacts!CachedFields
         DEF DFacts!IInv, DFacts!TypeInv, DFacts!StateTyped, DFacts!CacheTypeOK, DFacts!Ways,
             Ways
    <3>3. /\ metawrite.way[hit.way] =
               [valid |-> TRUE, dirty |-> TRUE, tag |-> dreq.addr.tag]
          /\ metawrite.way[DFacts!Other(hit.way)] = metaram[set].way[DFacts!Other(hit.way)]
      BY <1>1, <1>11, <2>2, <2>5
         DEF DFacts!IInv, DFacts!ReadyOK, DFacts!At, DFacts!metaread
    <3>4. Stored(dreq.addr.tag, set)
      BY <2>2, <2>5 DEF DirtyInv, NoRequest, DFacts!IsStore, Stored
    <3>5. \A w \in Ways : w = hit.way \/ w = DFacts!Other(hit.way)
      BY <3>2 DEF Ways, DFacts!Other
    <3>6. DirtyIsStored(metaram[set], set) BY <1>3, <2>3, <3>2
    <3>7. metawrite.way[hit.way].tag = dreq.addr.tag BY <3>3
    <3>8. DirtyIsStored(metawrite, set)
      BY <3>3, <3>4, <3>5, <3>6, <3>7 DEF DirtyIsStored
    <3>9. ASSUME NEW s \in Sets PROVE DirtyIsStored(metaram'[s], s)
      <4>1. CASE s = set BY <2>1, <2>5, <3>2, <3>8, <4>1
      <4>2. CASE s # set
        <5>1. metaram'[s] = metaram[s] BY <2>1, <2>5, <3>2, <4>2
        <5>2. QED BY <1>3, <2>3, <5>1
      <4>3. QED BY <4>1, <4>2
    <3>10. DirtyIsStored(metarecord', dreq'.addr.set) BY <1>3, <1>11, <2>2, <3>1
    <3>11. state' # "WRITEBACK" BY <2>2, <2>5
    <3>12. QED BY <1>2, <3>9, <3>10, <3>11 DEF DirtyInv, DirtyIsStored
  <2>6. QED BY <2>4, <2>5
<1>12. CASE DFacts!Cached /\ DFacts!WriteReady
  <2>1. state = "WRITEREADY" /\ state' = "COMPARETAG" BY <1>12 DEF DFacts!WriteReady
  <2>2. metaram' = metaram
    BY <1>1, <2>1 DEF DFacts!Step, DFacts!ClockEdge, DFacts!RamEdge, DFacts!MetaStrobe
  <2>3. \A s \in Sets : ~DFacts!Refilling(s) BY <2>1 DEF DFacts!Refilling
  <2>4. QED BY <1>4, <2>1, <2>2, <2>3
<1>13. QED
  BY <1>1, <1>5, <1>6, <1>7, <1>8, <1>9, <1>10, <1>11, <1>12
     DEF DFacts!Step, DFacts!ClockEdge, DFacts!Idle, DFacts!Cached

\* Memory changes in lines that are stored to, and nowhere else.
LEMMA OnlyStoredChanges ==
  ASSUME MemInv, DirtyInv, Next, NEW a \in Addr, ~Stored(a.tag, a.set)
  PROVE  mem'[a] = mem[a]
<1>1. CASE ~(busy /\ grant = DPort /\ enable /\ tx.busy)
  BY <1>1, DataWaits
<1>2. CASE busy /\ grant = DPort /\ enable /\ tx.busy
  <2>1. CASE ~CBusIsWrite BY <1>2, <2>1, DataServed
  <2>2. CASE CBusIsWrite
    <3>1. CBusValid /\ tx.addr \in Addr /\ tx.addr.tag = CBusAddr.tag
          /\ tx.addr.set = CBusAddr.set
      <4>1. CBusValid BY <1>2, DataServed
      <4>2. ireqs[grant].addr = CBusAddr /\ CBusAddr \in Addr BY <1>2, <4>1, DataWire
      <4>3. tx.addr \in Addr /\ tx.addr = [CBusAddr EXCEPT !.word = @ + (tx.N - 1)]
        BY <1>2, <4>2, TransactionFacts
      <4>4. QED BY <4>1, <4>2, <4>3 DEF Addr
    <3>2. dreq.valid /\ dreq \in DRequests BY <3>1 DEF CBusValid, DirtyInv, NoRequest
    <3>3. Stored(CBusAddr.tag, CBusAddr.set)
      <4>1. CASE Uncached
        BY <2>2, <3>2, <4>1 DEF CBusIsWrite, CBusAddr, IsStore, Stored
      <4>2. CASE ~Uncached
        <5>1. state = "WRITEBACK" BY <2>2, <4>2 DEF CBusIsWrite
        <5>2. DFacts!Cached BY <3>2, <4>2 DEF DFacts!Cached, Uncached
        <5>3. CBusAddr.tag = metarecord.way[hit.way].tag /\ CBusAddr.set = dreq.addr.set
          BY <4>2, <5>1 DEF CBusAddr
        <5>4. /\ DirtyIsStored(metarecord, dreq.addr.set)
              /\ metarecord.way[hit.way].dirty
          BY <5>1, <5>2 DEF DirtyInv
        <5>5. metarecord.way[hit.way].valid
          BY <5>1, <5>2 DEF MemInv, DFacts!IInv, DFacts!WriteBackOK, DFacts!At
        <5>6. hit.way \in Ways
          BY DEF MemInv, DFacts!IInv, DFacts!TypeInv, DFacts!StateTyped, DFacts!CacheTypeOK,
                 DFacts!Ways, Ways
        <5>7. QED BY <5>3, <5>4, <5>5, <5>6 DEF DirtyIsStored
      <4>3. QED BY <4>1, <4>2
    <3>4. a # tx.addr BY <3>1, <3>3
    <3>5. mem \in [Addr -> Word]
      BY SameData DEF MemInv, DFacts!IInv, DFacts!TypeInv, DFacts!StateTyped
    <3>6. mem' = [mem EXCEPT ![tx.addr] = Merge(mem[tx.addr], CBusStrobe, CBusData)]
      BY <1>2, <2>2, DataServed
    <3>7. QED BY <3>4, <3>5, <3>6
  <2>3. QED BY <2>1, <2>2
<1>3. QED BY <1>1, <1>2

-----------------------------------------------------------------------------
(* What the instruction cache holds.                                       *)

\* A line instructions are fetched from.
CodeLine(tag, s) == \E r \in IRequests : r.addr.tag = tag /\ r.addr.set = s

\* No program stores to the lines it runs from: nothing invalidates the
\* instruction cache (ICache.sv).
CodeUntouched == \A r \in IRequests : ~Stored(r.addr.tag, r.addr.set)

WordAddr(tag, s, o) == [tag |-> tag, set |-> s, word |-> o]

\* The first n words of a line are those of memory.
Copied(s, w, tag, n) ==
    \A o \in Offsets : o < n => idataram[<<s, w, o>>] = mem[WordAddr(tag, s, o)]

\* A way holds a copy of a line of code, or the tag no address has.
LineOK(line, s, w) ==
    IF line.valid THEN CodeLine(line.tag, s) /\ Copied(s, w, line.tag, LineWords)
                  ELSE line.tag = ResetTag

RefillOK ==
    /\ \A w \in Ways : w # ihit.way => LineOK(imetarecord.way[w], ireq.addr.set, w)
    /\ Copied(ireq.addr.set, ihit.way, ireq.addr.tag, iindex)
    /\ iindex > 0 =>
         imetawrite.way = [imetarecord.way EXCEPT ![ihit.way] =
                             [valid |-> TRUE, dirty |-> FALSE, tag |-> ireq.addr.tag]]

\* What the instruction cache will answer from, in every state of a fetch, a
\* withdrawn one included: hit is left set by it, and no load ever looks.
CodeCopies ==
    /\ CodeUntouched
    /\ \A s \in Sets, w \in Ways : ~Filling(s) => LineOK(imetaram[s].way[w], s, w)
    /\ ireq.valid /\ istate = "FETCH" => RefillOK
    /\ ireq.valid /\ istate \in {"FINAL", "READY"} =>
         /\ imetaram[ireq.addr.set].way[ihit.way].valid
         /\ imetaram[ireq.addr.set].way[ihit.way].tag = ireq.addr.tag

\* Code stays what it is in memory.
LEMMA CodeStands ==
  ASSUME MemInv, DirtyInv, CodeUntouched, Next, NEW s, NEW tag, NEW o \in Offsets,
         CodeLine(tag, s)
  PROVE  mem'[WordAddr(tag, s, o)] = mem[WordAddr(tag, s, o)]
<1>1. PICK r \in IRequests : r.addr.tag = tag /\ r.addr.set = s BY DEF CodeLine
<1>2. r.addr \in Addr BY PortAssumption DEF Request
<1>3. WordAddr(tag, s, o) \in Addr BY <1>1, <1>2 DEF WordAddr, Addr
<1>4. ~Stored(tag, s) BY <1>1 DEF CodeUntouched
<1>5. QED BY <1>3, <1>4, OnlyStoredChanges DEF WordAddr

\* data_ram is written in FETCH only.
LEMMA CodeData ==
  ASSUME MemInv, Next
  PROVE  /\ idataram \in [Slots -> Word]
         /\ idataram' = IF ireq.valid /\ istate = "FETCH"
                          THEN [idataram EXCEPT ![<<ireq.addr.set, ihit.way, iindex>>] =
                                   iresp.data]
                          ELSE idataram
<1>1. I!RamEdge(iresp) BY DEF Next, I!ClockEdge
<1>2. idataram \in [Slots -> Word]
  BY DEF MemInv, CodeClean, IFacts!CacheTypeOK, IFacts!Slots, Slots, IFacts!Ways, Ways,
         IFacts!Offsets, Offsets, IFacts!Word, Word
<1>3. CASE ~ireq.valid BY <1>1, <1>2, <1>3 DEF I!RamEdge, I!Cached
<1>4. CASE ireq.valid
  <2>1. I!Cached /\ ireq.strobe = {} /\ ireq.addr \in Addr
    BY <1>4, CodeRequest DEF I!Cached
  <2>2. idataram' = [idataram EXCEPT ![I!DataSlot] =
                        I!Merge(idataram[I!DataSlot], I!DataStrobe, I!DataWrite(iresp))]
    BY <1>1, <2>1 DEF I!RamEdge
  <2>3. I!DataSlot \in Slots
    <3>1. ihit.way \in Ways /\ iindex \in Offsets
      BY DEF MemInv, CodeClean, IFacts!CacheTypeOK, IFacts!Ways, Ways, IFacts!Offsets,
             Offsets
    <3>2. QED BY <2>1, <3>1 DEF I!DataSlot, Slots, Addr
  <2>4. CASE istate = "FETCH"
    <3>1. /\ I!DataSlot = <<ireq.addr.set, ihit.way, iindex>> /\ I!DataStrobe = Lanes
          /\ I!DataWrite(iresp) = iresp.data
      BY <2>4 DEF I!DataSlot, I!DataStrobe, I!DataWrite
    <3>2. iresp.data \in Word BY CodeResponse, SameData DEF Response
    <3>3. I!Merge(idataram[I!DataSlot], Lanes, iresp.data) = iresp.data
      BY <3>2 DEF I!Merge, Word
    <3>4. QED BY <1>2, <1>4, <2>2, <2>4, <3>1, <3>3
  <2>5. CASE istate # "FETCH"
    <3>1. I!DataStrobe = {}
      <4>1. I!DataStrobe = ireq.strobe \/ I!DataStrobe = {} BY <2>5 DEF I!DataStrobe
      <4>2. QED BY <2>1, <4>1
    <3>2. idataram[I!DataSlot] \in Word BY <1>2, <2>3
    <3>3. I!Merge(idataram[I!DataSlot], {}, I!DataWrite(iresp)) = idataram[I!DataSlot]
      BY <3>2 DEF I!Merge, Word
    <3>4. QED BY <1>2, <2>2, <2>5, <3>1, <3>3
  <2>6. QED BY <2>4, <2>5
<1>5. QED BY <1>3, <1>4

\* A beat of the refill brings the word the index points to.
LEMMA CodeBeat ==
  ASSUME MemInv, Next, ireq.valid, istate = "FETCH", iresp.ready
  PROVE  /\ iresp.data = mem[WordAddr(ireq.addr.tag, ireq.addr.set, iindex)]
         /\ iresp.last <=> iindex = LineWords - 1
<1>1. busy /\ grant = IPort /\ enable /\ tx.busy
  BY Answers DEF NoResponse
<1>2. I!CBusValid /\ ireqs[IPort].addr = [ireq.addr EXCEPT !.word = 0]
      /\ ireqs[IPort].write = FALSE /\ ireqs[IPort].len = LineWords
  BY CodeWire
<1>3. tx.is_write = FALSE /\ tx.len = LineWords
      /\ tx.addr = [[ireq.addr EXCEPT !.word = 0] EXCEPT !.word = @ + (tx.N - 1)]
      /\ tx.N \in Nat /\ tx.N >= 1
  BY <1>1, <1>2, TransactionFacts
<1>4. iindex = tx.N - 1
  BY <1>1, BeatEdge DEF MemInv, CodeClean, Ports
<1>5. ireq.addr \in Addr BY CodeRequest
<1>6. tx.addr = WordAddr(ireq.addr.tag, ireq.addr.set, iindex)
  <2>1. [ireq.addr EXCEPT !.word = 0] = WordAddr(ireq.addr.tag, ireq.addr.set, 0)
    BY <1>5 DEF Addr, WordAddr
  <2>2. 0 + (tx.N - 1) = iindex BY <1>3, <1>4
  <2>3. tx.addr = WordAddr(ireq.addr.tag, ireq.addr.set, 0 + (tx.N - 1))
    BY <1>3, <2>1 DEF WordAddr
  <2>4. QED BY <2>2, <2>3
<1>7. iresp = [ready |-> TRUE, last |-> tx.N = tx.len,
               data |-> IF tx.is_write THEN ZeroWord ELSE mem[tx.addr]]
  BY <1>1, Answers
<1>8. iresp.data = mem[tx.addr] BY <1>3, <1>7
<1>9. iresp.last = (tx.N = LineWords) BY <1>3, <1>7
<1>10. (tx.N = LineWords) <=> (iindex = LineWords - 1) BY <1>3, <1>4, LineFacts
<1>11. QED BY <1>6, <1>8, <1>9, <1>10

\* A copy stays a copy where data_ram does not change.
LEMMA CopyStands ==
  ASSUME MemInv, DirtyInv, CodeUntouched, Next, NEW s \in Sets, NEW w \in Ways, NEW line,
         LineOK(line, s, w),
         \A o \in Offsets : idataram'[<<s, w, o>>] = idataram[<<s, w, o>>]
  PROVE  IF line.valid
           THEN CodeLine(line.tag, s)
                /\ \A o \in Offsets : o < LineWords =>
                      idataram'[<<s, w, o>>] = mem'[WordAddr(line.tag, s, o)]
           ELSE line.tag = ResetTag
BY CodeStands DEF LineOK, Copied

LEMMA CodeCopiesStep ==
  ASSUME MemInv, DirtyInv, CodeCopies, Next
  PROVE  CodeCopies'
<1> DEFINE set == ireq.addr.set
           tag == ireq.addr.tag
<1>1. /\ CodeUntouched
      /\ \A s \in Sets, w \in Ways : ~Filling(s) => LineOK(imetaram[s].way[w], s, w)
      /\ ireq.valid /\ istate = "FETCH" => RefillOK
      /\ ireq.valid /\ istate \in {"FINAL", "READY"} =>
           imetaram[set].way[ihit.way].valid /\ imetaram[set].way[ihit.way].tag = tag
  BY DEF CodeCopies
<1>2. CodeUntouched' BY <1>1 DEF CodeUntouched, Stored
<1>3. I!ClockEdge(iresp) BY DEF Next
<1>4. /\ istate \notin {"WRITEBACK", "WRITEREADY"} /\ istate \in States
      /\ imetaram \in [Sets -> IFacts!SetMeta] /\ imetarecord \in IFacts!SetMeta
      /\ ihit.way \in Ways /\ iindex \in Offsets
  BY DEF MemInv, CodeClean, IFacts!CacheTypeOK, IFacts!States, States, IFacts!Ways, Ways,
         IFacts!Offsets, Offsets
<1>5. ireq.valid => set \in Sets /\ CodeLine(tag, set) /\ tag # ResetTag
  <2> SUFFICES ASSUME ireq.valid PROVE set \in Sets /\ CodeLine(tag, set) /\ tag # ResetTag
    OBVIOUS
  <2>1. ireq \in IRequests BY DEF MemInv, CodeClean, NoRequest
  <2>2. QED BY <2>1, CodeRequest, TagAssumption DEF CodeLine
\* Outside a refill nothing is written.
<1>6. ASSUME ~(ireq.valid /\ istate = "FETCH"), NEW s \in Sets, NEW w \in Ways
      PROVE  LineOK(imetaram[s].way[w], s, w)'
  <2>1. imetaram' = imetaram /\ idataram' = idataram BY <1>6, CodeRam, CodeData
  <2>2. LineOK(imetaram[s].way[w], s, w) BY <1>1, <1>6 DEF Filling
  <2>3. IF imetaram[s].way[w].valid
          THEN CodeLine(imetaram[s].way[w].tag, s)
               /\ \A o \in Offsets : o < LineWords =>
                     idataram'[<<s, w, o>>] = mem'[WordAddr(imetaram[s].way[w].tag, s, o)]
          ELSE imetaram[s].way[w].tag = ResetTag
    BY <1>1, <2>1, <2>2, CopyStands
  <2>4. QED BY <2>1, <2>3 DEF LineOK, Copied, CodeLine, WordAddr
<1>7. CASE ~ireq.valid
  <2>1. istate' = "COMPARETAG"
    BY <1>3, <1>7 DEF I!ClockEdge, I!Idle, I!CompareHit, I!CompareMiss, I!WriteBack,
                      I!Fetch, I!Final, I!Ready, I!WriteReady
  <2>2. QED BY <1>2, <1>6, <1>7, <2>1 DEF CodeCopies
<1>8. CASE ireq.valid /\ istate = "COMPARETAG"
  <2>1. I!CompareHit \/ I!CompareMiss
    BY <1>3, <1>8 DEF I!ClockEdge, I!Idle, I!WriteBack, I!Fetch, I!Final, I!Ready,
                      I!WriteReady
  <2>2. \A s \in Sets, w \in Ways : LineOK(imetaram[s].way[w], s, w)'
    BY <1>6, <1>8
  <2>3. ireq' \in {ireq, NoRequest} BY <1>8, FetchPortMoves
  <2>4. imetaram' = imetaram /\ idataram' = idataram BY <1>8, CodeRam, CodeData
  <2>5. CASE I!CompareHit
    <3>1. PICK w \in Ways : I!Matches(w) /\ ihit' = [match |-> TRUE, way |-> w]
      BY <2>5 DEF I!CompareHit, I!Ways, Ways
    <3>2. imetaram[set].way[w].tag = tag /\ ihit'.way = w
      BY <3>1 DEF I!Matches, I!metaread
    <3>3. LineOK(imetaram[set].way[w], set, w) BY <1>1, <1>5, <1>8 DEF Filling
    <3>4. imetaram[set].way[w].valid BY <1>5, <1>8, <3>2, <3>3 DEF LineOK
    <3>5. istate' = "READY" BY <2>5 DEF I!CompareHit
    <3>6. ireq'.valid => ireq' = ireq BY <2>3 DEF NoRequest
    <3>7. QED BY <1>2, <2>2, <2>4, <3>2, <3>4, <3>5, <3>6 DEF CodeCopies
  <2>6. CASE I!CompareMiss
    <3>1. /\ imetarecord' = imetaram[set] /\ iindex' = 0
          /\ istate' \in {"WRITEBACK", "FETCH"}
      BY <2>6 DEF I!CompareMiss, I!metaread
    <3>2. ASSUME ireq' = ireq PROVE RefillOK'
      <4>1. ASSUME NEW w \in Ways PROVE LineOK(imetarecord.way[w], ireq.addr.set, w)'
        <5>1. LineOK(imetaram[set].way[w], set, w)' /\ set' = set
          BY <1>5, <1>8, <2>2, <3>2
        <5>2. imetarecord'.way[w] = imetaram'[set'].way[w] BY <2>4, <3>1, <3>2
        <5>3. QED BY <5>1, <5>2 DEF LineOK, Copied, CodeLine, WordAddr
      <4>2. \A o \in Offsets : ~(o < iindex') BY <3>1, LineFacts
      <4>3. ~(iindex' > 0) BY <3>1
      <4>4. QED BY <4>1, <4>2, <4>3 DEF RefillOK, Copied, LineOK
    <3>3. ireq'.valid => ireq' = ireq BY <2>3 DEF NoRequest
    <3>4. QED BY <1>2, <2>2, <3>1, <3>2, <3>3 DEF CodeCopies
  <2>7. QED BY <2>1, <2>5, <2>6
<1>9. CASE ireq.valid /\ istate \in {"FINAL", "READY"}
  <2>1. \A s \in Sets, w \in Ways : LineOK(imetaram[s].way[w], s, w)'
    BY <1>6, <1>9
  <2>2. imetaram' = imetaram BY <1>9, CodeRam
  <2>3. ~I!IsStore BY <1>9, CodeRequest DEF I!IsStore
  <2>4. CASE istate = "FINAL"
    <3>1. istate' = "READY" /\ ihit' = ihit
      BY <1>3, <1>9, <2>4 DEF I!ClockEdge, I!Idle, I!CompareHit, I!CompareMiss,
           I!WriteBack, I!Fetch, I!Final, I!Ready, I!WriteReady
    <3>2. ireq' = ireq BY <1>9, <2>4, FetchPortMoves
    <3>3. QED BY <1>1, <1>2, <1>9, <2>1, <2>2, <3>1, <3>2 DEF CodeCopies
  <2>5. CASE istate = "READY"
    <3>1. istate' = "COMPARETAG"
      BY <1>3, <1>9, <2>3, <2>5 DEF I!ClockEdge, I!Idle, I!CompareHit, I!CompareMiss,
           I!WriteBack, I!Fetch, I!Final, I!Ready, I!WriteReady
    <3>2. QED BY <1>2, <2>1, <3>1 DEF CodeCopies
  <2>6. QED BY <1>9, <2>4, <2>5
\* A cycle of the refill.
<1>10. CASE ireq.valid /\ istate = "FETCH"
  <2> DEFINE v == ihit.way
             new == [valid |-> TRUE, dirty |-> FALSE, tag |-> tag]
  <2>1. I!Fetch(iresp)
    BY <1>3, <1>10 DEF I!ClockEdge, I!Idle, I!CompareHit, I!CompareMiss, I!WriteBack,
                       I!Final, I!Ready, I!WriteReady
  <2>2. /\ ireq' = ireq /\ ihit' = ihit /\ imetarecord' = imetarecord
        /\ istate' = IF iresp.last THEN "FINAL" ELSE "FETCH"
        /\ iindex' = I!NextIndex(iresp)
    BY <1>10, <2>1, FetchPortMoves DEF I!Fetch
  <2>3. imetawrite'.way = [imetarecord.way EXCEPT ![v] = new]
    BY <1>4, <2>1 DEF I!Fetch, I!WithLine, IFacts!SetMeta
  <2>4. RefillOK /\ set \in Sets /\ CodeLine(tag, set) BY <1>1, <1>5, <1>10
  <2>5. imetaram' = [imetaram EXCEPT ![set] = imetawrite] BY <1>10, CodeRam
  <2>6. /\ idataram' = [idataram EXCEPT ![<<set, v, iindex>>] = iresp.data]
        /\ idataram \in [Slots -> Word]
    BY <1>10, CodeData
  <2>7. <<set, v, iindex>> \in Slots BY <1>4, <2>4 DEF Slots
  \* The copies in the other ways stand.
  <2>8. ASSUME NEW s \in Sets, NEW w \in Ways, NEW line, LineOK(line, s, w),
               s # set \/ w # v
        PROVE  IF line.valid
                 THEN CodeLine(line.tag, s)
                      /\ \A o \in Offsets : o < LineWords =>
                            idataram'[<<s, w, o>>] = mem'[WordAddr(line.tag, s, o)]
                 ELSE line.tag = ResetTag
    <3>1. \A o \in Offsets : <<s, w, o>> \in Slots /\ <<s, w, o>> # <<set, v, iindex>>
      BY <2>8 DEF Slots
    <3>2. \A o \in Offsets : idataram'[<<s, w, o>>] = idataram[<<s, w, o>>]
      BY <2>6, <3>1
    <3>3. QED BY <1>1, <2>8, <3>2, CopyStands
  \* The words that have arrived are memory's.
  <2>9. \A o \in Offsets : o < iindex \/ (iresp.ready /\ o = iindex) =>
           idataram'[<<set, v, o>>] = mem'[WordAddr(tag, set, o)]
    <3> SUFFICES ASSUME NEW o \in Offsets, o < iindex \/ (iresp.ready /\ o = iindex)
                 PROVE  idataram'[<<set, v, o>>] = mem'[WordAddr(tag, set, o)]
      OBVIOUS
    <3>1. mem'[WordAddr(tag, set, o)] = mem[WordAddr(tag, set, o)]
      BY <1>1, <2>4, CodeStands
    <3>2. CASE o = iindex
      <4>1. iresp.ready BY <1>4, <3>2 DEF Offsets
      <4>2. iresp.data = mem[WordAddr(tag, set, iindex)] BY <1>10, <4>1, CodeBeat
      <4>3. idataram'[<<set, v, o>>] = iresp.data BY <2>6, <2>7, <3>2
      <4>4. QED BY <3>1, <3>2, <4>2, <4>3
    <3>3. CASE o # iindex
      <4>1. <<set, v, o>> \in Slots /\ <<set, v, o>> # <<set, v, iindex>>
        BY <1>4, <2>4, <3>3 DEF Slots
      <4>2. idataram'[<<set, v, o>>] = idataram[<<set, v, o>>] BY <2>6, <4>1
      <4>3. idataram[<<set, v, o>>] = mem[WordAddr(tag, set, o)]
        BY <2>4, <3>3 DEF RefillOK, Copied
      <4>4. QED BY <3>1, <4>2, <4>3
    <3>4. QED BY <3>2, <3>3
  <2>10. iresp.last => iresp.ready
    BY Answers DEF NoResponse
  <2>11. iresp.last => iindex = LineWords - 1 /\ iindex > 0
    BY <1>10, <2>10, CodeBeat, LineFacts
  <2>12. ASSUME NEW s \in Sets, NEW w \in Ways, ~Filling(s)'
         PROVE  LineOK(imetaram[s].way[w], s, w)'
    <3>1. CASE s # set
      <4>1. imetaram'[s] = imetaram[s] BY <1>4, <2>4, <2>5, <3>1
      <4>2. LineOK(imetaram[s].way[w], s, w) BY <1>1, <3>1 DEF Filling
      <4>3. IF imetaram[s].way[w].valid
              THEN CodeLine(imetaram[s].way[w].tag, s)
                   /\ \A o \in Offsets : o < LineWords =>
                         idataram'[<<s, w, o>>] =
                            mem'[WordAddr(imetaram[s].way[w].tag, s, o)]
              ELSE imetaram[s].way[w].tag = ResetTag
        BY <2>8, <3>1, <4>2
      <4>4. QED BY <4>1, <4>3 DEF LineOK, Copied, CodeLine, WordAddr
    <3>2. CASE s = set
      <4>1. iresp.last BY <1>10, <2>2, <2>12, <3>2 DEF Filling
      <4>2. imetaram'[s].way = [imetarecord.way EXCEPT ![v] = new]
        BY <1>4, <2>4, <2>5, <2>11, <3>2, <4>1 DEF RefillOK
      <4>3. imetarecord.way \in [Ways -> IFacts!LineMeta]
        BY <1>4 DEF IFacts!SetMeta, IFacts!Ways, Ways
      <4>4. CASE w = v
        <5>1. imetaram'[s].way[w] = new BY <4>2, <4>3, <4>4
        <5>2. \A o \in Offsets : idataram'[<<s, w, o>>] = mem'[WordAddr(tag, s, o)]
          <6>1. \A o \in Offsets : o < iindex \/ (iresp.ready /\ o = iindex)
            BY <2>10, <2>11, <4>1, LineFacts DEF Offsets
          <6>2. QED BY <2>9, <3>2, <4>4, <6>1
        <5>3. new.valid = TRUE /\ new.tag = tag OBVIOUS
        <5>4. QED
          BY <2>4, <3>2, <5>1, <5>2, <5>3 DEF LineOK, Copied, CodeLine, WordAddr
      <4>5. CASE w # v
        <5>1. imetaram'[s].way[w] = imetarecord.way[w] BY <4>2, <4>3, <4>5
        <5>2. LineOK(imetarecord.way[w], s, w) BY <2>4, <3>2, <4>5 DEF RefillOK
        <5>3. IF imetarecord.way[w].valid
                THEN CodeLine(imetarecord.way[w].tag, s)
                     /\ \A o \in Offsets : o < LineWords =>
                           idataram'[<<s, w, o>>] =
                              mem'[WordAddr(imetarecord.way[w].tag, s, o)]
                ELSE imetarecord.way[w].tag = ResetTag
          BY <2>8, <4>5, <5>2
        <5>4. QED BY <5>1, <5>3 DEF LineOK, Copied, CodeLine, WordAddr
      <4>6. QED BY <4>4, <4>5
    <3>3. QED BY <3>1, <3>2
  <2>13. CASE ~iresp.last
    <3>1. RefillOK'
      <4>1. ASSUME NEW w \in Ways, w # v
            PROVE  LineOK(imetarecord.way[w], ireq.addr.set, w)'
        <5>1. LineOK(imetarecord.way[w], set, w) BY <2>4, <4>1 DEF RefillOK
        <5>2. IF imetarecord.way[w].valid
                THEN CodeLine(imetarecord.way[w].tag, set)
                     /\ \A o \in Offsets : o < LineWords =>
                           idataram'[<<set, w, o>>] =
                              mem'[WordAddr(imetarecord.way[w].tag, set, o)]
                ELSE imetarecord.way[w].tag = ResetTag
          BY <2>4, <2>8, <4>1, <5>1
        <5>3. QED BY <2>2, <5>2 DEF LineOK, Copied, CodeLine, WordAddr
      <4>2. \A o \in Offsets : o < iindex' => o < iindex \/ (iresp.ready /\ o = iindex)
        <5>1. CASE ~iresp.ready BY <2>2, <2>13, <5>1 DEF I!NextIndex
        <5>2. CASE iresp.ready
          <6>1. iindex \in Nat /\ iindex + 1 < LineWords
            BY <1>4, <1>10, <2>13, <5>2, CodeBeat, LineFacts DEF Offsets
          <6>2. iindex' = iindex + 1
            BY <2>2, <2>13, <5>2, <6>1, SmallQuotient DEF I!NextIndex
          <6>3. QED BY <5>2, <6>1, <6>2, LineFacts DEF Offsets
        <5>3. QED BY <5>1, <5>2
      <4>3. Copied(ireq.addr.set, ihit.way, ireq.addr.tag, iindex)'
        BY <2>2, <2>9, <4>2 DEF Copied, WordAddr
      <4>4. imetawrite'.way = [imetarecord'.way EXCEPT ![ihit'.way] =
                                 [valid |-> TRUE, dirty |-> FALSE, tag |-> ireq'.addr.tag]]
        BY <2>2, <2>3
      <4>5. QED BY <2>2, <4>1, <4>3, <4>4 DEF RefillOK, LineOK, Copied
    <3>2. istate' = "FETCH" BY <2>2, <2>13
    <3>3. QED BY <1>2, <2>12, <3>1, <3>2 DEF CodeCopies
  <2>14. CASE iresp.last
    <3>1. imetaram'[set].way = [imetarecord.way EXCEPT ![v] = new]
      BY <1>4, <2>4, <2>5, <2>11, <2>14 DEF RefillOK
    <3>2. imetarecord.way \in [Ways -> IFacts!LineMeta]
      BY <1>4 DEF IFacts!SetMeta, IFacts!Ways, Ways
    <3>3. imetaram'[set].way[v] = new BY <1>4, <3>1, <3>2
    <3>4. new.valid = TRUE /\ new.tag = tag OBVIOUS
    <3>5. imetaram'[set].way[v].valid /\ imetaram'[set].way[v].tag = tag
      BY <3>3, <3>4
    <3>6. istate' = "FINAL" BY <2>2, <2>14
    <3>7. QED BY <1>2, <2>2, <2>12, <3>5, <3>6 DEF CodeCopies
  <2>15. QED BY <2>13, <2>14
<1>11. QED BY <1>4, <1>7, <1>8, <1>9, <1>10 DEF States

LEMMA CopiesInit == CodeUntouched /\ Init => DirtyInv /\ CodeCopies
<1> SUFFICES ASSUME CodeUntouched, Init PROVE DirtyInv /\ CodeCopies OBVIOUS
<1>1. CacheInit /\ I!CacheInit /\ dreq = NoRequest /\ ireq = NoRequest BY DEF Init
<1>2. DirtyInv
  <2>1. ~dreq.valid /\ ~DFacts!Cached BY <1>1 DEF NoRequest, DFacts!Cached
  <2>2. \A s \in Sets, w \in Ways : ~metaram[s].way[w].valid
    BY <1>1 DEF CacheInit, EmptyMeta
  <2>3. QED BY <1>1, <2>1, <2>2 DEF DirtyInv, DirtyIsStored
<1>3. CodeCopies
  <2>1. ~ireq.valid BY <1>1 DEF NoRequest
  <2>2. \A s \in Sets, w \in Ways :
          ~imetaram[s].way[w].valid /\ imetaram[s].way[w].tag = ResetTag
    BY <1>1 DEF I!CacheInit, I!EmptyMeta, I!Ways, Ways
  <2>3. QED BY <2>1, <2>2 DEF CodeCopies, LineOK
<1>4. QED BY <1>2, <1>3

LEMMA CopiesStutter ==
  ASSUME DirtyInv, CodeCopies, UNCHANGED vars
  PROVE  DirtyInv' /\ CodeCopies'
<1>1. DirtyInv'
  BY DEF vars, cachevars, DirtyInv, DirtyIsStored, DFacts!Refilling, DFacts!Cached, Stored
<1>2. CodeCopies'
  BY DEF vars, icachevars, CodeCopies, CodeUntouched, Stored, Filling, LineOK, Copied,
         CodeLine, RefillOK, WordAddr
<1>3. QED BY <1>1, <1>2

\* A fetch is answered with the word memory holds, for a program that does not
\* write its own code: through hits, refills, the loads that bring the same
\* line into the data cache, and fetches withdrawn after a miss began.
THEOREM FetchesReadMemory == CodeUntouched /\ Spec => FetchedFrom
<1>1. ASSUME MemInv, CodeCopies, Next, irsp'.ok PROVE irsp'.data = mem[ireq.addr]
  <2>1. I!DataOk(iresp) /\ irsp'.data = I!RespData(iresp)
    BY <1>1 DEF Next, FetchPort, NoAnswer
  <2>2. ireq.valid BY <2>1 DEF I!DataOk
  <2>3. ~I!Uncached BY <1>1, <2>2, CodeRequest DEF I!Uncached
  <2>4. istate = "READY" /\ irsp'.data = idataram[<<ireq.addr.set, ihit.way, ireq.addr.word>>]
    BY <1>1, <2>1, <2>3
       DEF MemInv, CodeClean, I!DataOk, I!RespData, I!dataread, I!DataSlot
  <2>5. ihit.way \in Ways
    BY <1>1 DEF MemInv, CodeClean, IFacts!CacheTypeOK, IFacts!Ways, Ways
  <2>6. ireq.addr \in Addr /\ ireq.addr.set \in Sets /\ ireq.addr.word \in Offsets
    BY <1>1, <2>2, CodeRequest DEF Addr
  <2>7. LineOK(imetaram[ireq.addr.set].way[ihit.way], ireq.addr.set, ihit.way)
    BY <1>1, <2>4, <2>5, <2>6 DEF CodeCopies, Filling
  <2>8. /\ imetaram[ireq.addr.set].way[ihit.way].valid
        /\ imetaram[ireq.addr.set].way[ihit.way].tag = ireq.addr.tag
    BY <1>1, <2>2, <2>4 DEF CodeCopies
  <2>9. idataram[<<ireq.addr.set, ihit.way, ireq.addr.word>>] =
          mem[WordAddr(ireq.addr.tag, ireq.addr.set, ireq.addr.word)]
    BY <2>6, <2>7, <2>8, LineFacts DEF LineOK, Copied
  <2>10. WordAddr(ireq.addr.tag, ireq.addr.set, ireq.addr.word) = ireq.addr
    BY <2>6 DEF Addr, WordAddr
  <2>11. QED BY <2>4, <2>9, <2>10
<1> DEFINE A == irsp'.ok => irsp'.data = mem[ireq.addr]
<1>2. MemInv /\ CodeCopies /\ [Next]_vars => [A]_vars BY <1>1
<1>3. MemInv /\ DirtyInv /\ CodeCopies /\ [Next]_vars => DirtyInv' /\ CodeCopies'
  BY DirtyStep, CodeCopiesStep, CopiesStutter
<1>4. QED
  BY CopiesInit, MemInvariant, <1>2, <1>3, PTL DEF Spec, FetchedFrom
=============================================================================
