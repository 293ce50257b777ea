----------------------------- MODULE MemSystem ------------------------------
(***************************************************************************)
(* The memory system of VTop.sv: the data cache (input 0 of the arbiter)   *)
(* and the instruction cache (input 1) share one cache bus to the          *)
(* simulation memory.  The core is reduced to its two request ports:       *)
(*                                                                         *)
(*  - the fetch port drops ireq.valid for the one cycle "move" after the   *)
(*    pc changed, and only then changes the address; a taken or not taken  *)
(*    branch changes the pc in the first cycle of the next fetch, while    *)
(*    the cache still compares tags, and so withdraws it (FetchHeld of     *)
(*    CoreProps: it is never later);                                       *)
(*  - the data port holds its request until an answer and is silent for at *)
(*    least the cycle after it (DataHeld and DataRests of CoreProps).      *)
(*                                                                         *)
(* The variables of DCache are the data cache's; those with an i in front  *)
(* are the instruction cache's.                                            *)
(***************************************************************************)
EXTENDS DCache

CONSTANTS
    DRequests,      \* what the data port may ask
    IRequests,      \* what the fetch port may ask: loads of cached words
    Memories        \* what memory may hold to begin with

\* Code lives behind bit 31: the pc starts at PCINIT (include/common.sv:13) and
\* the loader puts the image there.  A withdrawn uncached fetch would leave the
\* arbiter granted to a silent master.
ASSUME PortAssumption ==
    /\ DRequests \subseteq Request
    /\ IRequests \subseteq {r \in Request : r.strobe = {} /\ r.addr.tag \in CachedTags}
    /\ Memories \subseteq [Addr -> Word]

VARIABLES
    ireq, istate, ihit, iindex, imetarecord, imetawrite, imetaram, idataram,
    busy, grant,                \* the arbiter
    tx, enable, mem,            \* the device
    drsp, irsp                  \* what the core latched at the last edge

icachevars == <<istate, ihit, iindex, imetarecord, imetawrite, imetaram, idataram>>
vars == <<dreq, cachevars, ireq, icachevars, busy, grant, tx, enable, mem, drsp, irsp>>

I == INSTANCE DCache WITH
        dreq <- ireq, state <- istate, hit <- ihit, index <- iindex,
        metarecord <- imetarecord, metawrite <- imetawrite,
        metaram <- imetaram, dataram <- idataram

\* .ireqs({icreq, dcreq}) in VTop.sv: the data cache is input 0.
DPort == 0
IPort == 1
ireqs == [i \in {DPort, IPort} |->
            IF i = DPort THEN IF CBusValid THEN CBusRequest ELSE Silent
                         ELSE IF I!CBusValid THEN I!CBusRequest ELSE Silent]

Arbiter == INSTANCE CBusArbiter WITH NumInputs <- 2
Device  == INSTANCE CBusDevice

NoAnswer == [ok |-> FALSE, data |-> ZeroWord]

Init ==
    /\ CacheInit /\ I!CacheInit
    /\ dreq = NoRequest /\ ireq = NoRequest
    /\ Arbiter!ArbiterInit
    /\ Device!DeviceInit
    /\ mem \in Memories
    /\ drsp = NoAnswer /\ irsp = NoAnswer

oresp == Device!DeviceResp
dresp == Arbiter!iresp(DPort, oresp)
iresp == Arbiter!iresp(IPort, oresp)

DataPort ==
    IF DataOk(dresp)
      THEN /\ dreq' = NoRequest
           /\ drsp' = [ok |-> TRUE, data |-> IF IsStore THEN ZeroWord ELSE RespData(dresp)]
      ELSE /\ IF dreq.valid THEN UNCHANGED dreq ELSE dreq' \in DRequests \cup {NoRequest}
           /\ drsp' = NoAnswer

\* A fetch answered while the pipeline is stalled is simply asked again.
FetchPort ==
    IF I!DataOk(iresp)
      THEN /\ ireq' \in {ireq, NoRequest}
           /\ irsp' = [ok |-> TRUE, data |-> I!RespData(iresp)]
      ELSE /\ IF ireq.valid
                THEN ireq' = ireq \/ (istate = "COMPARETAG" /\ ireq' = NoRequest)
                ELSE ireq' \in IRequests \cup {NoRequest}
           /\ irsp' = NoAnswer

\* The write wires behind the arbiter; a fetch drives none that matter.
WireStrobe == IF busy /\ grant = DPort THEN CBusStrobe ELSE Lanes
WireData   == IF busy /\ grant = DPort /\ CBusValid THEN CBusData ELSE ZeroWord

Next ==
    /\ ClockEdge(dresp)
    /\ I!ClockEdge(iresp)
    /\ Arbiter!ArbiterEdge(oresp)
    /\ Device!DeviceEdge(Arbiter!oreq, WireStrobe, WireData)
    /\ DataPort
    /\ FetchPort

Spec     == Init /\ [][Next]_vars
FairSpec == Spec /\ WF_vars(Next /\ enable')

-----------------------------------------------------------------------------
(* Properties.                                                             *)

\* The beat the granted cache has got to, as the device counts it.
BeatOf(port) == IF tx.busy /\ busy /\ grant = port THEN tx.N - 1 ELSE 0

\* Behind the arbiter and beside the other cache, the data cache lives in the
\* surroundings CacheSystem gives it, so what is proved there holds here.
DataCacheAlone == INSTANCE CacheSystem WITH
    Requests <- DRequests, beat <- BeatOf(DPort), rsp <- drsp
DataCacheUndisturbed == DataCacheAlone!Spec

\* The device's own checks (cbus_device.cpp:39-43) hold for the two caches.
DeviceChecks == Device!Checks(Arbiter!oreq)

\* The two caches never wait for one another for ever, in spite of the fixed
\* priority: the data port's silent cycle lets the fetch through.
FetchAnswered == ireq.valid ~> (irsp.ok \/ ~ireq.valid)
DataAnswered  == dreq.valid ~> drsp.ok

\* A fetch from a line no store touches returns what memory holds there.  (A
\* store to code is not seen by the instruction cache: nothing invalidates it.)
FetchedFrom == [][irsp'.ok => irsp'.data = mem[ireq.addr]]_vars
=============================================================================
