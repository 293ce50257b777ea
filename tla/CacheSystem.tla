---------------------------- MODULE CacheSystem -----------------------------
(***************************************************************************)
(* One DCache between a DBus master and a memory on the cache bus: the     *)
(* arrangement of VCacheTop.sv, and of VTop.sv seen from one cache.  Every *)
(* step is one rising clock edge of all three.                             *)
(*                                                                         *)
(* The memory side is code outside the cache: it may take any number of    *)
(* cycles before each beat (the arbiter, CBusDevice and CBusToAXI all do). *)
(* The master holds a request until it is answered, as memory.sv does by   *)
(* stalling, and never starts a cached request in the cycle that follows   *)
(* an uncached answer: the pipeline always leaves a bubble there, because  *)
(* two instructions are at least three cycles apart when they are fetched. *)
(***************************************************************************)
EXTENDS DCache

CONSTANTS
    Requests,     \* the requests the master may make
    Memories      \* what the memory may hold to begin with

ASSUME EnvironmentAssumption ==
    Requests \subseteq Request /\ Memories \subseteq [Addr -> Word]

VARIABLES
    mem,      \* the memory behind the cache bus
    beat,     \* the beat its current transaction has got to
    rsp       \* what the master latched from dresp at the last edge

vars == <<dreq, state, hit, index, metarecord, metawrite, metaram, dataram,
          mem, beat, rsp>>

NoAnswer == [ok |-> FALSE, data |-> ZeroWord]

TypeOK ==
    /\ CacheTypeOK
    /\ mem \in [Addr -> Word]
    /\ beat \in Offsets
    /\ rsp \in [ok : BOOLEAN, data : Word]

Init ==
    /\ CacheInit
    /\ dreq = NoRequest
    /\ mem \in Memories
    /\ beat = 0
    /\ rsp = NoAnswer

-----------------------------------------------------------------------------
(* The memory.  Its responses to the request on the bus in this cycle:     *)

BeatAddr == [CBusAddr EXCEPT !.word = (@ + beat) % LineWords]
LastBeat == beat = CBusLen - 1

\* Between beats, and during a write, the data wires carry anything.
NotReady == {[ready |-> FALSE, last |-> FALSE, data |-> d] : d \in Word}
Beat ==
    IF CBusIsWrite
      THEN {[ready |-> TRUE, last |-> LastBeat, data |-> d] : d \in Word}
      ELSE {[ready |-> TRUE, last |-> LastBeat, data |-> mem[BeatAddr]]}
Responses == NotReady \cup (IF CBusValid THEN Beat ELSE {})

Memory(cresp) ==
    IF cresp.ready
      THEN /\ beat' = IF cresp.last THEN 0 ELSE beat + 1
           /\ mem' = IF CBusIsWrite
                       THEN [mem EXCEPT ![BeatAddr] = Merge(@, CBusStrobe, CBusData)]
                       ELSE mem
      ELSE UNCHANGED <<mem, beat>>

-----------------------------------------------------------------------------
(* The master.                                                             *)

NextRequests ==
    IF Uncached THEN {r \in Requests : r.addr.tag \in UncachedTags} ELSE Requests

Master(cresp) ==
    IF DataOk(cresp)
      THEN /\ dreq' \in NextRequests \cup {NoRequest}
           /\ rsp' = [ok   |-> TRUE,
                      data |-> IF IsStore THEN ZeroWord ELSE RespData(cresp)]
      ELSE /\ IF dreq.valid THEN UNCHANGED dreq
                            ELSE dreq' \in Requests \cup {NoRequest}
           /\ rsp' = NoAnswer

Step(cresp) == ClockEdge(cresp) /\ Memory(cresp) /\ Master(cresp)

Next == \E cresp \in Responses : Step(cresp)

\* The memory answers in the end: each beat comes after finitely many cycles.
BeatStep == \E cresp \in Responses : cresp.ready /\ Step(cresp)

-----------------------------------------------------------------------------
(* What the cache and the memory hold between them.                        *)

\* The set whose line is being refilled: meta_ram already names the new
\* line while its words are still arriving, and in the first cycle of FETCH
\* it is even given the stale contents of the metawrite register.
Refilling(s) == state = "FETCH" /\ Cached /\ dreq.addr.set = s

\* The line in way w of set s, as far as it can be answered from the cache.
Line(s, w) == IF Refilling(s) THEN metarecord.way[w] ELSE metaram[s].way[w]
Present(s, w) == Line(s, w).valid /\ ~(Refilling(s) /\ hit.way = w)
Holds(w, a)   == Line(a.set, w).tag = a.tag /\ Present(a.set, w)

\* The value of an address: the cached copy if there is one.
Value(a) ==
    IF Holds(0, a) THEN dataram[<<a.set, 0, a.word>>]
    ELSE IF Holds(1, a) THEN dataram[<<a.set, 1, a.word>>]
    ELSE mem[a]

\* A cached store has reached data_ram: a hit writes in READY, a miss in FINAL.
StoreDone ==
    /\ Cached /\ IsStore
    /\ state = "WRITEREADY" \/ (state = "READY" /\ ~hit.match)

Atomic == INSTANCE AtomicMemory WITH
    amem <- [a \in Addr |-> Value(a)], req <- dreq, done <- StoreDone

Spec == Init /\ [][Next]_vars
-----------------------------------------------------------------------------
(* Properties.                                                             *)

\* The cache is invisible: with write-backs, refills, uncached accesses and
\* any delay of the memory, each load returns the last store to its address
\* and each store takes effect once.
ReadsLastWrite == Atomic!Spec

\* No line is in both ways of a set: the priority of the tag comparison
\* (DCache.sv:194-203) never has to choose.
NoDuplicateLine ==
    \A s \in Sets :
        Present(s, 0) /\ Present(s, 1) => Line(s, 0).tag # Line(s, 1).tag

\* The word a store is about to mark dirty: FINAL writes data_ram, and READY
\* writes the dirty bit a cycle later.
DirtyPending(s, w, o) ==
    StoreDone /\ state = "READY" /\ <<s, w, o>> = DataSlot

\* A clean line is a copy of memory, so dropping it without a write-back
\* (DCache.sv:217) loses nothing.
CleanLineIsCopy ==
    \A s \in Sets, w \in Ways, o \in Offsets :
        Present(s, w) /\ ~Line(s, w).dirty /\ ~DirtyPending(s, w, o) =>
            dataram[<<s, w, o>>] = mem[[tag |-> Line(s, w).tag, set |-> s, word |-> o]]

\* During a burst the cache and the memory count the same words, whatever the
\* pauses between beats.
BurstInStep == Cached /\ CBusValid => index = beat

\* The checks of CBusDevice::eval_req (cbus_device.cpp:39-43), made from the
\* cycle a request is raised: until its last beat it stays valid and its
\* kind, address and length do not move.
LastBeatTaken == IF Uncached THEN rsp'.ok ELSE LastBeat /\ beat' = 0
CBusHeld == [][CBusValid /\ ~LastBeatTaken => CBusRequest' = CBusRequest]_vars
=============================================================================
