----------------------------- MODULE CacheBench -----------------------------
(***************************************************************************)
(* The test bench of the data cache: VCacheTop (the cache alone on its     *)
(* bus), MyCache::_tick (one clock of cache and CBusDevice), and the two   *)
(* ways the tests drive it, DBusGen (blocking calls, compared with the     *)
(* reference cache under CMP_TO) and DBusPipelineGen (a queue of tasks).   *)
(*                                                                         *)
(* The tests run between two clocks and see the wires as the last clock    *)
(* left them: the new registers of the cache, but the device's response of *)
(* the cycle before, in the variable cresp.  A test uses either the        *)
(* pipeline or the compared calls.                                         *)
(***************************************************************************)
EXTENDS DCache, LoadOp, Sequences

CONSTANTS
    CachedBit,      \* bit 31 in the tag: a number
    Operations,     \* what a test may do: [kind, at, offset, width, value]
    MaxOngoing      \* bound: tasks in the queue of a pipeline

\* The tests use the addresses of the memory, from 0; DBusGen sets bit 31.
MemTags == UncachedTags
MemAddr == [tag : MemTags, set : Sets, word : Offsets]

VARIABLES
    tx, enable, mem,    \* the device
    cresp,              \* the response wires as they were left
    ongoing,            \* DBusPipelineGen::ongoing
    fencing,            \* is the test inside fence?
    call,               \* the blocking call a compared test is inside
    compared,           \* is it a test under CMP_TO?
    ref,                \* the reference cache
    prog                \* the memory as the test believes it to be

benchvars == <<ongoing, fencing, call, compared, ref, prog>>
vars == <<dreq, cachevars, tx, enable, mem, cresp, benchvars>>

Device == INSTANCE CBusDevice
Ref    == INSTANCE CacheRef WITH
             RefSets <- Sets, RefTags <- MemTags, ZeroTag <- ResetTag

ASSUME BenchAssumption ==
    /\ MemTags \subseteq Nat /\ CachedBit \in Nat
    /\ CachedTags = {t + CachedBit : t \in MemTags}
    /\ MaxOngoing \in Nat \ {0}
    /\ \A op \in Operations :
          /\ op.kind \in {"load", "store", "expect"}
          /\ op.at \in MemAddr
          /\ op.width \in Widths /\ op.offset \in Lanes /\ op.offset % op.width = 0
          /\ op.kind = "store" => op.value \in [0 .. op.width - 1 -> Bytes]

-----------------------------------------------------------------------------
(* Tasks.                                                                  *)

None == [kind |-> "none"]

\* The bytes of an access as the test counts them.
Want(op) == [i \in 0 .. op.width - 1 |-> prog[op.at][op.offset + i]]
Believed(op) ==
    IF op.kind # "store" THEN prog
    ELSE [prog EXCEPT ![op.at] =
            [l \in Lanes |-> IF l \in op.offset .. op.offset + op.width - 1
                               THEN op.value[l - op.offset] ELSE @[l]]]

\* The value of a store or of an expectation has zeros above its width.
ValueWord(bytes) ==
    [l \in Lanes |-> IF l \in DOMAIN bytes THEN bytes[l] ELSE ZeroByte]

\* A task as the helpers of DBusGen and DBusPipelineGen build it from an
\* address, a width and a value.  A test expects what it has stored; want is
\* what it will find a load to have returned.
Task(op) ==
    LET lane == parse(op.width, op.offset)
    IN  CASE op.kind = "store" ->
               [kind |-> "store", at |-> op.at, op |-> lane, strobe |-> strobe(lane),
                data |-> place(lane, ValueWord(op.value))]
          [] op.kind = "expect" ->
               [kind |-> "expect", at |-> op.at, op |-> lane, strobe |-> {},
                data |-> place(lane, ValueWord(Want(op)))]
          [] op.kind = "load" ->
               [kind |-> "load", at |-> op.at, op |-> lane, strobe |-> {},
                want |-> Want(op)]

Bug_Issued(t) ==
    [valid |-> TRUE, addr |-> t.at, strobe |-> t.strobe,
     data |-> IF t.kind = "store" THEN t.data ELSE ZeroWord]
\* async_load and async_store set bit 31 of the address.
Issued(t) ==
    [valid |-> TRUE, addr |-> [t.at EXCEPT !.tag = @ + CachedBit], strobe |-> t.strobe,
     data |-> IF t.kind = "store" THEN t.data ELSE ZeroWord]

-----------------------------------------------------------------------------
(* One clock of cache and device.                                          *)

\* CBusWrapperGen::addr clears bit 31.
MemReq ==
    IF ~CBusValid THEN Silent
    ELSE [CBusRequest EXCEPT !.addr.tag = IF @ \in CachedTags THEN @ - CachedBit ELSE @]
WireStrobe == IF CBusValid THEN CBusStrobe ELSE {}
WireData   == IF CBusValid THEN CBusData ELSE ZeroWord

\* MyCache::_tick: the device answers, the cache settles, the device takes the
\* request up, and both see the edge.
Cycle ==
    /\ cresp' = Device!DeviceResp
    /\ ClockEdge(cresp')
    /\ Device!DeviceEdge(MemReq, WireStrobe, WireData)

Init ==
    /\ CacheInit
    /\ dreq = NoRequest
    /\ Device!DeviceInit
    /\ mem = [a \in MemAddr |-> ZeroWord]
    /\ cresp = NoResponse
    /\ ongoing = <<>> /\ fencing = FALSE /\ call = None
    /\ compared \in BOOLEAN
    /\ Ref!RefInit(mem)
    /\ prog = mem

-----------------------------------------------------------------------------
(* DBusPipelineGen.                                                        *)

busy == dreq.valid

\* load, store, expect: submit.
Submit(op) ==
    /\ ~compared /\ ~fencing
    /\ Len(ongoing) < MaxOngoing
    /\ ongoing' = Append(ongoing, Task(op))
    /\ dreq' = IF busy THEN dreq ELSE Issued(Task(op))
    /\ prog' = Believed(op)
    /\ UNCHANGED <<cachevars, tx, enable, mem, cresp, fencing, call, compared, ref>>

\* fence ticks until the queue is empty.
Fence ==
    /\ ~compared /\ ~fencing /\ ongoing # <<>>
    /\ fencing' = TRUE
    /\ UNCHANGED <<dreq, cachevars, tx, enable, mem, cresp, ongoing, call, compared, ref, prog>>

\* tick reads valid, data_ok and the data before the clock.
Tick ==
    /\ ~compared
    /\ Cycle
    /\ ongoing' = IF busy /\ DataOk(cresp) THEN Tail(ongoing) ELSE ongoing
    /\ dreq' = IF ongoing' = <<>> THEN NoRequest ELSE Issued(Head(ongoing'))
    /\ fencing' = (fencing /\ ongoing' # <<>>)
    /\ UNCHANGED <<call, compared, ref, prog>>

-----------------------------------------------------------------------------
(* DBusGen under CMP_TO: a load or store of _TestbenchDBusWrapperGen.      *)

Call(op) ==
    /\ compared /\ call = None
    /\ op.kind # "expect"
    /\ call' = Task(op)
    /\ dreq' = Issued(Task(op))
    /\ prog' = Believed(op)
    /\ UNCHANGED <<cachevars, tx, enable, mem, cresp, ongoing, fencing, compared, ref>>

\* One round of await; with the handshake the call returns and the reference
\* cache does the same.
Await ==
    /\ call # None
    /\ Cycle
    /\ IF DataOk(cresp)
         THEN /\ dreq' = NoRequest
              /\ call' = None
              /\ ref' = IF call.kind = "load"
                          THEN Ref!Loaded(ref, call.at)
                          ELSE Ref!Stored(ref, call.at, call.strobe, call.data)
         ELSE UNCHANGED <<dreq, call, ref>>
    /\ UNCHANGED <<ongoing, fencing, compared, prog>>

Next ==
    \/ \E op \in Operations : Submit(op) \/ Call(op)
    \/ Fence
    \/ Tick
    \/ Await

Spec == Init /\ [][Next]_vars

\* p_disable is a probability below one, so the device is enabled again and
\* again, and a test that waits does nothing but tick.
FairSpec == Spec /\ WF_vars(Tick /\ enable') /\ WF_vars(Await /\ enable')
-----------------------------------------------------------------------------
(* Properties.                                                             *)

Popped == Len(ongoing') < Len(ongoing)

\* Each task of a pipeline takes the answer to its own request: a load finds
\* what the stores before it left, in program order and byte by byte, and no
\* expectation fails (apply_assert).
DeliveredInOrder ==
    [][Popped =>
         LET t == Head(ongoing)
         IN  CASE t.kind = "load" -> applyTo(t.op, RespData(cresp)) = t.want
               [] t.kind = "expect" ->
                    \A l \in mask(t.op) : RespData(cresp)[l] = t.data[l]
               [] t.kind = "store" -> TRUE]_vars

\* The comparison of _TestbenchDBusWrapperGen::load never fails: cache and
\* reference cache, which replace different lines, return the same word.
ReferenceAgrees ==
    [][call # None /\ call' = None /\ call.kind = "load" =>
         RespData(cresp) = Ref!LoadValue(ref, call.at)]_vars

\* Between two calls the reference cache holds what the test has stored.
RefHoldsProgram == call = None /\ compared => Ref!RefHoldsProgram

\* A fence ends and a blocking call returns: no await runs into its timeout.
WaitsEnd ==
    /\ fencing ~> ~fencing
    /\ call # None ~> call = None
=============================================================================
