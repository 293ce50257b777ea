----------------------------- MODULE AxiSystem ------------------------------
(***************************************************************************)
(* A master, the AXI bridge and an AXI memory.  The memory is external and *)
(* as free as AXI lets it be: it accepts addresses and data in any order   *)
(* and at any time, buffers the data of a write, and only the response on  *)
(* channel B says that they have arrived in memory.                        *)
(***************************************************************************)
EXTENDS AxiBridge, BusMaster, Sequences

\* The counter of the bridge holds the length of every burst.
ASSUME LengthAssumption == LineWords <= CountValues

VARIABLES
    mem,
    rd,       \* the read the memory is serving: its address, length and beat
    aw,       \* the write address it has accepted
    wq,       \* the write beats it has accepted
    rsp       \* the response of the last cycle, as the master read it

vars == <<creq, in_issue, saved_req, count, mem, rd, aw, wq, rsp>>

None == [len |-> 0]

Init ==
    /\ creq = Silent
    /\ BridgeInit
    /\ mem \in [Addr -> {ZeroWord}]
    /\ rd = None /\ aw = None /\ wq = <<>>
    /\ rsp = NoResponse

\* What the memory may do in a cycle.
AllAccepted == wq # <<>> /\ wq[Len(wq)].last
Offers ==
    {s \in [go : SUBSET in_issue, rlast : BOOLEAN, rdata : Word] :
        /\ "AR" \in s.go => rd = None
        /\ IF "R" \in s.go
             THEN /\ rd # None
                  /\ s.rlast = (rd.beat + 1 = rd.len)
                  /\ s.rdata = mem[Wrapped(rd.addr, rd.len, rd.beat)]
             ELSE ~s.rlast /\ s.rdata = ZeroWord
        /\ "AW" \in s.go => aw = None
        /\ "W" \in s.go => ~AllAccepted
        /\ "B" \in s.go => aw # None /\ AllAccepted}

\* What an address holds once the write has arrived: no two beats of a burst
\* fall on one address.
Written(a, first, len) ==
    LET hits == {k \in 1 .. Len(wq) : Wrapped(first, len, k - 1) = a}
        w == wq[CHOOSE k \in hits : TRUE]
    IN  IF hits = {} THEN mem[a] ELSE Merge(mem[a], w.strobe, w.data)

MemoryEdge(s) ==
    LET h == handshake(s)
    IN  /\ rd' = CASE "AR" \in h -> [addr |-> saved_req.addr, len |-> saved_req.len, beat |-> 0]
                   [] "R" \in h  -> IF s.rlast THEN None ELSE [rd EXCEPT !.beat = @ + 1]
                   [] OTHER      -> rd
        /\ aw' = CASE "AW" \in h -> [addr |-> saved_req.addr, len |-> saved_req.len]
                   [] "B" \in h  -> None
                   [] OTHER      -> aw
        /\ wq' = CASE "W" \in h  -> Append(wq, [strobe |-> creq.strobe, data |-> creq.data,
                                                last |-> is_last])
                   [] "B" \in h  -> <<>>
                   [] OTHER      -> wq
        /\ mem' = IF "B" \in h THEN [a \in Addr |-> Written(a, aw.addr, aw.len)] ELSE mem

Cycle(s) ==
    /\ BridgeEdge(s)
    /\ MemoryEdge(s)
    /\ rsp' = Latched(creq, cresp(s))
    /\ creq' \in Follows(creq, cresp(s))

Next == \E s \in Offers : Cycle(s)
Spec == Init /\ [][Next]_vars

\* The memory accepts and answers in the end.
FairSpec ==
    /\ Spec
    /\ WF_vars(Next)
    /\ \A c \in Channels : WF_vars(\E s \in Offers : c \in s.go /\ Cycle(s))
-----------------------------------------------------------------------------
(* Properties.                                                             *)

TypeOK ==
    /\ creq \in BusRequest \cup {Silent} /\ saved_req \in BusRequest \cup {Silent}
    /\ in_issue \in (SUBSET {"AR", "R"}) \cup (SUBSET {"AW", "W", "B"})
    /\ count \in Offsets
    /\ mem \in [Addr -> Word]
    /\ rd \in {None} \cup [addr : Addr, len : {1, LineWords}, beat : Offsets]
    /\ aw \in {None} \cup [addr : Addr, len : {1, LineWords}]
    /\ wq \in Seq([strobe : SUBSET Lanes, data : Word, last : BOOLEAN])
    /\ rsp \in Response

\* The bridge and the memory count the same beats: WLAST comes with the last of
\* the beats announced on AW, whichever of the two channels is faster, and
\* RLAST with the last beat the master expects.
BeatsInStep ==
    /\ "R" \in in_issue /\ rd # None => count = rd.len - rd.beat - 1
    /\ "W" \in in_issue => Len(wq) = saved_req.len - count - 1 /\ ~AllAccepted
    /\ aw # None /\ "W" \notin in_issue => AllAccepted /\ Len(wq) = aw.len

\* The address saved for a channel that is still to be accepted is that of the
\* data the master shows.
SavedIsLive == in_issue \cap {"R", "W"} # {} => saved_req = [creq EXCEPT !.data = saved_req.data]

\* The memory as the master may take it to be: with the beats the bridge has
\* answered, though none of them may have arrived yet.
memBar ==
    LET burst == IF aw # None THEN aw ELSE saved_req
    IN  [a \in Addr |-> IF wq = <<>> THEN mem[a] ELSE Written(a, burst.addr, burst.len)]
beatBar == IF in_issue \cap {"R", "W"} # {} THEN saved_req.len - count - 1 ELSE 0
Promise == INSTANCE BusMemory WITH mem <- memBar, beat <- beatBar

\* Seen from the cache bus the bridge is a memory as CBusDevice is one, as
\* memory.h:87 asks: beats in order, and no read overtakes a write that was
\* answered before it arrived.
BridgeIsBusMemory == Promise!Spec

\* Every request is answered.
EveryRequestServed == creq.valid ~> rsp.last
=============================================================================
