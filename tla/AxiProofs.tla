----------------------------- MODULE AxiProofs ------------------------------
(* Machine-checked facts about AxiSystem, for every value of its constants. *)
EXTENDS AxiSystem, TLAPS

-----------------------------------------------------------------------------
(***************************************************************************)
(* The inductive invariant: what each channel that has ended, or has not,  *)
(* says about the request saved, the memory and the count.                 *)
(***************************************************************************)
Issued ==
    in_issue # {} => /\ saved_req.valid
                     /\ saved_req.write = (in_issue \cap {"AR", "R"} = {})

ReadPhase ==
    /\ "AR" \in in_issue => "R" \in in_issue /\ rd = None /\ count = saved_req.len - 1
    /\ "R" \in in_issue /\ "AR" \notin in_issue =>
          /\ rd # None
          /\ rd.addr = saved_req.addr /\ rd.len = saved_req.len
          /\ count = rd.len - rd.beat - 1
    /\ "R" \notin in_issue => rd = None

WritePhase ==
    /\ "AW" \in in_issue \/ "W" \in in_issue => "B" \in in_issue
    /\ "AW" \in in_issue => aw = None
    /\ "B" \in in_issue /\ "AW" \notin in_issue =>
          aw # None /\ aw.addr = saved_req.addr /\ aw.len = saved_req.len
    /\ "W" \in in_issue => Len(wq) = saved_req.len - count - 1 /\ ~AllAccepted
    /\ "B" \in in_issue /\ "W" \notin in_issue => Len(wq) = saved_req.len /\ AllAccepted
    /\ "B" \notin in_issue => aw = None /\ wq = <<>>

AxiInv == TypeOK /\ Issued /\ ReadPhase /\ WritePhase /\ SavedIsLive
-----------------------------------------------------------------------------
(* The operators.                                                          *)

WriteBeat == [strobe : SUBSET Lanes, data : Word, last : BOOLEAN]

\* The word of zero bytes is a word, and a line has a first word.
LEMMA Zeros == ZeroWord \in Word /\ 0 \in Offsets /\ LineWords \in Nat /\ LineWords > 1
BY ByteAssumption, BusAssumption DEF ZeroWord, Word, Offsets

\* The fields of a request that is being made.
LEMMA RequestFields ==
    ASSUME NEW req \in BusRequest \cup {Silent}, req.valid
    PROVE  /\ req \in BusRequest
           /\ req.write \in BOOLEAN /\ req.addr \in Addr /\ req.len \in {1, LineWords}
           /\ req.strobe \in SUBSET Lanes /\ req.data \in Word
<1>1. req # Silent  BY DEF Silent
<1> QED  BY <1>1 DEF BusRequest

\* The fields of what the memory does in a cycle.
LEMMA OfferFields ==
    ASSUME NEW s \in Offers
    PROVE  /\ s.go \subseteq in_issue
           /\ s.rlast \in BOOLEAN /\ s.rdata \in Word
           /\ "AR" \in s.go => rd = None
           /\ "R" \in s.go => rd # None /\ s.rlast = (rd.beat + 1 = rd.len)
           /\ "AW" \in s.go => aw = None
           /\ "W" \in s.go => ~AllAccepted
           /\ "B" \in s.go => aw # None /\ AllAccepted
           /\ handshake(s) = s.go
BY DEF Offers, handshake

\* A burst the memory serves is one that was announced.
LEMMA Announced ==
    ASSUME TypeOK
    PROVE  /\ rd # None => /\ rd \in [addr : Addr, len : {1, LineWords}, beat : Offsets]
                           /\ rd.len \in {1, LineWords} /\ rd.beat \in Offsets
           /\ aw # None => /\ aw \in [addr : Addr, len : {1, LineWords}]
                           /\ aw.len \in {1, LineWords}
BY DEF TypeOK

\* The wires of a master are a request or silent.
LEMMA FollowsTyped ==
    ASSUME NEW req \in BusRequest \cup {Silent}, NEW resp, NEW next \in Follows(req, resp)
    PROVE  next \in BusRequest \cup {Silent}
<1>1. CASE ~req.valid \/ resp.last
  BY <1>1, BusAssumption DEF Follows
<1>2. CASE req.valid /\ ~resp.last
  <2>1. req \in BusRequest  BY <1>2, RequestFields
  <2>2. \A w \in Word : [req EXCEPT !.data = w] \in BusRequest
    BY <2>1 DEF BusRequest
  <2> QED  BY <1>2, <2>1, <2>2 DEF Follows
<1> QED  BY <1>1, <1>2

\* Until its last beat a request changes its data only.
LEMMA FollowsHolds ==
    ASSUME NEW req \in BusRequest, NEW resp, ~resp.last, NEW next \in Follows(req, resp)
    PROVE  /\ next.valid
           /\ \A saved \in BusRequest :
                saved = [req EXCEPT !.data = saved.data]
                  => saved = [next EXCEPT !.data = saved.data]
<1>1. req.valid  BY DEF BusRequest
<1>2. next = req \/ \E w \in Word : next = [req EXCEPT !.data = w]
  BY <1>1 DEF Follows
<1>3. ASSUME NEW w \in Word, next = [req EXCEPT !.data = w], NEW saved \in BusRequest,
             saved = [req EXCEPT !.data = saved.data]
      PROVE  saved = [next EXCEPT !.data = saved.data]
  BY <1>3 DEF BusRequest
<1>4. \A w \in Word : [req EXCEPT !.data = w].valid
  BY <1>1 DEF BusRequest
<1> QED  BY <1>1, <1>2, <1>3, <1>4

\* What the master latches is a response.
LEMMA LatchedTyped ==
    ASSUME NEW req, NEW s \in Offers PROVE Latched(req, cresp(s)) \in Response
<1>1. cresp(s) \in Response
  BY OfferFields DEF cresp, Response
<1>2. NoResponse \in Response  BY Zeros DEF NoResponse, Response
<1>3. \A w \in Word : [cresp(s) EXCEPT !.data = w] \in Response
  BY <1>1 DEF Response
<1>4. cresp(s).data \in Word  BY <1>1 DEF Response
<1> QED  BY <1>1, <1>2, <1>3, <1>4, Zeros DEF Latched
-----------------------------------------------------------------------------
(* One cycle, by what the bridge is doing.                                 *)

\* The counter goes down by one.
LEMMA CountDown ==
    ASSUME NEW n \in Offsets, n # 0
    PROVE  (n + CountValues - 1) % CountValues = n - 1 /\ n - 1 \in Offsets
<1>1. n \in 1 .. 255  BY LengthAssumption, Zeros DEF Offsets, CountValues
<1>2. (n + 256 - 1) % 256 = n - 1  BY <1>1
<1> QED  BY <1>1, <1>2, Zeros DEF Offsets, CountValues

\* An idle bridge takes the request on the wires.
LEMMA IdleCycle ==
    ASSUME AxiInv, NEW s \in Offers, Cycle(s), in_issue = {}
    PROVE  AxiInv'
<1>1. handshake(s) = {}
  BY OfferFields DEF handshake
<1>2. rd = None /\ aw = None /\ wq = <<>>
  BY DEF AxiInv, ReadPhase, WritePhase
<1>3. rd' = None /\ aw' = None /\ wq' = <<>> /\ mem' = mem
  BY <1>1, <1>2 DEF Cycle, MemoryEdge
<1>4. /\ in_issue' = IF creq.valid THEN next_issue ELSE {}
      /\ saved_req' = creq
      /\ count' = IF creq.valid THEN creq.len - 1 ELSE 0
  BY DEF Cycle, BridgeEdge
<1>5. ~cresp(s).ready /\ ~cresp(s).last
  BY <1>1 DEF cresp
<1>6. creq' \in BusRequest \cup {Silent} /\ rsp' \in Response
  BY FollowsTyped, LatchedTyped DEF Cycle, AxiInv, TypeOK
<1>7. creq.valid => /\ creq \in BusRequest /\ creq.write \in BOOLEAN
                    /\ creq.len \in {1, LineWords} /\ creq' = creq
  BY <1>5, RequestFields DEF AxiInv, TypeOK, Cycle, Follows
<1>8. count' \in Offsets
  BY <1>4, <1>7, Zeros DEF Offsets
<1>9. TypeOK'
  <2>1. in_issue' \in (SUBSET {"AR", "R"}) \cup (SUBSET {"AW", "W", "B"})
    <3>1. in_issue' \in {{}, {"AR", "R"}, {"AW", "W", "B"}}
      BY <1>4 DEF next_issue
    <3> QED  BY <3>1
  <2>2. saved_req' \in BusRequest \cup {Silent}
    BY <1>4 DEF AxiInv, TypeOK
  <2>3. mem' \in [Addr -> Word]
    BY <1>3 DEF AxiInv, TypeOK
  <2>4. wq' \in Seq([strobe : SUBSET Lanes, data : Word, last : BOOLEAN])
    BY <1>3
  <2> QED
    BY <1>3, <1>6, <1>8, <2>1, <2>2, <2>3, <2>4 DEF TypeOK
<1>10. Issued' /\ ReadPhase'
  BY <1>3, <1>4, <1>7 DEF Issued, ReadPhase, next_issue
<1>11. WritePhase'
  <2>1. Len(<<>>) = 0  OBVIOUS
  <2>2. creq.valid => count' = creq.len - 1 /\ creq.len - (creq.len - 1) - 1 = 0
    BY <1>4, <1>7, Zeros
  <2> QED
    BY <1>3, <1>4, <1>7, <2>1, <2>2 DEF WritePhase, next_issue, AllAccepted
<1>12. SavedIsLive'
  <2>1. creq.valid => creq = [creq EXCEPT !.data = creq.data]
    BY <1>7 DEF BusRequest
  <2> QED  BY <1>4, <1>7, <2>1 DEF SavedIsLive
<1> QED
  BY <1>9, <1>10, <1>11, <1>12 DEF AxiInv

\* What a cycle does to the wires while a transaction is under way: they hold
\* while the data of the transaction last.
LEMMA BusyWires ==
    ASSUME AxiInv, NEW s \in Offers, Cycle(s), in_issue # {}
    PROVE  /\ creq' \in BusRequest \cup {Silent} /\ rsp' \in Response
           /\ saved_req' = saved_req /\ saved_req \in BusRequest
           /\ saved_req.len \in {1, LineWords} /\ saved_req.addr \in Addr
           /\ saved_req.write \in BOOLEAN
           /\ in_issue' = in_issue \ ended(s)
           /\ in_issue \cap {"R", "W"} # {} /\ ~cresp(s).last =>
                saved_req = [creq' EXCEPT !.data = saved_req.data]
<1>1. creq' \in BusRequest \cup {Silent} /\ rsp' \in Response
  BY FollowsTyped, LatchedTyped DEF Cycle, AxiInv, TypeOK
<1>2. saved_req' = saved_req /\ in_issue' = in_issue \ ended(s)
  BY DEF Cycle, BridgeEdge
<1>3. saved_req \in BusRequest /\ saved_req.len \in {1, LineWords} /\ saved_req.addr \in Addr
      /\ saved_req.write \in BOOLEAN
  BY RequestFields DEF AxiInv, TypeOK, Issued
<1>4. ASSUME in_issue \cap {"R", "W"} # {}, ~cresp(s).last
      PROVE  saved_req = [creq' EXCEPT !.data = saved_req.data]
  <2>1. saved_req = [creq EXCEPT !.data = saved_req.data]
    BY <1>4 DEF AxiInv, SavedIsLive
  <2>2. creq \in BusRequest
    <3>1. saved_req.len # 0  BY <1>3, Zeros
    <3>2. [Silent EXCEPT !.data = saved_req.data] = Silent
      BY DEF Silent
    <3>3. saved_req.valid = TRUE  BY <1>3 DEF BusRequest
    <3> QED  BY <2>1, <3>2, <3>3 DEF AxiInv, TypeOK, Silent
  <2> QED
    BY <1>3, <1>4, <2>1, <2>2, FollowsHolds DEF Cycle
<1> QED
  BY <1>1, <1>2, <1>3, <1>4

\* A read: the beats the memory has sent and those the bridge expects.
LEMMA ReadCycle ==
    ASSUME AxiInv, NEW s \in Offers, Cycle(s), "R" \in in_issue
    PROVE  AxiInv'
<1> DEFINE h == handshake(s)
<1>1. /\ in_issue \subseteq {"AR", "R"} /\ h \subseteq in_issue /\ h = s.go
      /\ saved_req.write = FALSE
  <2>1. in_issue \subseteq {"AR", "R"}  BY DEF AxiInv, TypeOK
  <2>2. saved_req.write = FALSE
    BY RequestFields DEF AxiInv, TypeOK, Issued
  <2> QED  BY <2>1, <2>2, OfferFields
<1>2. aw = None /\ wq = <<>>
  BY <1>1 DEF AxiInv, WritePhase
<1>3. aw' = None /\ wq' = <<>> /\ mem' = mem
  BY <1>1, <1>2 DEF Cycle, MemoryEdge
<1>4. /\ creq' \in BusRequest \cup {Silent} /\ rsp' \in Response
      /\ saved_req' = saved_req /\ saved_req \in BusRequest
      /\ saved_req.len \in {1, LineWords} /\ saved_req.addr \in Addr
      /\ in_issue' = in_issue \ ended(s)
      /\ ~cresp(s).last => saved_req = [creq' EXCEPT !.data = saved_req.data]
  BY BusyWires
<1>5. /\ count' = IF cresp(s).ready /\ ~cresp(s).last
                    THEN (count + CountValues - 1) % CountValues ELSE count
      /\ rd' = CASE "AR" \in h -> [addr |-> saved_req.addr, len |-> saved_req.len, beat |-> 0]
                 [] "R" \in h  -> IF s.rlast THEN None ELSE [rd EXCEPT !.beat = @ + 1]
                 [] OTHER      -> rd
  BY DEF Cycle, BridgeEdge, MemoryEdge
<1>6. /\ cresp(s).ready = ("R" \in h)
      /\ cresp(s).last = ("R" \in h /\ s.rlast /\ count = 0)
      /\ ended(s) = {c \in h : c = "R" => s.rlast}
  BY <1>1 DEF cresp, is_last, ended
<1>7. count \in Offsets /\ rd \in {None} \cup [addr : Addr, len : {1, LineWords}, beat : Offsets]
  BY DEF AxiInv, TypeOK
<1>8. /\ in_issue' \subseteq {"AR", "R"} /\ "W" \notin in_issue' /\ "AW" \notin in_issue'
      /\ "B" \notin in_issue'
  BY <1>1, <1>4
<1>9. WritePhase'
  BY <1>3, <1>8 DEF WritePhase
<1>10. Issued'
  BY <1>1, <1>4, <1>6, <1>8 DEF Issued, AxiInv
<1>11. ReadPhase' /\ SavedIsLive' /\ count' \in Offsets
       /\ rd' \in {None} \cup [addr : Addr, len : {1, LineWords}, beat : Offsets]
  <2>1. CASE "AR" \in h
    <3>1. rd = None /\ "R" \notin h /\ "AR" \in in_issue
      BY <2>1, <1>1, OfferFields
    <3>2. count = saved_req.len - 1
      BY <3>1 DEF AxiInv, ReadPhase
    <3>3. in_issue' = {"R"} /\ count' = count
      BY <2>1, <3>1, <1>1, <1>4, <1>5, <1>6
    <3>4. rd' = [addr |-> saved_req.addr, len |-> saved_req.len, beat |-> 0]
      BY <2>1, <3>1, <1>5
    <3>5. rd' # None /\ rd'.addr = saved_req.addr /\ rd'.len = saved_req.len /\ rd'.beat = 0
          /\ rd' \in [addr : Addr, len : {1, LineWords}, beat : Offsets]
      BY <3>4, <1>4, Zeros DEF None
    <3>6. ReadPhase'
      BY <3>2, <3>3, <3>5, <1>4, Zeros DEF ReadPhase
    <3>7. SavedIsLive'
      BY <3>1, <1>4, <1>6 DEF SavedIsLive
    <3> QED  BY <3>3, <3>5, <3>6, <3>7, <1>7
  <2>2. CASE "R" \in h
    <3>1. /\ rd # None /\ s.rlast = (rd.beat + 1 = rd.len)
          /\ rd \in [addr : Addr, len : {1, LineWords}, beat : Offsets]
          /\ rd.len \in {1, LineWords} /\ rd.beat \in Offsets
      BY <2>2, <1>1, OfferFields, Announced DEF AxiInv
    <3>2. /\ "AR" \notin in_issue /\ rd.addr = saved_req.addr /\ rd.len = saved_req.len
          /\ count = rd.len - rd.beat - 1
      BY <3>1 DEF AxiInv, ReadPhase
    <3>3. in_issue = {"R"} /\ "AR" \notin h
      BY <3>2, <1>1
    <3>4. s.rlast = (count = 0)
      BY <3>1, <3>2, Zeros DEF Offsets
    <3>5. CASE s.rlast
      <4>1. in_issue' = {}  BY <3>3, <3>5, <2>2, <1>4, <1>6
      <4>2. rd' = None /\ count' = count
        BY <3>3, <3>4, <3>5, <2>2, <1>5, <1>6
      <4> QED  BY <4>1, <4>2, <1>7 DEF ReadPhase, SavedIsLive
    <3>6. CASE ~s.rlast
      <4>1. in_issue' = {"R"}  BY <3>3, <3>6, <1>4, <1>6
      <4>2. count' = count - 1 /\ count - 1 \in Offsets
        BY <3>4, <3>6, <2>2, <1>5, <1>6, <1>7, CountDown
      <4>3. rd' = [rd EXCEPT !.beat = @ + 1]
        BY <3>3, <3>6, <2>2, <1>5
      <4>4. rd.beat + 1 \in Offsets
        BY <3>1, <3>2, <4>2, <1>7, Zeros DEF Offsets
      <4>5. rd'.addr = rd.addr /\ rd'.len = rd.len /\ rd'.beat = rd.beat + 1
            /\ rd' \in [addr : Addr, len : {1, LineWords}, beat : Offsets]
        BY <4>3, <4>4, <3>1
      <4>6. rd' # None
        <5>1. rd'.len # 0  BY <4>5, <3>1, Zeros
        <5> QED  BY <5>1 DEF None
      <4>7. ReadPhase'
        <5>1. count - 1 = rd.len - (rd.beat + 1) - 1
          BY <3>1, <3>2, Zeros DEF Offsets
        <5> QED  BY <4>1, <4>2, <4>5, <4>6, <5>1, <3>2, <1>4 DEF ReadPhase
      <4>8. SavedIsLive'
        BY <3>6, <1>4, <1>6 DEF SavedIsLive
      <4> QED  BY <4>2, <4>5, <4>7, <4>8
    <3> QED  BY <3>5, <3>6
  <2>3. CASE "AR" \notin h /\ "R" \notin h
    <3>1. h = {}  BY <2>3, <1>1
    <3>2. in_issue' = in_issue /\ count' = count /\ rd' = rd
      BY <3>1, <1>4, <1>5, <1>6
    <3> QED
      BY <3>1, <3>2, <1>4, <1>6, <1>7 DEF AxiInv, ReadPhase, SavedIsLive
  <2> QED  BY <2>1, <2>2, <2>3
<1>12. TypeOK'
  <2>1. mem' \in [Addr -> Word]  BY <1>3 DEF AxiInv, TypeOK
  <2>2. wq' \in Seq([strobe : SUBSET Lanes, data : Word, last : BOOLEAN])
    BY <1>3
  <2>3. in_issue' \in (SUBSET {"AR", "R"}) \cup (SUBSET {"AW", "W", "B"})
    BY <1>8
  <2> QED  BY <1>3, <1>4, <1>11, <2>1, <2>2, <2>3 DEF TypeOK
<1> QED  BY <1>9, <1>10, <1>11, <1>12 DEF AxiInv

\* A write word that has arrived is a word.
LEMMA WrittenIsWord ==
    ASSUME TypeOK, NEW a \in Addr, NEW first, NEW len
    PROVE  Written(a, first, len) \in Word
<1> DEFINE hits == {k \in 1 .. Len(wq) : Wrapped(first, len, k - 1) = a}
           i == CHOOSE k \in hits : TRUE
<1>1. mem[a] \in Word  BY DEF TypeOK
<1>2. ASSUME hits # {} PROVE Merge(mem[a], wq[i].strobe, wq[i].data) \in Word
  <2>1. i \in hits  BY <1>2
  <2>2. i \in 1 .. Len(wq)  BY <2>1
  <2>3. wq \in Seq(WriteBeat)  BY DEF TypeOK, WriteBeat
  <2>4. wq[i] \in WriteBeat  BY <2>2, <2>3
  <2>5. wq[i].data \in Word  BY <2>4 DEF WriteBeat
  <2> HIDE DEF i
  <2> QED  BY <1>1, <2>5 DEF Merge, Word
<1>3. Written(a, first, len) = IF hits = {} THEN mem[a]
                               ELSE Merge(mem[a], wq[i].strobe, wq[i].data)
  BY DEF Written
<1> QED  BY <1>1, <1>2, <1>3

\* A write: the addresses and the beats the memory has accepted.
LEMMA WriteCycle ==
    ASSUME AxiInv, NEW s \in Offers, Cycle(s), "B" \in in_issue
    PROVE  AxiInv'
<1> DEFINE h == handshake(s)
<1>1. /\ in_issue \subseteq {"AW", "W", "B"} /\ h \subseteq in_issue /\ h = s.go
      /\ "R" \notin in_issue /\ "AR" \notin in_issue
  <2>1. in_issue \subseteq {"AW", "W", "B"}  BY DEF AxiInv, TypeOK
  <2> QED  BY <2>1, OfferFields
<1>2. rd = None
  BY <1>1 DEF AxiInv, ReadPhase
<1>3. /\ creq' \in BusRequest \cup {Silent} /\ rsp' \in Response
      /\ saved_req' = saved_req /\ saved_req \in BusRequest
      /\ saved_req.len \in {1, LineWords} /\ saved_req.addr \in Addr
      /\ in_issue' = in_issue \ ended(s)
      /\ "W" \in in_issue /\ ~cresp(s).last =>
           saved_req = [creq' EXCEPT !.data = saved_req.data]
  BY BusyWires
<1>4. /\ count' = IF cresp(s).ready /\ ~cresp(s).last
                    THEN (count + CountValues - 1) % CountValues ELSE count
      /\ rd' = CASE "AR" \in h -> [addr |-> saved_req.addr, len |-> saved_req.len, beat |-> 0]
                 [] "R" \in h  -> IF s.rlast THEN None ELSE [rd EXCEPT !.beat = @ + 1]
                 [] OTHER      -> rd
      /\ aw' = CASE "AW" \in h -> [addr |-> saved_req.addr, len |-> saved_req.len]
                 [] "B" \in h  -> None
                 [] OTHER      -> aw
      /\ wq' = CASE "W" \in h  -> Append(wq, [strobe |-> creq.strobe, data |-> creq.data,
                                              last |-> is_last])
                 [] "B" \in h  -> <<>>
                 [] OTHER      -> wq
      /\ mem' = IF "B" \in h THEN [a \in Addr |-> Written(a, aw.addr, aw.len)] ELSE mem
  BY DEF Cycle, BridgeEdge, MemoryEdge
<1>5. /\ cresp(s).ready = ("W" \in h)
      /\ cresp(s).last = ("W" \in h /\ count = 0)
      /\ ended(s) = {c \in h : c = "W" => count = 0}
  BY <1>1 DEF cresp, is_last, ended
<1>6. /\ count \in Offsets /\ mem \in [Addr -> Word]
      /\ aw \in {None} \cup [addr : Addr, len : {1, LineWords}]
      /\ wq \in Seq(WriteBeat)
  BY DEF AxiInv, TypeOK, WriteBeat
<1>7. rd' = None
  <2>1. "AR" \notin h /\ "R" \notin h  BY <1>1
  <2> QED  BY <2>1, <1>2, <1>4
<1>8. in_issue' \subseteq {"AW", "W", "B"}
  BY <1>1, <1>3
<1>9. Issued' /\ ReadPhase'
  <2>1. saved_req.valid /\ saved_req.write = TRUE
    <3>1. saved_req.write = (in_issue \cap {"AR", "R"} = {}) /\ saved_req.valid
      BY DEF AxiInv, Issued
    <3>2. in_issue \cap {"AR", "R"} = {}  BY <1>1
    <3> QED  BY <3>1, <3>2
  <2>2. in_issue' \cap {"AR", "R"} = {} /\ "AR" \notin in_issue' /\ "R" \notin in_issue'
    BY <1>8
  <2> QED  BY <2>1, <2>2, <1>3, <1>7 DEF Issued, ReadPhase
<1>10. mem' \in [Addr -> Word]
  <2>1. \A a \in Addr : Written(a, aw.addr, aw.len) \in Word
    BY WrittenIsWord DEF AxiInv
  <2> QED  BY <2>1, <1>4, <1>6
<1>11. "B" \in h => "AW" \notin in_issue /\ "W" \notin in_issue
  BY <1>1, OfferFields DEF AxiInv, WritePhase
<1>12. SavedIsLive'
  <2>1. CASE "W" \in in_issue'
    <3>1. "W" \in in_issue /\ ~cresp(s).last  BY <2>1, <1>1, <1>3, <1>5
    <3> QED  BY <3>1, <1>3 DEF SavedIsLive
  <2>2. CASE "W" \notin in_issue'
    <3>1. in_issue' \cap {"R", "W"} = {}  BY <2>2, <1>8
    <3> QED  BY <3>1 DEF SavedIsLive
  <2> QED  BY <2>1, <2>2
<1>13. WritePhase' /\ count' \in Offsets
       /\ aw' \in {None} \cup [addr : Addr, len : {1, LineWords}] /\ wq' \in Seq(WriteBeat)
  <2>1. CASE "B" \in h
    <3>1. in_issue = {"B"} /\ h = {"B"}  BY <2>1, <1>1, <1>11
    <3>2. in_issue' = {}  BY <3>1, <1>3, <1>5
    <3>3. aw' = None /\ wq' = <<>> /\ count' = count
      BY <3>1, <1>4, <1>5
    <3>4. <<>> \in Seq(WriteBeat)  OBVIOUS
    <3> QED  BY <3>2, <3>3, <3>4, <1>6 DEF WritePhase
  <2>2. CASE "B" \notin h
    <3>1. "B" \in in_issue'  BY <2>2, <1>3, <1>5
    <3>2. /\ "AW" \in in_issue' => aw' = None
          /\ "AW" \notin in_issue' =>
                aw' # None /\ aw'.addr = saved_req.addr /\ aw'.len = saved_req.len
          /\ aw' \in {None} \cup [addr : Addr, len : {1, LineWords}]
      <4>1. CASE "AW" \in h
        <5>1. aw' = [addr |-> saved_req.addr, len |-> saved_req.len]
          BY <4>1, <2>2, <1>4
        <5>2. "AW" \notin in_issue'  BY <4>1, <1>3, <1>5
        <5>3. aw' # None  BY <5>1 DEF None
        <5> QED  BY <5>1, <5>2, <5>3, <1>3
      <4>2. CASE "AW" \notin h
        <5>1. aw' = aw  BY <4>2, <2>2, <1>4
        <5>2. "AW" \in in_issue' <=> "AW" \in in_issue  BY <4>2, <1>3, <1>5
        <5> QED  BY <5>1, <5>2, <1>6 DEF AxiInv, WritePhase
      <4> QED  BY <4>1, <4>2
    <3>3. /\ "W" \in in_issue' => Len(wq') = saved_req.len - count' - 1 /\ ~AllAccepted'
          /\ "W" \notin in_issue' => Len(wq') = saved_req.len /\ AllAccepted'
          /\ count' \in Offsets /\ wq' \in Seq(WriteBeat)
      <4>1. CASE "W" \in h
        <5> DEFINE beat == [strobe |-> creq.strobe, data |-> creq.data, last |-> is_last]
        <5>1. "W" \in in_issue /\ Len(wq) = saved_req.len - count - 1
          BY <4>1, <1>1 DEF AxiInv, WritePhase
        <5>2. wq' = Append(wq, beat)
          BY <4>1, <2>2, <1>4
        <5>3. beat \in WriteBeat
          <6>1. saved_req = [creq EXCEPT !.data = saved_req.data]
            BY <5>1 DEF AxiInv, SavedIsLive
          <6>2. creq \in BusRequest
            <7>1. [Silent EXCEPT !.data = saved_req.data] = Silent  BY DEF Silent
            <7>2. saved_req.valid = TRUE  BY <1>3 DEF BusRequest
            <7> QED  BY <6>1, <7>1, <7>2 DEF AxiInv, TypeOK, Silent
          <6>3. is_last \in BOOLEAN  BY DEF is_last
          <6>4. creq.strobe \in SUBSET Lanes /\ creq.data \in Word  BY <6>2 DEF BusRequest
          <6> QED  BY <6>3, <6>4 DEF WriteBeat
        <5> HIDE DEF beat
        <5>4. /\ wq' \in Seq(WriteBeat) /\ wq' # <<>>
              /\ Len(wq') = Len(wq) + 1 /\ wq'[Len(wq')] = beat
          BY <5>2, <5>3, <1>6
        <5>5. beat.last = (count = 0)  BY DEF beat, is_last
        <5>6. AllAccepted' = (count = 0)
          BY <5>4, <5>5 DEF AllAccepted
        <5>7. CASE count = 0
          <6>1. "W" \notin in_issue' /\ count' = count
            BY <5>7, <4>1, <1>3, <1>4, <1>5
          <6>2. Len(wq') = saved_req.len
            BY <5>1, <5>4, <5>7, <1>3, Zeros
          <6> QED  BY <6>1, <6>2, <5>4, <5>6, <5>7, <1>6
        <5>8. CASE count # 0
          <6>1. "W" \in in_issue'  BY <5>1, <5>8, <1>3, <1>5
          <6>2. count' = count - 1 /\ count - 1 \in Offsets
            BY <5>8, <4>1, <1>4, <1>5, <1>6, CountDown
          <6>3. Len(wq') = saved_req.len - (count - 1) - 1
            BY <5>1, <5>4, <1>3, <1>6, Zeros DEF Offsets
          <6> QED  BY <6>1, <6>2, <6>3, <5>4, <5>6, <5>8
        <5> QED  BY <5>7, <5>8
      <4>2. CASE "W" \notin h
        <5>1. wq' = wq /\ count' = count  BY <4>2, <2>2, <1>4, <1>5
        <5>2. "W" \in in_issue' <=> "W" \in in_issue  BY <4>2, <1>3, <1>5
        <5>3. AllAccepted' = AllAccepted  BY <5>1 DEF AllAccepted
        <5> QED  BY <5>1, <5>2, <5>3, <1>6 DEF AxiInv, WritePhase
      <4> QED  BY <4>1, <4>2
    <3> QED  BY <3>1, <3>2, <3>3, <1>3 DEF WritePhase
  <2> QED  BY <2>1, <2>2
<1>14. TypeOK'
  <2>1. in_issue' \in (SUBSET {"AR", "R"}) \cup (SUBSET {"AW", "W", "B"})
    BY <1>8
  <2>2. wq' \in Seq([strobe : SUBSET Lanes, data : Word, last : BOOLEAN])
    BY <1>13 DEF WriteBeat
  <2> QED  BY <1>3, <1>7, <1>10, <1>13, <2>1, <2>2 DEF TypeOK
<1> QED  BY <1>9, <1>12, <1>13, <1>14 DEF AxiInv
-----------------------------------------------------------------------------
(* The invariant holds, and with it the properties the runs check.         *)

\* It holds before the first cycle.
LEMMA InitHolds == Init => AxiInv
<1> SUFFICES ASSUME Init PROVE AxiInv
  OBVIOUS
<1>1. in_issue = {} /\ rd = None /\ aw = None /\ wq = <<>>
  BY DEF Init, BridgeInit
<1>2. NoResponse \in Response  BY Zeros DEF NoResponse, Response
<1>3. mem \in [Addr -> Word]  BY Zeros DEF Init
<1>4. wq \in Seq([strobe : SUBSET Lanes, data : Word, last : BOOLEAN])
  BY <1>1
<1>5. TypeOK
  BY <1>1, <1>2, <1>3, <1>4, Zeros DEF Init, BridgeInit, TypeOK
<1>6. Issued /\ ReadPhase /\ WritePhase /\ SavedIsLive
  BY <1>1 DEF Issued, ReadPhase, WritePhase, SavedIsLive
<1> QED  BY <1>5, <1>6 DEF AxiInv

\* The bridge is idle, or in a read, or in a write.
LEMMA AnyPhase ==
    ASSUME AxiInv PROVE in_issue = {} \/ "R" \in in_issue \/ "B" \in in_issue
<1>1. in_issue \subseteq {"AR", "R"} \/ in_issue \subseteq {"AW", "W", "B"}
  BY DEF AxiInv, TypeOK
<1>2. "AR" \in in_issue => "R" \in in_issue  BY DEF AxiInv, ReadPhase
<1>3. "AW" \in in_issue \/ "W" \in in_issue => "B" \in in_issue
  BY DEF AxiInv, WritePhase
<1> QED  BY <1>1, <1>2, <1>3

\* Every cycle keeps it.
LEMMA StepHolds == AxiInv /\ [Next]_vars => AxiInv'
<1> SUFFICES ASSUME AxiInv, [Next]_vars PROVE AxiInv'
  OBVIOUS
<1>1. CASE Next
  <2>1. PICK s \in Offers : Cycle(s)  BY <1>1 DEF Next
  <2>2. CASE in_issue = {}  BY <2>1, <2>2, IdleCycle
  <2>3. CASE "R" \in in_issue  BY <2>1, <2>3, ReadCycle
  <2>4. CASE "B" \in in_issue  BY <2>1, <2>4, WriteCycle
  <2> QED  BY <2>2, <2>3, <2>4, AnyPhase
<1>2. CASE UNCHANGED vars
  BY <1>2 DEF vars, AxiInv, TypeOK, Issued, ReadPhase, WritePhase, SavedIsLive, AllAccepted
<1> QED  BY <1>1, <1>2 DEF Next

\* The parts above hold together in every reachable state.
THEOREM InvariantHolds == Spec => []AxiInv
BY InitHolds, StepHolds, PTL DEF Spec

\* The wires, the saved request, the count and what the memory has accepted
\* stay in their types: the eight bit counter never wraps.
THEOREM TypeCorrect == Spec => []TypeOK
<1>1. AxiInv => TypeOK  BY DEF AxiInv
<1> QED  BY <1>1, InvariantHolds, PTL

\* The count of the bridge is in step with the beats of the memory on channels
\* R and W, however AW and W overtake each other: WLAST and RLAST come with the
\* last beat announced.
THEOREM BeatsStayInStep == Spec => []BeatsInStep
<1>1. AxiInv => BeatsInStep
  <2> SUFFICES ASSUME AxiInv PROVE BeatsInStep
    OBVIOUS
  <2>1. "R" \in in_issue /\ rd # None => count = rd.len - rd.beat - 1
    BY DEF AxiInv, ReadPhase
  <2>2. "W" \in in_issue => Len(wq) = saved_req.len - count - 1 /\ ~AllAccepted
    BY DEF AxiInv, WritePhase
  <2>3. aw # None /\ "W" \notin in_issue => AllAccepted /\ Len(wq) = aw.len
    BY DEF AxiInv, WritePhase
  <2> QED  BY <2>1, <2>2, <2>3 DEF BeatsInStep
<1> QED  BY <1>1, InvariantHolds, PTL

\* While data are still to be accepted, the request saved for the address
\* channels is the one the master shows.
THEOREM SavedStaysLive == Spec => []SavedIsLive
<1>1. AxiInv => SavedIsLive  BY DEF AxiInv
<1> QED  BY <1>1, InvariantHolds, PTL
-----------------------------------------------------------------------------
(* The bridge and its memory implement BusMemory.                          *)

\* Counting inside a window.
LEMMA Modulo ==
    ASSUME NEW n \in Nat \ {0}, NEW x \in Nat
    PROVE  x < n => x % n = x /\ x \div n = 0
OBVIOUS

LEMMA ModuloWraps ==
    ASSUME NEW n \in Nat \ {0}, NEW x \in Nat, n <= x, x < n + n
    PROVE  x % n = x - n
OBVIOUS

\* No two beats of a burst fall on one address.
LEMMA BeatsApart ==
    ASSUME NEW a \in Addr, NEW len \in {1, LineWords},
           NEW j \in 0 .. len - 1, NEW k \in 0 .. len - 1
    PROVE  /\ Wrapped(a, len, k) \in Addr
           /\ Wrapped(a, len, j) = Wrapped(a, len, k) => j = k
<1>0. /\ LineWords \in Nat /\ LineWords > 1
      /\ a.word \in 0 .. LineWords - 1 /\ a = [line |-> a.line, word |-> a.word]
      /\ a.line \in Lines
  BY BusAssumption DEF Addr, Offsets
<1>1. CASE len = 1
  <2>1. j = 0 /\ k = 0  BY <1>1
  <2>2. (a.word \div 1) * 1 = a.word /\ (a.word - a.word + 0) % 1 = 0  BY <1>0
  <2>3. Wrapped(a, len, 0) = a  BY <1>0, <1>1, <2>2 DEF Wrapped
  <2>4. Wrapped(a, len, k) \in Addr  BY <2>1, <2>3
  <2> QED  BY <2>1, <2>4
<1>2. CASE len = LineWords
  <2>1. a.word \div len = 0
    BY <1>0, <1>2, Modulo
  <2>2. (a.word \div len) * len = 0  BY <1>0, <1>2, <2>1
  <2>3. ASSUME NEW i \in 0 .. len - 1
        PROVE  /\ Wrapped(a, len, i) = [line |-> a.line, word |-> (a.word + i) % len]
               /\ (a.word + i) % len \in 0 .. LineWords - 1
               /\ (a.word + i) % len = IF a.word + i < len THEN a.word + i
                                       ELSE (a.word + i) - len
    <3>1. /\ len \in Nat \ {0} /\ a.word + i \in Nat /\ a.word + i < len + len
      BY <1>0, <1>2
    <3>2. (a.word + i) % len \in 0 .. len - 1  BY <3>1
    <3>3. 0 + ((a.word - 0 + i) % len) = (a.word + i) % len
      <4>1. a.word - 0 + i = a.word + i  BY <1>0
      <4> QED  BY <3>2, <4>1
    <3>4. Wrapped(a, len, i) = [a EXCEPT !.word = 0 + ((@ - 0 + i) % len)]
      BY <2>2 DEF Wrapped
    <3>5. Wrapped(a, len, i) = [line |-> a.line, word |-> (a.word + i) % len]
      BY <1>0, <3>3, <3>4
    <3>6. CASE a.word + i < len
      <4>1. (a.word + i) % len = a.word + i  BY <3>1, <3>6, Modulo
      <4> QED  BY <1>2, <3>2, <3>5, <3>6, <4>1
    <3>7. CASE ~(a.word + i < len)
      <4> DEFINE x == a.word + i
      <4>1. x \in Nat /\ len <= x /\ x < len + len  BY <3>1, <3>7
      <4> HIDE DEF x
      <4>2. x % len = x - len  BY <3>1, <4>1, ModuloWraps
      <4>3. (a.word + i) % len = (a.word + i) - len  BY <4>2 DEF x
      <4>4. (a.word + i) % len \in 0 .. LineWords - 1  BY <1>2, <3>2
      <4> QED  BY <3>5, <3>7, <4>3, <4>4
    <3> QED  BY <3>6, <3>7
  <2> DEFINE at(i) == (a.word + i) % len
  <2>4. at(j) = at(k) => j = k
    <3>1. at(j) = IF a.word + j < len THEN a.word + j ELSE (a.word + j) - len
      BY <2>3
    <3>2. at(k) = IF a.word + k < len THEN a.word + k ELSE (a.word + k) - len
      BY <2>3
    <3> HIDE DEF at
    <3> QED  BY <1>0, <1>2, <3>1, <3>2
  <2>5. Wrapped(a, len, j).word = at(j) /\ Wrapped(a, len, k).word = at(k)
    BY <2>3
  <2>6. Wrapped(a, len, k) \in Addr
    BY <1>0, <2>3 DEF Addr, Offsets
  <2> QED  BY <2>4, <2>5, <2>6
<1> QED  BY <1>1, <1>2

\* While data are to be accepted, the request of the master is the one saved.
LEMMA LiveRequest ==
    ASSUME AxiInv, in_issue \cap {"R", "W"} # {}
    PROVE  /\ creq \in BusRequest /\ creq.valid /\ creq.write \in BOOLEAN
           /\ creq.addr \in Addr /\ creq.len \in {1, LineWords}
           /\ creq.addr = saved_req.addr /\ creq.len = saved_req.len
           /\ creq.write = saved_req.write /\ saved_req.write = ("W" \in in_issue)
<1>1. saved_req \in BusRequest /\ saved_req.valid = TRUE
  <2>1. saved_req.valid  BY DEF AxiInv, Issued
  <2> QED  BY <2>1, RequestFields DEF AxiInv, TypeOK, BusRequest
<1>2. saved_req = [creq EXCEPT !.data = saved_req.data]
  BY DEF AxiInv, SavedIsLive
<1>3. creq \in BusRequest
  <2>1. [Silent EXCEPT !.data = saved_req.data] = Silent  BY DEF Silent
  <2> QED  BY <1>1, <1>2, <2>1 DEF AxiInv, TypeOK, Silent
<1>4. creq.addr = saved_req.addr /\ creq.len = saved_req.len /\ creq.write = saved_req.write
  BY <1>1, <1>2, <1>3 DEF BusRequest
<1>5. creq.valid  BY <1>3 DEF BusRequest
<1>6. saved_req.write = ("W" \in in_issue)
  <2>1. saved_req.write = (in_issue \cap {"AR", "R"} = {})  BY DEF AxiInv, Issued
  <2>2. in_issue \subseteq {"AR", "R"} \/ in_issue \subseteq {"AW", "W", "B"}
    BY DEF AxiInv, TypeOK
  <2> QED  BY <2>1, <2>2
<1> QED  BY <1>3, <1>4, <1>5, <1>6, RequestFields

\* The wires of the master follow the answer of the bridge: the two spellings.
LEMMA SameWires ==
    /\ Promise!NoResponse = NoResponse /\ Promise!ZeroWord = ZeroWord
    /\ Promise!Silent = Silent
    /\ \A req, resp : Promise!Follows(req, resp) = Follows(req, resp)
    /\ \A w, strobe, data : Promise!Merge(w, strobe, data) = Merge(w, strobe, data)
    /\ \A a, len, k : Promise!Wrapped(a, len, k) = Wrapped(a, len, k)
BY DEF Promise!NoResponse, NoResponse, Promise!ZeroWord, ZeroWord, Promise!Silent, Silent,
       Promise!Follows, Follows, Promise!Word, Word, Promise!Merge, Merge,
       Promise!Wrapped, Wrapped

\* A cycle without data: the bus passes if nothing is written and the beats
\* stand.
LEMMA PassMaps ==
    ASSUME NEW s \in Offers, Cycle(s), handshake(s) \cap {"R", "W"} = {},
           memBar' = memBar, beatBar' = beatBar
    PROVE  Promise!Pass
<1>1. ~cresp(s).ready /\ ~cresp(s).last  BY DEF cresp
<1>2. rsp' = NoResponse  BY <1>1 DEF Cycle, Latched
<1>3. creq' \in Follows(creq, NoResponse)
  BY <1>1 DEF Cycle, Follows, NoResponse
<1> QED  BY <1>2, <1>3, SameWires DEF Promise!Pass

\* An idle bridge takes up a request.
LEMMA IdleMaps ==
    ASSUME AxiInv, NEW s \in Offers, Cycle(s), in_issue = {}
    PROVE  Promise!Pass
<1>1. handshake(s) = {}  BY OfferFields
<1>2. wq = <<>> /\ aw = None  BY DEF AxiInv, WritePhase
<1>3. wq' = <<>> /\ mem' = mem  BY <1>1, <1>2 DEF Cycle, MemoryEdge
<1>4. memBar' = memBar
  BY <1>2, <1>3 DEF memBar
<1>5. beatBar = 0 /\ beatBar' = 0
  <2>1. beatBar = 0  BY DEF beatBar
  <2>2. CASE ~creq.valid
    <3>1. in_issue' = {}  BY <2>2 DEF Cycle, BridgeEdge
    <3> QED  BY <2>1, <3>1 DEF beatBar
  <2>3. CASE creq.valid
    <3>1. count' = creq.len - 1 /\ saved_req' = creq  BY <2>3 DEF Cycle, BridgeEdge
    <3>2. creq.len \in Nat  BY <2>3, RequestFields, Zeros DEF AxiInv, TypeOK
    <3>3. creq.len - (creq.len - 1) - 1 = 0  BY <3>2
    <3> QED  BY <2>1, <3>1, <3>3 DEF beatBar
  <2> QED  BY <2>1, <2>2, <2>3
<1> QED  BY <1>1, <1>4, <1>5, PassMaps

\* A read: each beat on channel R is served, from memory as it is.
LEMMA ReadMaps ==
    ASSUME AxiInv, NEW s \in Offers, Cycle(s), "R" \in in_issue
    PROVE  Promise!Serve \/ Promise!Pass
<1>1. /\ in_issue \subseteq {"AR", "R"} /\ handshake(s) \subseteq in_issue
      /\ handshake(s) = s.go
  BY OfferFields DEF AxiInv, TypeOK
<1>2. wq = <<>> /\ aw = None
  BY <1>1 DEF AxiInv, WritePhase
<1>3. wq' = <<>> /\ mem' = mem
  BY <1>1, <1>2 DEF Cycle, MemoryEdge
<1>4. memBar = mem /\ memBar' = memBar
  BY <1>2, <1>3 DEF memBar, AxiInv, TypeOK
<1>5. saved_req' = saved_req /\ in_issue' = in_issue \ ended(s)
  BY DEF Cycle, BridgeEdge
<1>6. CASE "R" \notin handshake(s)
  <2>1. handshake(s) \cap {"R", "W"} = {}  BY <1>1, <1>6
  <2>2. count' = count  BY <2>1 DEF Cycle, BridgeEdge, cresp
  <2>3. "R" \in in_issue'  BY <1>5, <1>6 DEF ended
  <2>4. beatBar' = beatBar  BY <1>5, <2>2, <2>3 DEF beatBar
  <2> QED  BY <1>4, <2>1, <2>4, PassMaps
<1>7. CASE "R" \in handshake(s)
  <2>1. /\ rd # None /\ s.rlast = (rd.beat + 1 = rd.len) /\ s.rlast \in BOOLEAN
        /\ rd.len \in {1, LineWords} /\ rd.beat \in Offsets
        /\ s.rdata = mem[Wrapped(rd.addr, rd.len, rd.beat)]
    BY <1>1, <1>7, OfferFields, Announced DEF Offers, AxiInv
  <2>2. "AR" \notin in_issue
    BY <2>1 DEF AxiInv, ReadPhase
  <2>3. /\ rd.addr = saved_req.addr /\ rd.len = saved_req.len
        /\ count = rd.len - rd.beat - 1
    BY <2>2 DEF AxiInv, ReadPhase
  <2>4. /\ creq.valid /\ creq.write = FALSE
        /\ creq.addr = saved_req.addr /\ creq.len = saved_req.len
    BY <1>1, LiveRequest
  <2>5. /\ beatBar = rd.beat /\ beatBar \in Nat
        /\ s.rlast = (count = 0) /\ s.rlast = (beatBar + 1 = creq.len)
    BY <2>1, <2>3, <2>4, Zeros DEF beatBar, Offsets
  <2>6. Promise!Here = Wrapped(rd.addr, rd.len, rd.beat)
    BY <2>3, <2>4, <2>5, SameWires DEF Promise!Here
  <2>7. cresp(s) = [ready |-> TRUE, last |-> s.rlast, data |-> s.rdata]
    BY <1>7, <2>1, <2>5 DEF cresp, is_last
  <2>8. Promise!Answer = cresp(s)
    BY <1>4, <2>1, <2>4, <2>5, <2>6, <2>7 DEF Promise!Answer
  <2>9. rsp' = cresp(s)
    <3>1. cresp(s).ready  BY <2>7
    <3>2. [cresp(s) EXCEPT !.data = cresp(s).data] = cresp(s)  BY <2>7
    <3>3. Latched(creq, cresp(s)) = [cresp(s) EXCEPT !.data = cresp(s).data]
      BY <2>4, <3>1 DEF Latched
    <3> QED  BY <3>2, <3>3 DEF Cycle
  <2>10. beatBar' = IF s.rlast THEN 0 ELSE beatBar + 1
    <3>1. CASE s.rlast
      <4>1. in_issue' = {}  BY <1>1, <1>5, <1>7, <2>2, <3>1 DEF ended
      <4> QED  BY <3>1, <4>1 DEF beatBar
    <3>2. CASE ~s.rlast
      <4>1. in_issue' = {"R"}  BY <1>1, <1>5, <1>7, <2>2, <3>2 DEF ended
      <4>2. count' = (count + CountValues - 1) % CountValues
        BY <2>7, <3>2 DEF Cycle, BridgeEdge
      <4>3. count' = count - 1
        BY <2>5, <3>2, <4>2, CountDown DEF AxiInv, TypeOK
      <4>4. saved_req.len - (count - 1) - 1 = rd.beat + 1
        BY <2>1, <2>3, Zeros DEF Offsets
      <4> QED  BY <1>5, <2>5, <3>2, <4>1, <4>3, <4>4 DEF beatBar
    <3> QED  BY <3>1, <3>2
  <2>11. creq' \in Promise!Follows(creq, Promise!Answer)
    BY <2>8, SameWires DEF Cycle
  <2>12. Promise!Answer.last = s.rlast  BY <2>7, <2>8
  <2> QED
    BY <1>4, <2>4, <2>8, <2>9, <2>10, <2>11, <2>12 DEF Promise!Serve
<1> QED  BY <1>6, <1>7

\* Memory m with the beats q of a burst.
Landed(m, q, first, len) ==
    [a \in Addr |->
        LET hits == {k \in 1 .. Len(q) : Wrapped(first, len, k - 1) = a}
            w == q[CHOOSE k \in hits : TRUE]
        IN  IF hits = {} THEN m[a] ELSE Merge(m[a], w.strobe, w.data)]

\* A write beat in memory f.
Struck(f, here, beat) == [f EXCEPT ![here] = Merge(@, beat.strobe, beat.data)]

\* What the master takes memory to be while a write is under way: the burst is
\* the one saved, whether channel AW has announced it or not.
SeenAsSaved ==
    "B" \in in_issue => memBar = Landed(mem, wq, saved_req.addr, saved_req.len)

LEMMA WriteSeen == AxiInv => SeenAsSaved
<1> SUFFICES ASSUME AxiInv, "B" \in in_issue
             PROVE  memBar = Landed(mem, wq, saved_req.addr, saved_req.len)
  BY DEF SeenAsSaved
<1>1. ASSUME NEW a \in Addr, wq = <<>>
      PROVE  Written(a, saved_req.addr, saved_req.len) = mem[a]
  BY <1>1 DEF Written
<1>2. memBar = [a \in Addr |-> Written(a, saved_req.addr, saved_req.len)]
  <2>1. aw # None => aw.addr = saved_req.addr /\ aw.len = saved_req.len
    BY DEF AxiInv, WritePhase
  <2> QED  BY <1>1, <2>1 DEF memBar
<1> QED  BY <1>2 DEF Written, Landed

\* A beat on channel W changes the word it is for and no other.
LEMMA BeatLands ==
    ASSUME NEW m, NEW q \in Seq(WriteBeat), NEW beat \in WriteBeat,
           NEW first \in Addr, NEW len \in {1, LineWords}, Len(q) < len
    PROVE  Landed(m, Append(q, beat), first, len)
             = Struck(Landed(m, q, first, len), Wrapped(first, len, Len(q)), beat)
<1> DEFINE here == Wrapped(first, len, Len(q))
           p == Append(q, beat)
           hits(a) == {k \in 1 .. Len(q) : Wrapped(first, len, k - 1) = a}
           more(a) == {k \in 1 .. Len(p) : Wrapped(first, len, k - 1) = a}
           i(a) == CHOOSE k \in hits(a) : TRUE
           j(a) == CHOOSE k \in more(a) : TRUE
           old == Landed(m, q, first, len)
           new == Landed(m, p, first, len)
<1>1. /\ Len(q) \in Nat /\ Len(p) = Len(q) + 1 /\ p[Len(q) + 1] = beat
      /\ \A k \in 1 .. Len(q) : p[k] = q[k]
  OBVIOUS
<1>2. len \in Nat /\ Len(q) \in 0 .. len - 1
  BY <1>1, Zeros
<1>3. here \in Addr  BY <1>2, BeatsApart
<1>4. \A k \in 1 .. Len(q) : k - 1 \in 0 .. len - 1 /\ k - 1 # Len(q)
  BY <1>1, <1>2
<1>5. \A k \in 1 .. Len(q) : Wrapped(first, len, k - 1) # here
  BY <1>2, <1>4, BeatsApart
<1>6. Len(q) + 1 - 1 = Len(q) /\ 1 .. Len(p) = (1 .. Len(q)) \cup {Len(q) + 1}
  BY <1>1
<1>7. hits(here) = {} /\ more(here) = {Len(q) + 1} /\ j(here) = Len(q) + 1
  BY <1>5, <1>6
<1>8. \A a \in Addr :
        /\ old[a] = IF hits(a) = {} THEN m[a]
                    ELSE Merge(m[a], q[i(a)].strobe, q[i(a)].data)
        /\ new[a] = IF more(a) = {} THEN m[a]
                    ELSE Merge(m[a], p[j(a)].strobe, p[j(a)].data)
  BY DEF Landed
<1>9. old = [a \in Addr |-> old[a]] /\ new = [a \in Addr |-> new[a]]
  BY DEF Landed
<1>10. \A a \in Addr : a # here => more(a) = hits(a) /\ j(a) = i(a)
  BY <1>6
<1>11. \A a \in Addr : hits(a) # {} => p[i(a)] = q[i(a)]
  <2>1. \A a \in Addr : hits(a) # {} => i(a) \in hits(a)  OBVIOUS
  <2> QED  BY <1>1, <2>1
<1> HIDE DEF hits, more, i, j, old, new, here, p
<1>12. new[here] = Merge(old[here], beat.strobe, beat.data)
  BY <1>1, <1>3, <1>7, <1>8
<1>13. \A a \in Addr : a # here => new[a] = old[a]
  BY <1>8, <1>10, <1>11
<1>14. new = Struck(old, here, beat)
  BY <1>3, <1>9, <1>12, <1>13 DEF Struck
<1> QED  BY <1>14 DEF new, old, here, p

\* A write: each beat on channel W is served; it changes the word it is for in
\* what the master takes memory to be.  The arrival on channel B changes
\* nothing in that.
LEMMA WriteMaps ==
    ASSUME AxiInv, NEW s \in Offers, Cycle(s), "B" \in in_issue
    PROVE  Promise!Serve \/ Promise!Pass
<1> DEFINE h == handshake(s)
<1>1. /\ in_issue \subseteq {"AW", "W", "B"} /\ h \subseteq in_issue /\ h = s.go
  BY OfferFields DEF AxiInv, TypeOK
<1>2. AxiInv'  BY WriteCycle
<1>3. saved_req' = saved_req /\ in_issue' = in_issue \ ended(s)
  BY DEF Cycle, BridgeEdge
<1>4. memBar = Landed(mem, wq, saved_req.addr, saved_req.len)
  BY WriteSeen DEF SeenAsSaved
<1>5. "B" \notin h => memBar' = Landed(mem', wq', saved_req.addr, saved_req.len)
  <2>1. "B" \notin h => "B" \in in_issue'  BY <1>3 DEF ended
  <2>2. SeenAsSaved'  BY <1>2, WriteSeen, PTL
  <2> QED  BY <1>3, <2>1, <2>2 DEF SeenAsSaved
<1>6. CASE "W" \in h
  <2>1. "W" \in in_issue  BY <1>1, <1>6
  <2>2. /\ creq \in BusRequest /\ creq.valid /\ creq.write = TRUE
        /\ creq.addr \in Addr /\ creq.len \in {1, LineWords}
        /\ creq.addr = saved_req.addr /\ creq.len = saved_req.len
    BY <2>1, LiveRequest
  <2>3. "B" \notin h
    <3>1. "B" \in s.go => AllAccepted  BY OfferFields
    <3>2. ~AllAccepted  BY <2>1 DEF AxiInv, WritePhase
    <3> QED  BY <1>1, <3>1, <3>2
  <2>4. /\ Len(wq) = saved_req.len - count - 1 /\ count \in Offsets
    BY <2>1 DEF AxiInv, WritePhase, TypeOK
  <2>5. /\ beatBar = Len(wq) /\ Len(wq) \in Nat /\ Len(wq) < creq.len
        /\ (count = 0) = (beatBar + 1 = creq.len)
    <3>1. beatBar = Len(wq)  BY <2>1, <2>4 DEF beatBar
    <3>2. Len(wq) \in Nat  BY DEF AxiInv, TypeOK
    <3> QED  BY <2>2, <2>4, <3>1, <3>2, Zeros DEF Offsets
  <2> DEFINE beat == [strobe |-> creq.strobe, data |-> creq.data, last |-> is_last]
  <2>6. beat \in WriteBeat
    BY <2>2, RequestFields DEF WriteBeat, is_last
  <2>7. wq' = Append(wq, beat) /\ mem' = mem
    BY <1>6, <2>3 DEF Cycle, MemoryEdge
  <2>8. Promise!Here = Wrapped(creq.addr, creq.len, Len(wq))
    BY <2>5, SameWires DEF Promise!Here
  <2>9. memBar' = [memBar EXCEPT ![Promise!Here] = Merge(@, creq.strobe, creq.data)]
    <3>1. wq \in Seq(WriteBeat)  BY DEF AxiInv, TypeOK, WriteBeat
    <3>2. beat.strobe = creq.strobe /\ beat.data = creq.data  OBVIOUS
    <3> HIDE DEF beat
    <3>3. Landed(mem, Append(wq, beat), creq.addr, creq.len)
            = Struck(Landed(mem, wq, creq.addr, creq.len),
                     Wrapped(creq.addr, creq.len, Len(wq)), beat)
      BY <2>2, <2>5, <2>6, <3>1, BeatLands
    <3>4. memBar' = Landed(mem, Append(wq, beat), creq.addr, creq.len)
      BY <1>5, <2>2, <2>3, <2>7
    <3>5. memBar' = Struck(memBar, Promise!Here, beat)
      BY <1>4, <2>2, <2>8, <3>3, <3>4
    <3> QED  BY <3>2, <3>5 DEF Struck
  <2>10. cresp(s).ready = TRUE /\ cresp(s).last = (count = 0)
    BY <1>1, <1>6 DEF cresp, is_last
  <2>11. Promise!Answer = [ready |-> TRUE, last |-> count = 0, data |-> ZeroWord]
    BY <2>2, <2>5, SameWires DEF Promise!Answer
  <2>12. rsp' = Promise!Answer
    <3>1. cresp(s) = [ready |-> cresp(s).ready, last |-> cresp(s).last, data |-> s.rdata]
      BY DEF cresp
    <3>2. [cresp(s) EXCEPT !.data = ZeroWord]
            = [ready |-> cresp(s).ready, last |-> cresp(s).last, data |-> ZeroWord]
      BY <3>1
    <3>3. Latched(creq, cresp(s)) = [cresp(s) EXCEPT !.data = ZeroWord]
      BY <2>2, <2>10 DEF Latched
    <3> QED  BY <2>10, <2>11, <3>2, <3>3 DEF Cycle
  <2>13. beatBar' = IF count = 0 THEN 0 ELSE beatBar + 1
    <3>1. CASE count = 0
      <4>1. in_issue' \cap {"R", "W"} = {}
        BY <1>1, <1>3, <1>6, <3>1 DEF ended, is_last
      <4> QED  BY <3>1, <4>1 DEF beatBar
    <3>2. CASE count # 0
      <4>1. "W" \in in_issue'  BY <1>3, <2>1, <3>2 DEF ended, is_last
      <4>2. count' = (count + CountValues - 1) % CountValues
        BY <2>10, <3>2 DEF Cycle, BridgeEdge
      <4>3. count' = count - 1  BY <2>4, <3>2, <4>2, CountDown
      <4>4. saved_req.len - (count - 1) - 1 = Len(wq) + 1
        BY <2>2, <2>4, Zeros DEF Offsets
      <4> QED  BY <1>3, <2>5, <3>2, <4>1, <4>3, <4>4 DEF beatBar
    <3> QED  BY <3>1, <3>2
  <2>14. creq' \in Follows(creq, Promise!Answer)
    BY <2>10, <2>11 DEF Cycle, Follows
  <2>15. Promise!Answer.last = (count = 0)  BY <2>11
  <2> QED
    BY <2>2, <2>9, <2>12, <2>13, <2>14, <2>15, SameWires DEF Promise!Serve
<1>7. CASE "W" \notin h
  <2>1. h \cap {"R", "W"} = {}  BY <1>1, <1>7
  <2>2. count' = count  BY <2>1 DEF Cycle, BridgeEdge, cresp
  <2>3. beatBar' = beatBar
    <3>1. in_issue' \cap {"R", "W"} = {} <=> in_issue \cap {"R", "W"} = {}
      BY <1>1, <1>3, <1>7 DEF ended
    <3> QED  BY <1>3, <2>2, <3>1 DEF beatBar
  <2>4. memBar' = memBar
    <3>1. CASE "B" \in h
      <4>1. aw # None /\ "AW" \notin h
        <5>1. aw # None  BY <1>1, <3>1, OfferFields
        <5>2. "AW" \notin in_issue  BY <5>1 DEF AxiInv, WritePhase
        <5> QED  BY <1>1, <5>1, <5>2
      <4>2. "AW" \notin in_issue  BY <4>1 DEF AxiInv, WritePhase
      <4>3. aw.addr = saved_req.addr /\ aw.len = saved_req.len
        BY <4>2 DEF AxiInv, WritePhase
      <4>4. mem' = [a \in Addr |-> Written(a, aw.addr, aw.len)]
        BY <3>1 DEF Cycle, MemoryEdge
      <4>5. wq' = <<>>
        BY <1>7, <3>1 DEF Cycle, MemoryEdge
      <4>6. memBar' = mem'
        <5>1. memBar' = [a \in Addr |-> mem'[a]]  BY <4>5 DEF memBar
        <5> QED  BY <4>4, <5>1
      <4>7. mem' = Landed(mem, wq, aw.addr, aw.len)
        BY <4>4 DEF Landed, Written
      <4> QED  BY <1>4, <4>3, <4>6, <4>7
    <3>2. CASE "B" \notin h
      <4>1. wq' = wq /\ mem' = mem  BY <1>7, <3>2 DEF Cycle, MemoryEdge
      <4> QED  BY <1>4, <1>5, <3>2, <4>1
    <3> QED  BY <3>1, <3>2
  <2> QED  BY <2>1, <2>3, <2>4, PassMaps
<1> QED  BY <1>6, <1>7

\* The bridge and an AXI memory, however that memory orders and buffers what it
\* accepts, are the memory the cache bus promises: a read never misses a write
\* that was answered before it arrived (memory.h:87).
THEOREM BridgeImplementsBusMemory == Spec => BridgeIsBusMemory
<1>1. Init => Promise!Init
  <2> SUFFICES ASSUME Init PROVE Promise!Init
    OBVIOUS
  <2>1. in_issue = {} /\ wq = <<>>  BY DEF Init, BridgeInit
  <2>2. memBar = [a \in Addr |-> mem[a]] /\ beatBar = 0  BY <2>1 DEF memBar, beatBar
  <2>3. memBar \in [Addr -> Word]  BY <2>2, Zeros DEF Init
  <2>4. memBar \in [Promise!Addr -> Promise!Word]
    BY <2>3 DEF Promise!Addr, Addr, Promise!Offsets, Offsets, Promise!Word, Word
  <2> QED  BY <2>2, <2>4, SameWires DEF Init, Promise!Init
<1>2. AxiInv /\ [Next]_vars => [Promise!Next]_(Promise!busvars)
  <2>1. ASSUME UNCHANGED vars PROVE UNCHANGED Promise!busvars
    BY <2>1 DEF vars, Promise!busvars, memBar, beatBar, Written
  <2>2. ASSUME AxiInv, Next PROVE Promise!Next
    <3>1. PICK s \in Offers : Cycle(s)  BY <2>2 DEF Next
    <3>2. CASE in_issue = {}  BY <2>2, <3>1, <3>2, IdleMaps DEF Promise!Next
    <3>3. CASE "R" \in in_issue  BY <2>2, <3>1, <3>3, ReadMaps DEF Promise!Next
    <3>4. CASE "B" \in in_issue  BY <2>2, <3>1, <3>4, WriteMaps DEF Promise!Next
    <3> QED  BY <2>2, <3>2, <3>3, <3>4, AnyPhase
  <2> QED  BY <2>1, <2>2
<1> QED
  BY <1>1, <1>2, InvariantHolds, PTL DEF Spec, BridgeIsBusMemory, Promise!Spec
=============================================================================
