------------------------------ MODULE BusProofs -----------------------------
(***************************************************************************)
(* The arbiter and the simulation memory, for any number of masters, lines *)
(* and words of a line.                                                    *)
(*                                                                         *)
(* The invariant is what a transaction in progress says about the grant:   *)
(* it is the granted master's, whose request is still on the wires, and    *)
(* both count the same beats of it.  A request stays on the wires because  *)
(* its master is answered under the grant only.                            *)
(***************************************************************************)
EXTENDS CBusSystem, WellFoundedInduction, TLAPS

Lengths == {1, LineWords}
Transaction == [busy : {TRUE}, is_write : BOOLEAN, N : 1 .. LineWords,
                addr : Addr, start : Addr, len : Lengths]

\* The granted master holds its request.
GrantHeld == busy => ireqs[grant].valid

\* The transaction is the granted master's.
Owner ==
    tx.busy =>
        /\ busy
        /\ tx.is_write = ireqs[grant].write /\ tx.start = ireqs[grant].addr
        /\ tx.len = ireqs[grant].len /\ tx.N <= tx.len
        /\ tx.addr = Wrapped(ireqs[grant].addr, tx.len, tx.N - 1)

BusInv == TypeOK /\ GrantHeld /\ Owner /\ BeatsToOwner
-----------------------------------------------------------------------------
LEMMA RequestFields ==
  ASSUME NEW req \in BusRequest \cup {Silent}, req.valid
  PROVE  /\ req \in BusRequest
         /\ req.write \in BOOLEAN /\ req.addr \in Addr /\ req.len \in Lengths
         /\ req.strobe \in SUBSET Lanes /\ req.data \in Word
<1>1. req # Silent BY DEF Silent
<1>2. QED BY <1>1 DEF BusRequest, Lengths

\* The arbiter finds a lowest input among those that ask.
LEMMA LowestInput ==
  ASSUME NEW S, S \subseteq Inputs, S # {}
  PROVE  \E i \in S : \A j \in S : i <= j
<1>0. S \subseteq Nat BY InputAssumption DEF Inputs
<1>1. PICK i \in S : \A j \in S : ~ (<<j, i>> \in OpToRel(<, Nat))
  BY <1>0, NatLessThanWellFounded, WFMin
<1>2. ASSUME NEW j \in S PROVE i <= j
  <2>1. <<j, i>> \in Nat \X Nat BY <1>0
  <2>2. ~ (j < i) BY <1>1, <2>1 DEF OpToRel
  <2>3. i \in Nat /\ j \in Nat BY <1>0
  <2>4. QED BY <2>2, <2>3
<1>3. QED BY <1>2

\* Counting inside a window.
LEMMA Modulo ==
  ASSUME NEW n \in Nat \ {0}, NEW x \in Nat
  PROVE  x < n => x % n = x /\ x \div n = 0
  OBVIOUS

LEMMA ModuloWraps ==
  ASSUME NEW n \in Nat \ {0}, NEW x \in Nat, n <= x, x < n + n
  PROVE  x % n = x - n
  OBVIOUS

\* A burst starts at its address; each next word is the next of its window.
LEMMA WindowWalk ==
  ASSUME NEW a \in Addr, NEW len \in Lengths
  PROVE  /\ Wrapped(a, len, 0) = a
         /\ \A k \in Nat : k + 1 < len =>
                /\ Wrapped(a, len, k) \in Addr
                /\ Device!NextAddr(Wrapped(a, len, k), len) = Wrapped(a, len, k + 1)
                /\ Wrapped(a, len, k + 1) \in Addr
<1>0. /\ LineWords \in Nat /\ LineWords > 1
      /\ a.word \in 0 .. LineWords - 1 /\ a = [line |-> a.line, word |-> a.word]
      /\ a.line \in Lines
  BY BusAssumption DEF Addr, Offsets
<1>1. CASE len = 1
  <2>1. (a.word \div 1) * 1 = a.word /\ (a.word - a.word + 0) % 1 = 0 BY <1>0
  <2>2. Wrapped(a, len, 0) = a BY <1>0, <1>1, <2>1 DEF Wrapped
  <2>3. QED BY <1>1, <2>2
<1>2. CASE len = LineWords
  <2>1. a.word \div len = 0 /\ a.word % len = a.word
    BY <1>0, <1>2, Modulo
  <2>2. (a.word \div len) * len = 0 BY <1>0, <1>2, <2>1
  <2>3. \A k \in Nat : Wrapped(a, len, k) = [line |-> a.line, word |-> (a.word + k) % len]
    <3> TAKE k \in Nat
    <3>1. 0 + ((a.word - 0 + k) % len) = (a.word + k) % len
      <4>1. (a.word + k) % len \in Nat BY <1>0, <1>2
      <4>2. a.word - 0 + k = a.word + k BY <1>0
      <4>3. QED BY <4>1, <4>2
    <3>2. Wrapped(a, len, k) = [a EXCEPT !.word = 0 + ((@ - 0 + k) % len)]
      BY <2>2 DEF Wrapped
    <3>3. QED BY <1>0, <3>1, <3>2
  <2>4. Wrapped(a, len, 0) = a
    BY <1>0, <2>1, <2>3
  <2>5. ASSUME NEW k \in Nat, k + 1 < len
        PROVE  /\ Wrapped(a, len, k) \in Addr /\ Wrapped(a, len, k + 1) \in Addr
               /\ Device!NextAddr(Wrapped(a, len, k), len) = Wrapped(a, len, k + 1)
    <3> DEFINE x == (a.word + k) % len
    <3>1. x \in 0 .. len - 1 /\ (a.word + (k + 1)) % len \in 0 .. len - 1
      BY <1>0, <1>2
    <3>0. /\ len \in Nat \ {0} /\ a.word + k \in Nat /\ a.word + (k + 1) \in Nat
          /\ a.word < len /\ a.word + (k + 1) = a.word + k + 1
          /\ a.word + k < len + len /\ a.word + (k + 1) < len + len
      BY <1>0, <1>2, <2>5
    <3>2. (a.word + (k + 1)) % len = IF x + 1 >= len THEN 0 ELSE x + 1
      <4>1. CASE a.word + k < len
        <5>1. x = a.word + k BY <3>0, <4>1, Modulo
        <5>2. CASE a.word + k + 1 < len
          <6>1. (a.word + (k + 1)) % len = a.word + (k + 1) BY <3>0, <5>2, Modulo
          <6>2. QED BY <3>0, <5>1, <5>2, <6>1
        <5>3. CASE ~(a.word + k + 1 < len)
          <6>1. a.word + (k + 1) = len BY <1>0, <1>2, <4>1, <5>3
          <6>2. len % len = 0 BY <3>0
          <6>3. QED BY <1>0, <1>2, <5>1, <6>1, <6>2
        <5>4. QED BY <5>2, <5>3
      <4>2. CASE ~(a.word + k < len)
        <5>1. x = (a.word + k) - len
          <6>1. len <= a.word + k BY <3>0, <4>2
          <6>2. QED BY <3>0, <6>1, ModuloWraps
        <5>2. (a.word + (k + 1)) % len = (a.word + (k + 1)) - len
          <6>1. len <= a.word + (k + 1) BY <3>0, <4>2
          <6>2. QED BY <3>0, <6>1, ModuloWraps
        <5>3. QED BY <1>0, <1>2, <2>5, <5>1, <5>2
      <4>3. QED BY <4>1, <4>2
    <3> HIDE DEF x
    <3>3. Wrapped(a, len, k) = [line |-> a.line, word |-> x] BY <2>3 DEF x
    <3>4. (x \div len) * len = 0
      <4>1. x \div len = 0 BY <1>0, <1>2, <3>1, Modulo
      <4>2. QED BY <1>0, <1>2, <4>1
    <3>5. Device!NextAddr(Wrapped(a, len, k), len) =
            [line |-> a.line, word |-> IF x + 1 >= len THEN 0 ELSE x + 1]
      BY <1>0, <1>2, <3>3, <3>4 DEF Device!NextAddr
    <3>6. Wrapped(a, len, k + 1) = [line |-> a.line, word |-> (a.word + (k + 1)) % len]
      BY <2>3
    <3>7. QED BY <1>0, <1>2, <3>1, <3>2, <3>3, <3>5, <3>6 DEF Addr, Offsets
  <2>6. QED BY <2>4, <2>5
<1>3. QED BY <1>1, <1>2 DEF Lengths

-----------------------------------------------------------------------------
LEMMA InitBus == Init => BusInv
<1> SUFFICES ASSUME Init PROVE BusInv OBVIOUS
<1>1. ZeroWord \in Word /\ NoResponse \in Response
  BY ByteAssumption DEF ZeroWord, Word, NoResponse, Response
<1>2. 0 \in Inputs /\ 0 \in 0 .. LineWords
  BY InputAssumption, BusAssumption DEF Inputs
<1>3. TypeOK
  BY <1>1, <1>2 DEF Init, ArbiterInit, Device!DeviceInit, TypeOK
<1>4. QED BY <1>2, <1>3
  DEF Init, ArbiterInit, Device!DeviceInit, Device!NoTransaction, BusInv, GrantHeld, Owner, BeatsToOwner

-----------------------------------------------------------------------------
\* Masters put requests of their type on the wires.
LEMMA FollowsType ==
  ASSUME NEW req \in BusRequest \cup {Silent}, NEW r, NEW f \in Follows(req, r)
  PROVE  f \in BusRequest \cup {Silent}
<1>1. CASE f \in Requests \cup {Silent} BY <1>1, BusAssumption
<1>2. CASE f = req BY <1>2
<1>3. CASE req.valid /\ f \in {[req EXCEPT !.data = w] : w \in Word}
  <2>1. req \in BusRequest BY <1>3, RequestFields
  <2>2. QED BY <1>3, <2>1 DEF BusRequest
<1>4. QED BY <1>1, <1>2, <1>3 DEF Follows

\* A request that is not answered, or not for the last time, stays: only the
\* data of a write go on.
LEMMA FollowsHolds ==
  ASSUME NEW req \in BusRequest \cup {Silent}, req.valid, NEW r, ~r.last, NEW f \in Follows(req, r)
  PROVE  f.valid /\ f.write = req.write /\ f.addr = req.addr /\ f.len = req.len
<1>1. req \in BusRequest BY RequestFields
<1>2. QED BY <1>1 DEF Follows, BusRequest

LEMMA TransactionType ==
  ASSUME TypeOK, tx.busy
  PROVE  tx \in Transaction /\ tx.addr \in Addr
<1>1. tx # Device!NoTransaction BY DEF Device!NoTransaction
<1>2. tx \in Transaction BY <1>1 DEF TypeOK, Transaction, Lengths
<1>3. QED BY <1>2 DEF Transaction

LEMMA NoResponses == Device!NoResponse = NoResponse /\ Device!ZeroWord = ZeroWord
  BY DEF Device!NoResponse, NoResponse, Device!ZeroWord, ZeroWord

\* The bus is answered by a transaction in progress or not at all.
LEMMA ResponseType ==
  ASSUME BusInv
  PROVE  /\ oresp \in Response
         /\ oresp.ready <=> enable /\ tx.busy
         /\ oresp.last <=> enable /\ tx.busy /\ tx.N = tx.len
<1>1. ZeroWord \in Word BY ByteAssumption DEF ZeroWord, Word
<1>2. CASE enable /\ tx.busy
  <2>1. mem[tx.addr] \in Word
    BY <1>2, TransactionType DEF BusInv, TypeOK
  <2>2. oresp = [ready |-> TRUE, last |-> tx.N = tx.len,
                 data |-> IF tx.is_write THEN ZeroWord ELSE mem[tx.addr]]
    BY <1>2, NoResponses DEF oresp, Device!DeviceResp, Device!Last
  <2>3. (IF tx.is_write THEN ZeroWord ELSE mem[tx.addr]) \in Word BY <1>1, <2>1
  <2>4. QED BY <1>2, <2>2, <2>3 DEF Response
<1>3. CASE ~(enable /\ tx.busy)
  <2>1. oresp = NoResponse BY <1>3, NoResponses DEF oresp, Device!DeviceResp
  <2>2. QED BY <1>1, <1>3, <2>1 DEF NoResponse, Response
<1>4. QED BY <1>2, <1>3

\* What the edge does to the wires, the memory and the last response.
LEMMA EdgeTypes ==
  ASSUME BusInv, Next
  PROVE  /\ ireqs' \in [Inputs -> BusRequest \cup {Silent}]
         /\ \A i \in Inputs : ireqs'[i] \in Follows(ireqs[i], resp(i))
         /\ mem' \in [Addr -> Word] /\ rsp' \in Response /\ enable' \in BOOLEAN
<1>1. ireqs \in [Inputs -> BusRequest \cup {Silent}] BY DEF BusInv, TypeOK
<1>2. /\ ireqs' \in [Inputs -> UNION {Follows(ireqs[i], resp(i)) : i \in Inputs}]
      /\ \A i \in Inputs : ireqs'[i] \in Follows(ireqs[i], resp(i))
  BY DEF Next, MasterEdge
<1>3. \A i \in Inputs : ireqs'[i] \in BusRequest \cup {Silent}
  BY <1>1, <1>2, FollowsType
<1>4. ireqs' \in [Inputs -> BusRequest \cup {Silent}] BY <1>2, <1>3
<1>5. ZeroWord \in Word BY ByteAssumption DEF ZeroWord, Word
<1>6. oreq \in BusRequest \cup {Silent} BY <1>1 DEF oreq, BusInv, TypeOK
<1>7. strobe \in SUBSET Lanes /\ data \in Word
  BY <1>5, <1>6, RequestFields DEF strobe, data
<1>8. mem' \in [Addr -> Word]
  <2>0. Device!DeviceEdge(oreq, strobe, data) BY DEF Next
  <2>1. mem \in [Addr -> Word] BY DEF BusInv, TypeOK
  <2>2. \A w \in Word : Device!Merge(w, strobe, data) \in Word
    BY <1>7 DEF Device!Merge, Word
  <2>3. CASE enable /\ tx.busy
    <3>1. mem' = IF tx.is_write
                   THEN [mem EXCEPT ![tx.addr] = Device!Merge(@, strobe, data)] ELSE mem
      BY <2>0, <2>3 DEF Device!DeviceEdge, BusInv, TypeOK
    <3>2. tx.addr \in Addr BY <2>3, TransactionType DEF BusInv
    <3>3. QED BY <2>1, <2>2, <3>1, <3>2
  <2>4. CASE ~(enable /\ tx.busy)
    BY <2>0, <2>1, <2>4 DEF Device!DeviceEdge
  <2>5. QED BY <2>3, <2>4
<1>9. rsp' \in Response
  <2>1. NoResponse \in Response BY <1>5 DEF NoResponse, Response
  <2>2. oresp \in Response BY ResponseType
  <2>3. Latched(oreq, oresp) \in Response
    BY <1>5, <2>1, <2>2 DEF Latched, Response
  <2>4. rsp' = IF oreq.valid THEN Latched(oreq, oresp) ELSE NoResponse BY DEF Next
  <2>5. QED BY <2>1, <2>3, <2>4
<1>10. enable' \in BOOLEAN BY DEF Next, Device!DeviceEdge
<1>11. QED BY <1>2, <1>4, <1>8, <1>9, <1>10

\* The grant is kept until the last beat, and given to a master that asks.
LEMMA GrantEdge ==
  ASSUME BusInv, Next
  PROVE  /\ busy' \in BOOLEAN /\ grant' \in Inputs
         /\ busy => busy' = ~oresp.last /\ grant' = grant
         /\ ~busy => (busy' => ireqs[grant'].valid)
<1> USE DEF BusInv
<1>1. CASE busy
  <2>1. oresp.last \in BOOLEAN BY ResponseType DEF Response
  <2>2. QED BY <1>1, <2>1 DEF Next, ArbiterEdge, TypeOK
<1>2. CASE ~busy
  <2>1. select \in Inputs
    <3>1. 0 \in Inputs BY InputAssumption DEF Inputs
    <3>2. CASE \E i \in Inputs : ireqs[i].valid
      <4> DEFINE V == {i \in Inputs : ireqs[i].valid}
      <4>1. V \subseteq Inputs /\ V # {} BY <3>2
      <4>2. \E i \in V : \A j \in V : i <= j BY <4>1, LowestInput
      <4>3. \E i \in Inputs : ireqs[i].valid /\ \A j \in Inputs : j < i => ~ireqs[j].valid
        BY <4>2, InputAssumption DEF Inputs
      <4>4. QED BY <3>2, <4>3 DEF select
    <3>3. CASE ~ \E i \in Inputs : ireqs[i].valid BY <3>1, <3>3 DEF select
    <3>4. QED BY <3>2, <3>3
  <2>2. busy' = ireqs[select].valid /\ grant' = select
    BY <1>2 DEF Next, ArbiterEdge
  <2>3. ireqs[select].valid \in BOOLEAN
    <3>1. ireqs[select] \in BusRequest \cup {Silent} BY <2>1 DEF TypeOK
    <3>2. \A req \in BusRequest \cup {Silent} : req.valid \in BOOLEAN
      <4>1. \A req \in BusRequest : req.valid \in {TRUE} BY DEF BusRequest
      <4>2. Silent.valid = FALSE BY DEF Silent
      <4>3. \A b \in {TRUE} : b \in BOOLEAN OBVIOUS
      <4>4. QED BY <4>1, <4>2, <4>3
    <3>3. QED BY <3>1, <3>2
  <2>4. QED BY <1>2, <2>1, <2>2, <2>3
<1>3. QED BY <1>1, <1>2

\* A cycle without a response: a grant or the start of a transaction.
LEMMA QuietCycle ==
  ASSUME BusInv, Next, ~(enable /\ tx.busy)
  PROVE  BusInv'
<1> USE DEF BusInv
<1>1. oresp = NoResponse BY NoResponses DEF oresp, Device!DeviceResp
<1>2. \A i \in Inputs : resp(i) = NoResponse BY <1>1 DEF resp, iresp
<1>3. ~NoResponse.last /\ ~NoResponse.ready BY DEF NoResponse
<1>4. beats' = beats
  <2>1. beats \in [Inputs -> 0 .. LineWords] BY DEF TypeOK
  <2>2. beats' = [i \in Inputs |-> beats[i]]
    BY <1>2, <1>3 DEF Next, MasterEdge
  <2>3. QED BY <2>1, <2>2
<1>5. ASSUME NEW i \in Inputs, ireqs[i].valid
      PROVE  /\ ireqs'[i].valid /\ ireqs'[i].write = ireqs[i].write
             /\ ireqs'[i].addr = ireqs[i].addr /\ ireqs'[i].len = ireqs[i].len
  <2>1. ireqs[i] \in BusRequest \cup {Silent} BY DEF TypeOK
  <2>2. ireqs'[i] \in Follows(ireqs[i], resp(i)) BY EdgeTypes
  <2>3. ~resp(i).last BY <1>2, <1>3
  <2>4. QED BY <1>5, <2>1, <2>2, <2>3, FollowsHolds
<1>6. /\ busy' \in BOOLEAN /\ grant' \in Inputs
      /\ busy' => ireqs[grant'].valid
      /\ busy => busy' /\ grant' = grant
  BY <1>1, <1>3, GrantEdge DEF GrantHeld
<1>7. GrantHeld' BY <1>5, <1>6 DEF GrantHeld
<1>8. Device!DeviceEdge(oreq, strobe, data) BY DEF Next
<1>9. CASE tx' = tx
  <2>1. TypeOK' BY <1>4, <1>6, <1>9, EdgeTypes DEF TypeOK
  <2>2. Owner'
    <3> SUFFICES ASSUME tx.busy PROVE Owner' BY <1>9 DEF Owner
    <3>1. busy /\ ireqs[grant].valid /\ grant \in Inputs BY DEF Owner, GrantHeld, TypeOK
    <3>2. QED BY <1>5, <1>6, <1>9, <3>1 DEF Owner
  <2>3. BeatsToOwner'
    <3>1. tx.busy => busy BY DEF Owner
    <3>2. QED BY <1>4, <1>6, <1>9, <3>1 DEF BeatsToOwner
  <2>4. QED BY <1>7, <2>1, <2>2, <2>3
<1>10. CASE enable /\ ~tx.busy /\ oreq.valid /\ tx' = Device!Start(oreq)
  <2>1. busy /\ oreq = ireqs[grant] /\ grant \in Inputs
    BY <1>10 DEF oreq, Silent, TypeOK
  <2>2. /\ oreq.write \in BOOLEAN /\ oreq.addr \in Addr /\ oreq.len \in Lengths
    BY <1>10, <2>1, RequestFields DEF TypeOK
  <2>3. tx' = [busy |-> TRUE, is_write |-> oreq.write, N |-> 1,
               addr |-> oreq.addr, start |-> oreq.addr, len |-> oreq.len]
    BY <1>10 DEF Device!Start
  <2>4. 1 \in 1 .. LineWords /\ 1 <= oreq.len /\ 1 - 1 = 0
    BY <2>2, BusAssumption DEF Lengths
  <2>5. TypeOK'
    <3>1. tx' \in Transaction BY <2>2, <2>3, <2>4 DEF Transaction
    <3>2. QED BY <1>4, <1>6, <3>1, EdgeTypes DEF TypeOK, Transaction, Lengths
  <2>6. Owner'
    <3>1. Wrapped(oreq.addr, oreq.len, 0) = oreq.addr BY <2>2, WindowWalk
    <3>2. /\ busy' /\ grant' = grant
          /\ ireqs'[grant].write = oreq.write /\ ireqs'[grant].addr = oreq.addr
          /\ ireqs'[grant].len = oreq.len
      BY <1>5, <1>6, <1>10, <2>1
    <3>3. QED BY <2>3, <2>4, <3>1, <3>2 DEF Owner
  <2>7. BeatsToOwner'
    BY <1>4, <1>10, <2>3, <2>4 DEF BeatsToOwner
  <2>8. QED BY <1>7, <2>5, <2>6, <2>7
<1>11. tx' = tx \/ (enable /\ ~tx.busy /\ oreq.valid /\ tx' = Device!Start(oreq))
  BY <1>8 DEF Device!DeviceEdge
<1>12. QED BY <1>9, <1>10, <1>11

\* A cycle with a response: a beat for the granted master.
LEMMA BeatCycle ==
  ASSUME BusInv, Next, enable, tx.busy
  PROVE  BusInv'
<1> USE DEF BusInv
<1> DEFINE g == grant
<1>1. /\ busy /\ grant \in Inputs /\ ireqs[grant].valid /\ tx \in Transaction
      /\ ireqs[grant] \in BusRequest \cup {Silent}
      /\ beats \in [Inputs -> 0 .. LineWords]
  BY TransactionType DEF Owner, GrantHeld, TypeOK
<1>2. /\ oresp.ready /\ (oresp.last <=> tx.N = tx.len)
      /\ resp(grant) = oresp
      /\ \A i \in Inputs : i # grant => resp(i) = NoResponse
  BY <1>1, ResponseType DEF resp, iresp
<1>3. ~NoResponse.last /\ ~NoResponse.ready BY DEF NoResponse
<1>4. /\ \A i \in Inputs : i # grant => beats'[i] = beats[i] /\ beats[i] = 0
      /\ beats'[grant] = IF tx.N = tx.len THEN 0 ELSE beats[grant] + 1
      /\ beats[grant] = tx.N - 1
      /\ beats' = [i \in Inputs |-> beats'[i]]
  <2>1. beats' = [i \in Inputs |-> CASE resp(i).last -> 0
                      [] resp(i).ready /\ ~resp(i).last -> beats[i] + 1
                      [] OTHER -> beats[i]]
    BY DEF Next, MasterEdge
  <2>2. \A i \in Inputs : i # grant => beats'[i] = beats[i]
    BY <1>2, <1>3, <2>1
  <2>3. beats'[grant] = IF tx.N = tx.len THEN 0 ELSE beats[grant] + 1
    BY <1>1, <1>2, <2>1
  <2>4. beats' = [i \in Inputs |-> beats'[i]] BY <2>1
  <2>5. beats[grant] = tx.N - 1 /\ \A i \in Inputs : i # grant => beats[i] = 0
    BY <1>1 DEF BeatsToOwner
  <2>6. QED BY <2>2, <2>3, <2>4, <2>5
<1>5. busy' = ~(tx.N = tx.len) /\ grant' = grant
  BY <1>1, <1>2 DEF Next, ArbiterEdge
<1>6. Device!DeviceEdge(oreq, strobe, data) BY DEF Next
<1>7. tx' = IF tx.N = tx.len THEN Device!NoTransaction
            ELSE [tx EXCEPT !.N = @ + 1, !.addr = Device!NextAddr(tx.addr, tx.len)]
  BY <1>6 DEF Device!DeviceEdge, Device!Last
<1>8. /\ tx.N \in Nat /\ tx.N >= 1 /\ tx.len \in Lengths /\ tx.len \in Nat /\ tx.N <= tx.len
      /\ LineWords \in Nat /\ tx.len <= LineWords
  BY <1>1, BusAssumption DEF Transaction, Lengths, Owner
<1>9. CASE tx.N = tx.len
  <2>1. ~tx'.busy /\ tx' = Device!NoTransaction /\ ~busy'
    BY <1>5, <1>7, <1>9 DEF Device!NoTransaction
  <2>2. beats' \in [Inputs -> 0 .. LineWords] /\ \A i \in Inputs : beats'[i] = 0
    BY <1>4, <1>8, <1>9
  <2>3. TypeOK'
    BY <1>1, <1>5, <2>1, <2>2, EdgeTypes DEF TypeOK
  <2>4. QED BY <2>1, <2>2, <2>3 DEF GrantHeld, Owner, BeatsToOwner
<1>10. CASE tx.N # tx.len
  <2>1. /\ tx' = [tx EXCEPT !.N = @ + 1, !.addr = Device!NextAddr(tx.addr, tx.len)]
        /\ busy'
    BY <1>5, <1>7, <1>10
  <2>2. /\ ireqs'[grant].valid /\ ireqs'[grant].write = ireqs[grant].write
        /\ ireqs'[grant].addr = ireqs[grant].addr /\ ireqs'[grant].len = ireqs[grant].len
    <3>1. ireqs'[grant] \in Follows(ireqs[grant], resp(grant)) BY <1>1, EdgeTypes
    <3>2. ~resp(grant).last BY <1>2, <1>10
    <3>3. QED BY <1>1, <3>1, <3>2, FollowsHolds
  <2>3. ireqs[grant].addr \in Addr BY <1>1, RequestFields
  <2>4. LET k == tx.N - 1
        IN  /\ k \in Nat /\ k + 1 < tx.len /\ k + 1 = tx.N
            /\ tx.N + 1 <= tx.len /\ tx.N + 1 \in 1 .. LineWords
            /\ (tx.N + 1) - 1 = tx.N
    BY <1>8, <1>10
  <2>5. /\ Device!NextAddr(tx.addr, tx.len) = Wrapped(ireqs[grant].addr, tx.len, tx.N)
        /\ Wrapped(ireqs[grant].addr, tx.len, tx.N) \in Addr
    <3>1. tx.addr = Wrapped(ireqs[grant].addr, tx.len, tx.N - 1) BY DEF Owner
    <3>2. QED BY <1>8, <2>3, <2>4, <3>1, WindowWalk
  <2>6. /\ tx'.busy /\ tx'.N = tx.N + 1 /\ tx'.len = tx.len
        /\ tx'.is_write = tx.is_write /\ tx'.start = tx.start
        /\ tx'.addr = Wrapped(ireqs[grant].addr, tx.len, tx.N)
        /\ tx' \in Transaction
    BY <1>1, <2>1, <2>4, <2>5 DEF Transaction
  <2>7. TypeOK'
    <3>1. beats' \in [Inputs -> 0 .. LineWords]
      BY <1>1, <1>4, <1>8, <1>10, <2>4
    <3>2. QED BY <1>1, <1>5, <2>1, <2>6, <3>1, EdgeTypes DEF TypeOK, Transaction, Lengths
  <2>8. GrantHeld' BY <1>5, <2>2 DEF GrantHeld
  <2>9. Owner' BY <1>5, <2>1, <2>2, <2>4, <2>6 DEF Owner
  <2>10. BeatsToOwner'
    <3>1. beats'[grant] = tx'.N - 1 BY <1>4, <1>8, <1>10, <2>4, <2>6
    <3>2. QED BY <1>4, <1>5, <2>1, <2>6, <3>1 DEF BeatsToOwner
  <2>11. QED BY <2>7, <2>8, <2>9, <2>10
<1>11. QED BY <1>9, <1>10

-----------------------------------------------------------------------------
LEMMA StepBus == BusInv /\ [Next]_vars => BusInv'
<1> SUFFICES ASSUME BusInv, [Next]_vars PROVE BusInv' OBVIOUS
<1>1. CASE Next BY <1>1, QuietCycle, BeatCycle
<1>2. CASE UNCHANGED vars
  BY <1>2 DEF vars, BusInv, TypeOK, GrantHeld, Owner, BeatsToOwner
<1>3. QED BY <1>1, <1>2

THEOREM BusInvariant == Spec => []BusInv
  BY InitBus, StepBus, PTL DEF Spec

\* Type correctness of arbiter, device and masters.
THEOREM TypeCorrect == Spec => []TypeOK
  BY BusInvariant, PTL DEF BusInv

\* Beats go to the granted master only, and both ends count them alike.
THEOREM BeatsOwned == Spec => []BeatsToOwner
  BY BusInvariant, PTL DEF BusInv

\* CBusDevice's sanity checks (eval_req) never fail behind the arbiter.
THEOREM ChecksPass == Spec => []DeviceChecks
<1>1. BusInv => DeviceChecks
  BY DEF BusInv, TypeOK, GrantHeld, Owner, DeviceChecks, Device!Checks, oreq
<1>2. QED BY <1>1, BusInvariant, PTL

\* Nothing is served after the grant, and the word served is the one counted.
THEOREM NothingAfterGrant == Spec => []ServedUnderGrant
<1>1. BusInv => ServedUnderGrant
  BY DEF BusInv, TypeOK, GrantHeld, Owner, BeatsToOwner, ServedUnderGrant
<1>2. QED BY <1>1, BusInvariant, PTL

-----------------------------------------------------------------------------
(* Arbiter and device implement BusMemory.                                 *)

\* A request that waits for its grant is the one its master raised: no write
\* beat has moved its data on.
AsRaised == \A i \in Inputs : ~(busy /\ grant = i) => ireqs[i] \in Requests \cup {Silent}

\* A request is touched only by the responses of its own grant.
LEMMA RaisedStep ==
  ASSUME BusInv, AsRaised, Next
  PROVE  AsRaised'
<1> SUFFICES ASSUME NEW i \in Inputs, ~(busy' /\ grant' = i)
             PROVE  ireqs'[i] \in Requests \cup {Silent}
  BY DEF AsRaised
<1>1. ireqs'[i] \in Follows(ireqs[i], resp(i)) BY EdgeTypes
<1>2. CASE busy /\ grant = i
  <2>1. oresp.last BY <1>2, GrantEdge
  <2>2. resp(i).last BY <1>2, <2>1 DEF resp, iresp
  <2>3. QED BY <1>1, <2>2 DEF Follows
<1>3. CASE ~(busy /\ grant = i)
  <2>1. resp(i) = NoResponse BY <1>3 DEF resp, iresp
  <2>2. ireqs[i] \in Requests \cup {Silent} BY <1>3 DEF AsRaised
  <2>3. QED BY <1>1, <2>1, <2>2 DEF Follows, NoResponse
<1>4. QED BY <1>2, <1>3

\* A cycle without a response: the bus passes, though the arbiter may grant it
\* or the device take up its request.
LEMMA QuietMaps ==
  ASSUME BusInv, AsRaised, Next, ~(enable /\ tx.busy)
  PROVE  Promise!Pass
<1>1. oresp = NoResponse BY NoResponses DEF oresp, Device!DeviceResp
<1>2. \A i \in Inputs : resp(i) = NoResponse BY <1>1 DEF resp, iresp
<1>3. ~NoResponse.last /\ ~NoResponse.ready BY DEF NoResponse
<1>4. rsp' = NoResponse BY <1>1, <1>3 DEF Next, Latched
<1>5. oreq' \in Follows(oreq, NoResponse)
  <2>1. CASE busy
    <3>1. busy' /\ grant' = grant BY <1>1, <1>3, <2>1, GrantEdge
    <3>2. oreq = ireqs[grant] /\ oreq' = ireqs'[grant] BY <2>1, <3>1 DEF oreq
    <3>3. QED BY <1>2, <3>2, EdgeTypes DEF BusInv, TypeOK
  <2>2. CASE ~busy
    <3>1. oreq = Silent BY <2>2 DEF oreq
    <3>2. CASE ~busy'
      BY <3>1, <3>2 DEF oreq, Follows, Silent
    <3>3. CASE busy'
      <4>1. PICK g \in Inputs : g = grant' /\ ireqs[g].valid
        BY <2>2, <3>3, GrantEdge
      <4>2. ireqs'[g] = ireqs[g] BY <1>2, <1>3, <4>1, EdgeTypes DEF Follows
      <4>3. ireqs[g] \in Requests BY <2>2, <4>1 DEF AsRaised, Silent
      <4>4. oreq' = ireqs'[g] BY <3>3, <4>1 DEF oreq
      <4>5. QED BY <3>1, <4>2, <4>3, <4>4 DEF Follows, Silent
    <3>4. QED BY <3>2, <3>3
  <2>3. QED BY <2>1, <2>2
<1>6. mem' = mem /\ beatBar' = beatBar
  <2>1. Device!DeviceEdge(oreq, strobe, data) BY DEF Next
  <2>2. /\ mem' = mem
        /\ tx' = tx \/ (~tx.busy /\ tx' = Device!Start(oreq))
    BY <2>1 DEF Device!DeviceEdge
  <2>3. CASE tx' = tx BY <2>2, <2>3 DEF beatBar
  <2>4. CASE ~tx.busy /\ tx' = Device!Start(oreq)
    BY <2>2, <2>4 DEF beatBar, Device!Start
  <2>5. QED BY <2>2, <2>3, <2>4
<1>7. QED
  BY <1>4, <1>5, <1>6
  DEF Promise!Pass, Promise!Follows, Follows, Promise!NoResponse, NoResponse, Promise!Word, Word,
      Promise!Silent, Silent, Promise!ZeroWord, ZeroWord

\* A cycle with a response: the bus serves the beat its owner has got to.
LEMMA BeatMaps ==
  ASSUME BusInv, Next, enable, tx.busy
  PROVE  Promise!Serve
<1>1. /\ busy /\ oreq = ireqs[grant] /\ oreq.valid /\ grant \in Inputs
      /\ tx.is_write = oreq.write /\ tx.len = oreq.len /\ tx.N <= tx.len
      /\ tx.addr = Wrapped(oreq.addr, oreq.len, beatBar)
      /\ tx \in Transaction /\ tx.addr \in Addr
  BY TransactionType DEF BusInv, Owner, GrantHeld, TypeOK, oreq, beatBar
<1>2. oresp = [ready |-> TRUE, last |-> tx.N = tx.len,
               data |-> IF tx.is_write THEN ZeroWord ELSE mem[tx.addr]]
  BY NoResponses DEF oresp, Device!DeviceResp, Device!Last
<1>3. Promise!Here = tx.addr
  BY <1>1 DEF Promise!Here, Promise!Wrapped, Wrapped
<1>4. /\ tx.N \in Nat /\ tx.N >= 1 /\ beatBar = tx.N - 1 /\ beatBar + 1 = tx.N
  BY <1>1, BusAssumption DEF Transaction, beatBar
<1>5. oresp = Promise!Answer
  BY <1>1, <1>2, <1>3, <1>4 DEF Promise!Answer, Promise!ZeroWord, ZeroWord
<1>6. rsp' = oresp
  <2>1. oresp.ready /\ (oreq.write => oresp.data = ZeroWord) BY <1>1, <1>2
  <2>2. [oresp EXCEPT !.data = oresp.data] = oresp BY <1>2
  <2>3. rsp' = [oresp EXCEPT !.data = IF oreq.write THEN ZeroWord ELSE oresp.data]
    BY <1>1, <2>1 DEF Next, Latched
  <2>4. QED BY <2>1, <2>2, <2>3
<1>7. Device!DeviceEdge(oreq, strobe, data) BY DEF Next
<1>8. beatBar' = IF oresp.last THEN 0 ELSE beatBar + 1
  <2>1. tx' = IF tx.N = tx.len THEN Device!NoTransaction
              ELSE [tx EXCEPT !.N = @ + 1, !.addr = Device!NextAddr(tx.addr, tx.len)]
    BY <1>7 DEF Device!DeviceEdge, Device!Last
  <2>2. CASE tx.N = tx.len
    BY <1>2, <2>1, <2>2 DEF beatBar, Device!NoTransaction
  <2>3. CASE tx.N # tx.len
    <3>1. tx'.busy = TRUE /\ tx'.N = tx.N + 1 BY <1>1, <2>1, <2>3 DEF Transaction
    <3>2. beatBar' = tx'.N - 1 BY <3>1 DEF beatBar
    <3>3. tx'.N - 1 = beatBar + 1 BY <1>4, <3>1
    <3>4. beatBar' = beatBar + 1 BY <3>2, <3>3
    <3>5. oresp.last = FALSE BY <1>2, <2>3
    <3>6. QED BY <3>4, <3>5
  <2>4. QED BY <2>2, <2>3
<1>9. mem' = IF oreq.write
               THEN [mem EXCEPT ![tx.addr] = Merge(mem[tx.addr], oreq.strobe, oreq.data)]
               ELSE mem
  BY <1>1, <1>7 DEF Device!DeviceEdge, strobe, data, Device!Merge, Merge
<1>10. oreq' \in Follows(oreq, oresp)
  <2>1. busy' = ~oresp.last /\ grant' = grant BY <1>1, GrantEdge
  <2>2. CASE oresp.last
    BY <1>1, <2>1, <2>2 DEF oreq, Follows
  <2>3. CASE ~oresp.last
    <3>1. oreq' = ireqs'[grant] BY <2>1, <2>3 DEF oreq
    <3>2. resp(grant) = oresp BY <1>1 DEF resp, iresp
    <3>3. QED BY <1>1, <3>1, <3>2, EdgeTypes
  <2>4. QED BY <2>2, <2>3
<1>11. oreq' \in Promise!Follows(oreq, Promise!Answer)
  BY <1>5, <1>10 DEF Promise!Follows, Follows, Promise!Word, Word, Promise!Silent, Silent
<1>12. mem' = IF oreq.write
                THEN [mem EXCEPT ![Promise!Here] =
                         Promise!Merge(mem[Promise!Here], oreq.strobe, oreq.data)]
                ELSE mem
  BY <1>3, <1>9 DEF Promise!Merge, Merge
<1>13. QED
  BY <1>1, <1>5, <1>6, <1>8, <1>11, <1>12 DEF Promise!Serve

\* Arbiter and simulation memory together are the memory the bus promises,
\* for any number of masters: between a grant and its last beat the beats of
\* one request are served in order, each write beat taking effect on the word
\* it is answered for and each read beat showing it (memory.h:87).
THEOREM DeviceImplementsBusMemory == Spec => DeviceIsBusMemory
<1>1. Init => Promise!Init /\ AsRaised
  <2> SUFFICES ASSUME Init PROVE Promise!Init /\ AsRaised OBVIOUS
  <2>1. ~busy /\ ~tx.busy
    BY DEF Init, ArbiterInit, Device!DeviceInit, Device!NoTransaction
  <2>2. oreq = Silent /\ beatBar = 0 BY <2>1 DEF oreq, beatBar
  <2>3. mem \in [Addr -> Promise!Word]
    BY ByteAssumption DEF Init, ZeroWord, Promise!Word
  <2>4. AsRaised BY DEF Init, AsRaised
  <2>5. QED BY <2>2, <2>3, <2>4
    DEF Init, Promise!Init, Promise!Silent, Silent, Promise!NoResponse, NoResponse,
        Promise!ZeroWord, ZeroWord, Promise!Addr, Addr, Promise!Offsets, Offsets
<1>2. BusInv /\ AsRaised /\ [Next]_vars => AsRaised'
  <2>1. ASSUME AsRaised, UNCHANGED vars PROVE AsRaised'
    BY <2>1 DEF vars, AsRaised
  <2>2. QED BY <2>1, RaisedStep
<1>3. BusInv /\ AsRaised /\ [Next]_vars => [Promise!Next]_(Promise!busvars)
  <2>1. ASSUME UNCHANGED vars PROVE UNCHANGED Promise!busvars
    BY <2>1 DEF vars, Promise!busvars, oreq, beatBar
  <2>2. ASSUME BusInv, AsRaised, Next PROVE Promise!Next
    BY <2>2, QuietMaps, BeatMaps DEF Promise!Next
  <2>3. QED BY <2>1, <2>2
<1>4. QED
  BY <1>1, <1>2, <1>3, BusInvariant, PTL DEF Spec, DeviceIsBusMemory, Promise!Spec
=============================================================================
