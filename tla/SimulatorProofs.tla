-------------------------- MODULE SimulatorProofs ---------------------------
(***************************************************************************)
(* Two parts of the simulator's own code, which share no state: the        *)
(* parallel test runner for any number of workers and tests, and the two   *)
(* consoles for any number of bytes and any size of the buffer.            *)
(*                                                                         *)
(* The runner: passed counts requests and not tests, so that it counts the *)
(* tests that have ended rests on two facts of IInv: every test handed out *)
(* is counted or owed by one worker (Counting), and every test handed out  *)
(* has ended or is held by such a worker (Ownership).                      *)
(*                                                                         *)
(* The consoles.  Input: only sync takes bytes from the queue and only at  *)
(* its front, so that what RXD returned stays at the front until then, and *)
(* a program that has read RXD is between two syncs (Reading).  Screen: at *)
(* most one character is on its way from the store to checkout_confreg,    *)
(* and a buffer is used with the status line only (Writing).               *)
(***************************************************************************)
EXTENDS Dispatch, Confreg, FiniteSetTheorems, SequenceTheorems, TLAPS

-----------------------------------------------------------------------------
(* The test runner: its invariant.                                         *)

\* Workers that owe the master the end of a test, and workers told to leave.
Owing == {i \in Workers : ~first[i] /\ open[i]}
Left  == {i \in Workers : ~first[i] /\ ~open[i]}

\* The test a worker has been given last, whether it has read it or not.
Holds(i) == IF reply[i] \in Tests THEN reply[i] ELSE job[i]
Ended(i) == job[i] = Nothing \/ job[i] \in finished

\* Types, with the counters bounded by the facts below only.
Types ==
    /\ wpc \in [Workers -> {"unborn", "ask", "wait", "run", "exited", "crashed", "killed"}]
    /\ job \in [Workers -> Tests \cup {Leave, Nothing}]
    /\ request \in [Workers -> BOOLEAN]
    /\ reply \in [Workers -> Tests \cup {Leave, Nothing}]
    /\ phase \in {"spawn", "select", "serve", "reap", "done"}
    /\ spawned \in 0 .. N /\ exited \in Nat /\ reaped \in 0 .. N
    /\ ready \subseteq Workers
    /\ first \in [Workers -> BOOLEAN] /\ open \in [Workers -> BOOLEAN]
    /\ dispatched \in 0 .. Total /\ passed \in Nat
    /\ failed \in BOOLEAN /\ closed \in BOOLEAN
    /\ begun \subseteq Tests /\ finished \subseteq Tests

\* Where a worker is, and what is in its pipes and in the master's books then.
Place(i) ==
    /\ wpc[i] = "unborn" <=> i >= spawned
    /\ wpc[i] = "unborn" => first[i] /\ ~open[i] /\ reply[i] = Nothing /\ job[i] = Nothing
    /\ request[i] => /\ wpc[i] \in {"wait", "exited", "killed"}
                     /\ open[i] /\ reply[i] = Nothing /\ Ended(i)
    /\ wpc[i] = "ask" => open[i] /\ reply[i] = Nothing /\ Ended(i)
    /\ wpc[i] = "wait" => Ended(i) /\ (request[i] \/ reply[i] # Nothing)
    /\ wpc[i] = "run" => /\ ~first[i] /\ open[i] /\ reply[i] = Nothing
                         /\ job[i] \in Tests /\ job[i] \in begun
    /\ wpc[i] = "crashed" => ~first[i] /\ open[i]
    /\ Gone(i) /\ open[i] /\ ~closed => wpc[i] = "crashed"
    /\ reply[i] = Leave => ~open[i]
    /\ reply[i] \in Tests => ~first[i] /\ open[i]
    /\ i < spawned /\ ~open[i] => ~first[i]
Places == \A i \in Workers : Place(i)

Phases ==
    /\ phase = "spawn" <=> spawned < N
    /\ phase \in {"spawn", "select", "serve"} => ~closed /\ ~failed
    /\ phase \in {"reap", "done"} => closed /\ (~failed => exited = N)
    /\ failed => \E i \in Workers : wpc[i] = "crashed"
    /\ \A i \in ready : open[i] /\ (request[i] \/ wpc[i] = "crashed")

Counting ==
    /\ dispatched = passed + Cardinality(Owing)
    /\ exited = Cardinality(Left)
    /\ Left # {} => dispatched = Total

Ownership ==
    /\ begun \subseteq 0 .. dispatched - 1 /\ finished \subseteq begun
    /\ \A i \in Workers : reply[i] \in Tests => reply[i] < dispatched /\ reply[i] \notin begun
    /\ \A i, j \in Workers : reply[i] \in Tests /\ reply[i] = reply[j] => i = j
    /\ \A t \in 0 .. dispatched - 1 : t \in finished \/ \E i \in Owing : Holds(i) = t

IInv == Types /\ Places /\ Phases /\ Counting /\ Ownership
-----------------------------------------------------------------------------
LEMMA WorkersFinite == IsFiniteSet(Workers) /\ Cardinality(Workers) = N
  BY FS_Interval, DispatchAssumption DEF Workers

\* What Owing and Left are made of is finite in every state.
LEMMA BooksFinite ==
    /\ IsFiniteSet(Owing) /\ Cardinality(Owing) \in Nat
    /\ IsFiniteSet(Left) /\ Cardinality(Left) \in Nat
  BY WorkersFinite, FS_Subset, FS_CardinalityType DEF Owing, Left

\* A step that leaves the books alone keeps the counts.
LEMMA CountingKept ==
  ASSUME Counting, UNCHANGED <<first, open, exited, passed, dispatched>>
  PROVE  Counting'
  BY DEF Counting, Owing, Left

\* The loop over the workers takes the lowest one that is left.
LEMMA LowestExists ==
  ASSUME NEW S, S \subseteq Workers, S # {}
  PROVE  \E i \in S : \A j \in S : i <= j
<1>0. S \subseteq Nat BY DispatchAssumption DEF Workers
<1>1. PICK i \in S : \A j \in S : ~ (<<j, i>> \in OpToRel(<, Nat))
  BY <1>0, NatLessThanWellFounded, WFMin
<1>2. ASSUME NEW j \in S PROVE i <= j
  <2>1. <<j, i>> \in Nat \X Nat BY <1>0
  <2>2. ~ (j < i) BY <1>1, <2>1 DEF OpToRel
  <2>3. i \in Nat /\ j \in Nat BY <1>0
  <2>4. QED BY <2>2, <2>3
<1>3. QED BY <1>2

LEMMA InitInv == Init => IInv
<1> SUFFICES ASSUME Init PROVE IInv OBVIOUS
<1>1. Types
  <2>1. /\ wpc \in [Workers -> {"unborn", "ask", "wait", "run", "exited", "crashed", "killed"}]
        /\ job \in [Workers -> Tests \cup {Leave, Nothing}]
        /\ request \in [Workers -> BOOLEAN]
        /\ reply \in [Workers -> Tests \cup {Leave, Nothing}]
        /\ first \in [Workers -> BOOLEAN] /\ open \in [Workers -> BOOLEAN]
    BY DEF Init
  <2>2. /\ phase \in {"spawn", "select", "serve", "reap", "done"}
        /\ ready \subseteq Workers /\ begun \subseteq Tests /\ finished \subseteq Tests
        /\ failed \in BOOLEAN /\ closed \in BOOLEAN
    BY DEF Init
  <2>3. /\ spawned \in 0 .. N /\ exited \in Nat /\ reaped \in 0 .. N
        /\ dispatched \in 0 .. Total /\ passed \in Nat
    BY DispatchAssumption DEF Init
  <2>4. QED BY <2>1, <2>2, <2>3 DEF Types
<1>2. Places BY DispatchAssumption DEF Init, Places, Place, Workers, Tests, Leave, Nothing, Gone
<1>3. Phases BY DispatchAssumption DEF Init, Phases
<1>4. Owing = {} /\ Left = {} BY DEF Init, Owing, Left
<1>5. Counting BY <1>4, FS_EmptySet DEF Init, Counting
<1>6. Ownership BY DispatchAssumption DEF Init, Ownership, Tests, Nothing
<1>7. QED BY <1>1, <1>2, <1>3, <1>5, <1>6 DEF IInv

LEMMA AskKeeps ==
  ASSUME IInv, NEW k \in Workers, Ask(k)
  PROVE  IInv'
<1> USE DispatchAssumption DEF IInv
<1>1. Types' BY DEF Types, Ask, Workers, Tests, Leave, Nothing, mastervars, workervars
<1>2. Places' BY DEF Types, Places, Place, Gone, Ended, Ask, Workers, Tests, Leave, Nothing, mastervars, workervars
<1>3. Phases' BY DEF Types, Places, Place, Phases, Gone, Ask, Workers, Tests, Leave, Nothing, mastervars, workervars
<1>4. Counting' BY CountingKept DEF Ask, mastervars, workervars
<1>5. Ownership' BY DEF Types, Places, Place, Ownership, Owing, Holds, Ended, Ask, Workers, Tests, Leave, Nothing, mastervars, workervars
<1>6. QED BY <1>1, <1>2, <1>3, <1>4, <1>5

LEMMA ReceiveKeeps ==
  ASSUME IInv, NEW k \in Workers, Receive(k)
  PROVE  IInv'
<1> USE DispatchAssumption DEF IInv
<1>1. Types'
  <2>1. reply[k] \in Tests \cup {Leave} /\ job' \in [Workers -> Tests \cup {Leave, Nothing}]
    BY DEF Types, Receive
  <2>2. wpc' \in [Workers -> {"unborn", "ask", "wait", "run", "exited", "crashed", "killed"}]
    BY DEF Types, Receive
  <2>3. reply' \in [Workers -> Tests \cup {Leave, Nothing}]
    BY DEF Types, Receive
  <2>4. begun' \subseteq Tests
    <3>1. ~(reply[k] < 0) => reply[k] \in Tests BY <2>1 DEF Leave
    <3>2. QED BY <3>1 DEF Types, Receive
  <2>5. QED BY <2>1, <2>2, <2>3, <2>4 DEF Types, Receive, mastervars
<1>2. Places' BY DEF Types, Places, Place, Gone, Ended, Receive, Workers, Tests, Leave, Nothing, mastervars, workervars
<1>3. Phases' BY DEF Types, Places, Place, Phases, Gone, Receive, Workers, Tests, Leave, Nothing, mastervars, workervars
<1>4. Counting' BY CountingKept DEF Receive, mastervars, workervars
<1>5. Ownership'
  <2>1. CASE reply[k] < 0
    <3>1. reply[k] = Leave BY <2>1 DEF Types, Receive, Tests, Leave, Nothing
    <3>2. /\ reply' = [reply EXCEPT ![k] = Nothing] /\ job' = [job EXCEPT ![k] = reply[k]]
          /\ UNCHANGED <<begun, first, open, dispatched, finished>>
      BY <2>1 DEF Receive, mastervars
    <3>3. \A i \in Workers : i # k => reply'[i] = reply[i] /\ job'[i] = job[i]
      BY <3>2 DEF Types
    <3>4. reply'[k] = Nothing /\ Nothing \notin Tests
      BY <3>2 DEF Types, Tests, Nothing
    <3>5. k \notin Owing
      BY <3>1 DEF Places, Place, Owing
    <3>6. Owing' = Owing /\ \A i \in Owing : Holds(i)' = Holds(i)
      BY <3>2, <3>3, <3>5 DEF Owing, Holds
    <3>7. \A i \in Workers : reply'[i] \in Tests => i # k /\ reply'[i] = reply[i]
      BY <3>3, <3>4
    <3>8. \A i \in Workers : reply'[i] \in Tests => reply'[i] < dispatched' /\ reply'[i] \notin begun'
      BY <3>2, <3>7 DEF Ownership
    <3>9. \A i, j \in Workers : reply'[i] \in Tests /\ reply'[i] = reply'[j] => i = j
      BY <3>7 DEF Ownership
    <3>10. \A t \in 0 .. dispatched' - 1 : t \in finished' \/ \E i \in Owing' : Holds(i)' = t
      BY <3>2, <3>6 DEF Ownership
    <3>11. QED BY <3>2, <3>8, <3>9, <3>10 DEF Ownership
  <2>2. CASE ~(reply[k] < 0)
    <3>1. reply[k] \in Tests BY <2>2 DEF Types, Receive, Tests, Leave, Nothing
    <3>2. /\ reply' = [reply EXCEPT ![k] = Nothing] /\ job' = [job EXCEPT ![k] = reply[k]]
          /\ begun' = begun \cup {reply[k]}
          /\ UNCHANGED <<first, open, dispatched, finished>>
      BY <2>2 DEF Receive, mastervars
    <3>3. /\ begun' \subseteq 0 .. dispatched' - 1 /\ finished' \subseteq begun'
      <4>1. reply[k] \in 0 .. dispatched - 1
        BY <3>1 DEF Types, Ownership, Tests
      <4>2. QED BY <3>2, <4>1 DEF Ownership
    <3>4. \A i \in Workers : reply'[i] \in Tests => reply'[i] < dispatched' /\ reply'[i] \notin begun'
      BY <3>1, <3>2 DEF Types, Ownership, Tests, Nothing
    <3>5. \A i, j \in Workers : reply'[i] \in Tests /\ reply'[i] = reply'[j] => i = j
      BY <3>1, <3>2 DEF Types, Ownership, Tests, Nothing
    <3>6. Owing' = Owing /\ \A i \in Workers : Holds(i)' = Holds(i)
      BY <3>1, <3>2 DEF Types, Owing, Holds, Tests, Nothing
    <3>7. \A t \in 0 .. dispatched' - 1 : t \in finished' \/ \E i \in Owing' : Holds(i)' = t
      BY <3>2, <3>6 DEF Ownership, Owing
    <3>8. QED BY <3>3, <3>4, <3>5, <3>7 DEF Ownership
  <2>3. QED BY <2>1, <2>2
<1>6. QED BY <1>1, <1>2, <1>3, <1>4, <1>5

LEMMA EndOfFileKeeps ==
  ASSUME IInv, NEW k \in Workers, EndOfFile(k)
  PROVE  IInv'
<1> USE DispatchAssumption DEF IInv
<1>1. Types' BY DEF Types, EndOfFile, Workers, Tests, Leave, Nothing, mastervars, workervars
<1>2. Places' BY DEF Types, Places, Place, Gone, Ended, EndOfFile, Workers, Tests, Leave, Nothing, mastervars, workervars
<1>3. Phases' BY DEF Types, Places, Place, Phases, Gone, EndOfFile, Workers, Tests, Leave, Nothing, mastervars, workervars
<1>4. Counting' BY CountingKept DEF EndOfFile, mastervars, workervars
<1>5. Ownership' BY DEF Types, Places, Place, Ownership, Owing, Holds, Ended, EndOfFile, Workers, Tests, Leave, Nothing, mastervars, workervars
<1>6. QED BY <1>1, <1>2, <1>3, <1>4, <1>5

LEMMA FinishKeeps ==
  ASSUME IInv, NEW k \in Workers, Finish(k)
  PROVE  IInv'
<1> USE DispatchAssumption DEF IInv
<1>1. Types'
  <2>1. wpc' \in [Workers -> {"unborn", "ask", "wait", "run", "exited", "crashed", "killed"}]
    BY DEF Types, Finish
  <2>2. finished' \subseteq Tests
    BY DEF Types, Places, Place, Finish
  <2>3. QED BY <2>1, <2>2 DEF Types, Finish, mastervars
<1>2. Places' BY DEF Types, Places, Place, Gone, Ended, Finish, Workers, Tests, Leave, Nothing, mastervars, workervars
<1>3. Phases' BY DEF Types, Places, Place, Phases, Gone, Finish, Workers, Tests, Leave, Nothing, mastervars, workervars
<1>4. Counting' BY CountingKept DEF Finish, mastervars, workervars
<1>5. Ownership'
  <2>1. UNCHANGED <<reply, job, first, open, dispatched, begun>> /\ finished \subseteq finished'
    BY DEF Finish, mastervars
  <2>2. finished' \subseteq begun
    BY DEF Places, Place, Ownership, Finish
  <2>3. QED BY <2>1, <2>2 DEF Ownership, Owing, Holds
<1>6. QED BY <1>1, <1>2, <1>3, <1>4, <1>5

LEMMA CrashKeeps ==
  ASSUME IInv, NEW k \in Workers, Crash(k)
  PROVE  IInv'
<1> USE DispatchAssumption DEF IInv
<1>1. Types' BY DEF Types, Crash, Workers, Tests, Leave, Nothing, mastervars, workervars
<1>2. Places' BY DEF Types, Places, Place, Gone, Ended, Crash, Workers, Tests, Leave, Nothing, mastervars, workervars
<1>3. Phases' BY DEF Types, Places, Place, Phases, Gone, Crash, Workers, Tests, Leave, Nothing, mastervars, workervars
<1>4. Counting' BY CountingKept DEF Crash, mastervars, workervars
<1>5. Ownership' BY DEF Types, Places, Place, Ownership, Owing, Holds, Ended, Crash, Workers, Tests, Leave, Nothing, mastervars, workervars
<1>6. QED BY <1>1, <1>2, <1>3, <1>4, <1>5

LEMMA SpawnKeeps ==
  ASSUME IInv, Spawn
  PROVE  IInv'
<1> USE DispatchAssumption DEF IInv
<1>0. spawned \in Workers /\ spawned + 1 \in 0 .. N /\ wpc[spawned] = "unborn"
  BY DEF Types, Places, Place, Phases, Spawn, Workers
<1>1. Types'
  <2>1. wpc' \in [Workers -> {"unborn", "ask", "wait", "run", "exited", "crashed", "killed"}]
    BY <1>0 DEF Types, Spawn
  <2>2. open' \in [Workers -> BOOLEAN] /\ phase' \in {"spawn", "select"}
    BY <1>0 DEF Types, Spawn
  <2>3. QED BY <1>0, <2>1, <2>2 DEF Types, Spawn
<1>2. Places'
  <2>1. ASSUME NEW i \in Workers, i = spawned PROVE Place(i)'
    <3>1. /\ wpc'[i] = "ask" /\ open'[i] /\ spawned' = i + 1
          /\ UNCHANGED <<job, request, reply, first, closed, begun, finished>>
      BY <1>0, <2>1 DEF Types, Spawn
    <3>2. first[i] /\ reply[i] = Nothing /\ ~request[i] /\ job[i] = Nothing
      BY <1>0, <2>1 DEF Types, Places, Place
    <3>3. ~(i >= spawned')
      BY <3>1, DispatchAssumption DEF Workers
    <3>4. Nothing \notin Tests /\ Nothing # Leave
      BY DEF Nothing, Tests, Leave
    <3>5. QED BY <3>1, <3>2, <3>3, <3>4 DEF Place, Gone, Ended
  <2>2. ASSUME NEW i \in Workers, i # spawned PROVE Place(i)'
    <3>1. /\ wpc'[i] = wpc[i] /\ open'[i] = open[i] /\ spawned' = spawned + 1
          /\ UNCHANGED <<job, request, reply, first, closed, begun, finished>>
      BY <2>2 DEF Types, Spawn
    <3>2. i >= spawned' <=> i >= spawned
      BY <2>2, <3>1 DEF Types, Workers
    <3>3. i < spawned' <=> i < spawned
      BY <2>2, <3>1 DEF Types, Workers
    <3>4. QED BY <3>1, <3>2, <3>3 DEF Places, Place, Gone, Ended
  <2>3. QED BY <2>1, <2>2 DEF Places
<1>3. Phases' BY DEF Types, Places, Place, Phases, Gone, Spawn, Workers, Tests, Leave, Nothing, mastervars, workervars
<1>4. Counting'
  <2>1. first[spawned] BY <1>0 DEF Places, Place
  <2>2. Owing' = Owing /\ Left' = Left
    BY <1>0, <2>1 DEF Types, Spawn, Places, Place, Owing, Left
  <2>3. QED BY <2>2 DEF Counting, Spawn
<1>5. Ownership' BY DEF Types, Places, Place, Ownership, Owing, Holds, Ended, Spawn, Workers, Tests, Leave, Nothing, mastervars, workervars
<1>6. QED BY <1>1, <1>2, <1>3, <1>4, <1>5

LEMMA SelectKeeps ==
  ASSUME IInv, Select
  PROVE  IInv'
<1> USE DispatchAssumption DEF IInv
<1>1. Types' BY DEF Types, Select, Readable, Workers, Tests, Leave, Nothing, mastervars, workervars
<1>2. Places' BY DEF Types, Places, Place, Gone, Ended, Select, Readable, Workers, Tests, Leave, Nothing, mastervars, workervars
<1>3. Phases' BY DEF Types, Places, Place, Phases, Gone, Select, Readable, Workers, Tests, Leave, Nothing, mastervars, workervars
<1>4. Counting' BY CountingKept DEF Select, Readable, mastervars, workervars
<1>5. Ownership' BY DEF Types, Places, Place, Ownership, Owing, Holds, Ended, Select, Readable, Workers, Tests, Leave, Nothing, mastervars, workervars
<1>6. QED BY <1>1, <1>2, <1>3, <1>4, <1>5

LEMMA AbandonKeeps ==
  ASSUME IInv, Abandon
  PROVE  IInv'
<1> USE DispatchAssumption DEF IInv
<1>1. Types' BY DEF Types, Abandon, Lowest, Workers, Tests, Leave, Nothing, mastervars, workervars
<1>2. Places' BY DEF Types, Places, Place, Gone, Ended, Abandon, Lowest, Workers, Tests, Leave, Nothing, mastervars, workervars
<1>3. Phases'
  <2>1. Lowest(ready) \in ready
    <3>1. ready \subseteq Workers /\ ready # {} BY DEF Types, Abandon
    <3>2. \E i \in ready : \A j \in ready : i <= j
      BY <3>1, LowestExists
    <3>3. QED BY <3>2 DEF Lowest
  <2>2. wpc[Lowest(ready)] = "crashed"
    BY <2>1 DEF Phases, Abandon
  <2>3. QED BY <2>1, <2>2 DEF Types, Phases, Abandon, workervars
<1>4. Counting' BY CountingKept DEF Abandon, Lowest, mastervars, workervars
<1>5. Ownership' BY DEF Types, Places, Place, Ownership, Owing, Holds, Ended, Abandon, Lowest, Workers, Tests, Leave, Nothing, mastervars, workervars
<1>6. QED BY <1>1, <1>2, <1>3, <1>4, <1>5

LEMMA CloseKeeps ==
  ASSUME IInv, Close
  PROVE  IInv'
<1> USE DispatchAssumption DEF IInv
<1>1. Types' BY DEF Types, Close, Workers, Tests, Leave, Nothing, mastervars, workervars
<1>2. Places' BY DEF Types, Places, Place, Gone, Ended, Close, Workers, Tests, Leave, Nothing, mastervars, workervars
<1>3. Phases' BY DEF Types, Places, Place, Phases, Gone, Close, Workers, Tests, Leave, Nothing, mastervars, workervars
<1>4. Counting' BY CountingKept DEF Close, mastervars, workervars
<1>5. Ownership' BY DEF Types, Places, Place, Ownership, Owing, Holds, Ended, Close, Workers, Tests, Leave, Nothing, mastervars, workervars
<1>6. QED BY <1>1, <1>2, <1>3, <1>4, <1>5

LEMMA KillKeeps ==
  ASSUME IInv, Kill
  PROVE  IInv'
<1> USE DispatchAssumption DEF IInv
<1>1. Types' BY DEF Types, Kill, Workers, Tests, Leave, Nothing, mastervars, workervars
<1>2. Places'
  <2>1. reaped \in Workers /\ wpc[reaped] # "unborn" /\ closed
    <3>1. reaped \in Workers /\ closed BY DispatchAssumption DEF Types, Phases, Kill, Workers
    <3>2. ~(spawned < N) BY DEF Phases, Kill
    <3>3. ~(reaped >= spawned) BY <3>1, <3>2, DispatchAssumption DEF Types, Workers
    <3>4. QED BY <3>1, <3>3 DEF Places, Place
  <2>2. ASSUME NEW i \in Workers PROVE Place(i)'
    <3>1. UNCHANGED <<job, request, reply, spawned, first, open, closed, begun, finished>>
      BY DEF Kill, mastervars
    <3>2. wpc'[i] = IF i = reaped THEN "killed" ELSE wpc[i]
      BY DEF Types, Kill
    <3>3. QED BY <2>1, <3>1, <3>2 DEF Places, Place, Gone, Ended
  <2>3. QED BY <2>2 DEF Places
<1>3. Phases' BY DEF Types, Places, Place, Phases, Gone, Kill, Workers, Tests, Leave, Nothing, mastervars, workervars
<1>4. Counting' BY CountingKept DEF Kill, mastervars, workervars
<1>5. Ownership' BY DEF Types, Places, Place, Ownership, Owing, Holds, Ended, Kill, Workers, Tests, Leave, Nothing, mastervars, workervars
<1>6. QED BY <1>1, <1>2, <1>3, <1>4, <1>5

LEMMA ReapKeeps ==
  ASSUME IInv, Reap
  PROVE  IInv'
<1> USE DispatchAssumption DEF IInv
<1>1. Types' BY DEF Types, Reap, Workers, Tests, Leave, Nothing, mastervars, workervars
<1>2. Places' BY DEF Types, Places, Place, Gone, Ended, Reap, Workers, Tests, Leave, Nothing, mastervars, workervars
<1>3. Phases' BY DEF Types, Places, Place, Phases, Gone, Reap, Workers, Tests, Leave, Nothing, mastervars, workervars
<1>4. Counting' BY CountingKept DEF Reap, mastervars, workervars
<1>5. Ownership' BY DEF Types, Places, Place, Ownership, Owing, Holds, Ended, Reap, Workers, Tests, Leave, Nothing, mastervars, workervars
<1>6. QED BY <1>1, <1>2, <1>3, <1>4, <1>5

\* The worker that is served waits for its answer and has nothing in hand.
LEMMA Served ==
  ASSUME IInv, Serve
  PROVE  \E j \in Workers :
             /\ j = Lowest(ready) /\ j \in ready
             /\ request[j] /\ open[j] /\ reply[j] = Nothing /\ Ended(j)
             /\ wpc[j] = "wait" /\ ~closed /\ ~failed
<1> USE DEF IInv
<1> DEFINE j == Lowest(ready)
<1>1. j \in ready /\ j \in Workers
  <2>1. ready \subseteq Workers /\ ready # {} BY DEF Types, Serve
  <2>2. \E i \in ready : \A k \in ready : i <= k BY <2>1, LowestExists
  <2>3. QED BY <2>1, <2>2 DEF Lowest
<1>2. request[j] /\ phase = "serve" BY DEF Serve
<1>3. ~closed /\ ~failed BY <1>2 DEF Phases
<1>4. open[j] /\ reply[j] = Nothing /\ Ended(j) /\ wpc[j] \in {"wait", "exited", "killed"}
  BY <1>1, <1>2 DEF Places, Place
<1>5. wpc[j] = "wait"
  BY <1>1, <1>3, <1>4 DEF Places, Place, Gone
<1>6. QED BY <1>1, <1>2, <1>3, <1>4, <1>5

\* What a turn of the loop does to the books and to the counts of them.
LEMMA ServeCounts ==
  ASSUME IInv, Serve
  PROVE  Counting' /\ dispatched' \in 0 .. Total /\ passed' \in Nat /\ exited' \in Nat
<1> USE DEF IInv
<1>0. PICK j \in Workers :
        /\ open[j]
        /\ first' = [first EXCEPT ![j] = FALSE] /\ passed' = Passed(j) /\ Answer(j)
  BY Served DEF Serve
<1>1. /\ dispatched \in 0 .. Total /\ passed \in Nat /\ exited \in Nat /\ Total \in Nat
      /\ first \in [Workers -> BOOLEAN] /\ open \in [Workers -> BOOLEAN]
  BY DispatchAssumption DEF Types
<1>2. IsFiniteSet(Owing) /\ IsFiniteSet(Left)
  BY BooksFinite
<1>3. CASE dispatched < Total
  <2>1. dispatched' = dispatched + 1 /\ UNCHANGED <<open, exited>>
    BY <1>0, <1>3 DEF Answer
  <2>2. Left' = Left
    BY <1>0, <1>1, <2>1 DEF Left
  <2>3. Left = {}
    BY <1>1, <1>3 DEF Counting
  <2>4. CASE first[j]
    <3>1. Owing' = Owing \cup {j} /\ j \notin Owing
      BY <1>0, <1>1, <2>1, <2>4 DEF Owing
    <3>2. Cardinality(Owing') = Cardinality(Owing) + 1
      BY <1>2, <3>1, FS_AddElement
    <3>3. passed' = passed BY <1>0, <2>4 DEF Passed
    <3>4. QED BY <1>1, <1>3, <2>1, <2>2, <2>3, <3>2, <3>3, BooksFinite DEF Counting
  <2>5. CASE ~first[j]
    <3>1. Owing' = Owing
      BY <1>0, <1>1, <2>1, <2>5 DEF Owing
    <3>2. passed' = passed + 1 BY <1>0, <2>5 DEF Passed
    <3>3. QED BY <1>1, <1>3, <2>1, <2>2, <2>3, <3>1, <3>2, BooksFinite DEF Counting
  <2>6. QED BY <2>4, <2>5
<1>4. CASE ~(dispatched < Total)
  <2>1. /\ open' = [open EXCEPT ![j] = FALSE] /\ exited' = exited + 1
        /\ dispatched' = dispatched /\ dispatched = Total
    BY <1>0, <1>1, <1>4 DEF Answer
  <2>2. Left' = Left \cup {j} /\ j \notin Left
    BY <1>0, <1>1, <2>1 DEF Left
  <2>3. Cardinality(Left') = Cardinality(Left) + 1
    BY <1>2, <2>2, FS_AddElement
  <2>4. CASE first[j]
    <3>1. Owing' = Owing
      BY <1>0, <1>1, <2>1, <2>4 DEF Owing
    <3>2. passed' = passed BY <1>0, <2>4 DEF Passed
    <3>3. QED BY <1>1, <2>1, <2>3, <3>1, <3>2, BooksFinite DEF Counting
  <2>5. CASE ~first[j]
    <3>1. Owing' = Owing \ {j} /\ j \in Owing
      BY <1>0, <1>1, <2>1, <2>5 DEF Owing
    <3>2. Cardinality(Owing') = Cardinality(Owing) - 1
      BY <1>2, <3>1, FS_RemoveElement
    <3>3. passed' = passed + 1 BY <1>0, <2>5 DEF Passed
    <3>4. QED BY <1>1, <2>1, <2>3, <3>2, <3>3, BooksFinite DEF Counting
  <2>6. QED BY <2>4, <2>5
<1>5. QED BY <1>3, <1>4

LEMMA ServeKeeps ==
  ASSUME IInv, Serve
  PROVE  IInv'
<1> USE DEF IInv
<1>0. PICK j \in Workers :
      /\ j = Lowest(ready) /\ j \in ready
      /\ request[j] /\ open[j] /\ reply[j] = Nothing /\ Ended(j)
      /\ wpc[j] = "wait" /\ ~closed /\ ~failed
  BY Served
<1>1. /\ request' = [request EXCEPT ![j] = FALSE]
      /\ first' = [first EXCEPT ![j] = FALSE]
      /\ ready' = ready \ {j}
      /\ phase = "serve" /\ phase' \in {"select", "serve"}
      /\ Answer(j)
      /\ UNCHANGED <<wpc, job, spawned, failed, closed, reaped, begun, finished>>
  BY <1>0 DEF Serve
<1>2. dispatched \in 0 .. Total /\ Total \in Nat
  BY DispatchAssumption DEF Types
<1>3. CASE dispatched < Total
  <2>1. /\ reply' = [reply EXCEPT ![j] = dispatched] /\ dispatched' = dispatched + 1
        /\ UNCHANGED <<open, exited>>
    BY <1>1, <1>3 DEF Answer
  <2>2. dispatched \in Tests
    BY <1>2, <1>3 DEF Tests
  <2>3. Types'
    <3>1. reply' \in [Workers -> Tests \cup {Leave, Nothing}]
      BY <2>1, <2>2 DEF Types
    <3>2. /\ request' \in [Workers -> BOOLEAN] /\ first' \in [Workers -> BOOLEAN]
          /\ ready' \subseteq Workers
      BY <1>1 DEF Types
    <3>3. QED BY <1>1, <2>1, <3>1, <3>2, ServeCounts DEF Types
  <2>4. Places'
    <3>1. ASSUME NEW i \in Workers, i # j PROVE Place(i)'
      <4>1. /\ wpc'[i] = wpc[i] /\ request'[i] = request[i] /\ reply'[i] = reply[i]
            /\ first'[i] = first[i]
            /\ UNCHANGED <<job, open, spawned, closed, begun, finished>>
        BY <1>1, <2>1, <3>1 DEF Types
      <4>2. QED BY <4>1 DEF Places, Place, Gone, Ended
    <3>2. Place(j)'
      <4>1. /\ ~request'[j] /\ reply'[j] = dispatched /\ ~first'[j]
            /\ UNCHANGED <<wpc, job, open, spawned, closed, begun, finished>>
        BY <1>0, <1>1, <2>1 DEF Types
      <4>2. dispatched # Nothing /\ dispatched # Leave
        BY <1>2 DEF Nothing, Leave
      <4>3. QED BY <1>0, <4>1, <4>2 DEF Places, Place, Gone, Ended
    <3>3. QED BY <3>1, <3>2 DEF Places
  <2>5. Phases'
    BY <1>0, <1>1, <2>1 DEF Types, Phases
  <2>6. Ownership'
    <3>0. \A i \in Workers : i # j => reply'[i] = reply[i]
      BY <2>1 DEF Types
    <3>1. begun' \subseteq 0 .. dispatched' - 1 /\ finished' \subseteq begun'
      BY <1>1, <1>2, <2>1 DEF Ownership
    <3>2. reply'[j] = dispatched /\ dispatched \notin begun
      BY <1>0, <1>2, <2>1 DEF Types, Ownership
    <3>3. \A i \in Workers : reply'[i] \in Tests => reply'[i] < dispatched' /\ reply'[i] \notin begun'
      BY <1>1, <1>2, <2>1, <3>0, <3>2 DEF Ownership, Tests
    <3>4. \A i, k \in Workers : reply'[i] \in Tests /\ reply'[i] = reply'[k] => i = k
      BY <1>2, <3>0, <3>2 DEF Ownership, Tests
    <3>5. ASSUME NEW t \in 0 .. dispatched' - 1
          PROVE  t \in finished' \/ \E i \in Owing' : Holds(i)' = t
      <4>1. j \in Owing' /\ Holds(j)' = dispatched
        BY <1>0, <1>1, <2>1, <2>2, <3>2 DEF Types, Owing, Holds
      <4>2. CASE t = dispatched BY <4>1, <4>2
      <4>3. CASE t # dispatched
        <5>1. t \in 0 .. dispatched - 1 BY <1>2, <2>1, <4>3
        <5>2. t \in finished \/ \E i \in Owing : Holds(i) = t
          BY <5>1 DEF Ownership
        <5>3. ASSUME NEW i \in Owing, Holds(i) = t, t \notin finished
              PROVE  i \in Owing' /\ Holds(i)' = t
          <6>1. i # j
            BY <1>0, <5>1, <5>3 DEF Holds, Ended, Nothing, Tests
          <6>2. QED BY <1>1, <2>1, <3>0, <5>3, <6>1 DEF Types, Owing, Holds
        <5>4. QED BY <1>1, <5>2, <5>3
      <4>4. QED BY <4>2, <4>3
    <3>6. QED BY <3>1, <3>3, <3>4, <3>5 DEF Ownership
  <2>7. QED BY <2>3, <2>4, <2>5, <2>6, ServeCounts
<1>4. CASE ~(dispatched < Total)
  <2>1. /\ reply' = [reply EXCEPT ![j] = Leave] /\ dispatched' = dispatched
        /\ open' = [open EXCEPT ![j] = FALSE]
    BY <1>1, <1>4 DEF Answer
  <2>2. Leave \notin Tests /\ Leave # Nothing /\ Nothing \notin Tests
    BY DEF Tests, Leave, Nothing
  <2>3. Types'
    <3>1. reply' \in [Workers -> Tests \cup {Leave, Nothing}]
      BY <2>1 DEF Types
    <3>2. /\ request' \in [Workers -> BOOLEAN] /\ first' \in [Workers -> BOOLEAN]
          /\ open' \in [Workers -> BOOLEAN] /\ ready' \subseteq Workers
      BY <1>1, <2>1 DEF Types
    <3>3. QED BY <1>1, <2>1, <3>1, <3>2, ServeCounts DEF Types
  <2>4. Places'
    <3>1. ASSUME NEW i \in Workers, i # j PROVE Place(i)'
      <4>1. /\ wpc'[i] = wpc[i] /\ request'[i] = request[i] /\ reply'[i] = reply[i]
            /\ first'[i] = first[i] /\ open'[i] = open[i]
            /\ UNCHANGED <<job, spawned, closed, begun, finished>>
        BY <1>1, <2>1, <3>1 DEF Types
      <4>2. QED BY <4>1 DEF Places, Place, Gone, Ended
    <3>2. Place(j)'
      <4>1. /\ ~request'[j] /\ reply'[j] = Leave /\ ~first'[j] /\ ~open'[j]
            /\ UNCHANGED <<wpc, job, spawned, closed, begun, finished>>
        BY <1>0, <1>1, <2>1 DEF Types
      <4>2. QED BY <1>0, <2>2, <4>1 DEF Places, Place, Gone, Ended
    <3>3. QED BY <3>1, <3>2 DEF Places
  <2>5. Phases'
    BY <1>0, <1>1, <2>1 DEF Types, Phases
  <2>6. Ownership'
    <3>0. \A i \in Workers : i # j => reply'[i] = reply[i] /\ open'[i] = open[i]
      BY <2>1 DEF Types
    <3>1. reply'[j] = Leave
      BY <1>0, <2>1 DEF Types
    <3>2. \A i \in Workers : reply'[i] \in Tests => reply'[i] < dispatched' /\ reply'[i] \notin begun'
      BY <1>1, <2>1, <2>2, <3>0, <3>1 DEF Ownership
    <3>3. \A i, k \in Workers : reply'[i] \in Tests /\ reply'[i] = reply'[k] => i = k
      BY <2>2, <3>0, <3>1 DEF Ownership
    <3>4. ASSUME NEW t \in 0 .. dispatched' - 1
          PROVE  t \in finished' \/ \E i \in Owing' : Holds(i)' = t
      <4>1. t \in finished \/ \E i \in Owing : Holds(i) = t
        BY <2>1 DEF Ownership
      <4>2. ASSUME NEW i \in Owing, Holds(i) = t, t \notin finished
            PROVE  i \in Owing' /\ Holds(i)' = t
        <5>1. i # j
          BY <1>0, <1>2, <2>1, <2>2, <4>2 DEF Holds, Ended, Nothing
        <5>2. QED BY <1>1, <3>0, <4>2, <5>1 DEF Types, Owing, Holds
      <4>3. QED BY <1>1, <4>1, <4>2
    <3>5. QED BY <1>1, <2>1, <3>2, <3>3, <3>4 DEF Ownership
  <2>7. QED BY <2>3, <2>4, <2>5, <2>6, ServeCounts
<1>5. QED BY <1>3, <1>4

-----------------------------------------------------------------------------
LEMMA StepKeeps == IInv /\ [Next]_vars => IInv'
<1> SUFFICES ASSUME IInv, [Next]_vars PROVE IInv' OBVIOUS
<1>1. ASSUME NEW i \in Workers, Work(i) PROVE IInv'
  BY <1>1, AskKeeps, ReceiveKeeps, EndOfFileKeeps, FinishKeeps, CrashKeeps DEF Work
<1>2. CASE Master
  BY <1>2, SpawnKeeps, SelectKeeps, ServeKeeps, AbandonKeeps, CloseKeeps, KillKeeps, ReapKeeps
  DEF Master
<1>3. CASE UNCHANGED vars
  BY <1>3 DEF vars, workervars, mastervars, IInv, Types, Places, Place, Gone, Ended, Phases,
     Counting, Owing, Left, Ownership, Holds
<1>4. QED BY <1>1, <1>2, <1>3 DEF Next

THEOREM RunnerInvariant == Spec => []IInv
  BY InitInv, StepKeeps, PTL DEF Spec

\* Type correctness; that passed and exited keep within their bounds is a
\* consequence of the counts.
THEOREM TypeCorrect == Spec => []TypeOK
<1>1. IInv => TypeOK
  <2> SUFFICES ASSUME IInv PROVE TypeOK OBVIOUS
  <2>1. passed \in 0 .. Total
    BY BooksFinite, DispatchAssumption DEF IInv, Types, Counting
  <2>2. Cardinality(Left) <= N
    BY WorkersFinite, FS_Subset DEF Left
  <2>3. exited \in 0 .. N
    BY <2>2, DispatchAssumption DEF IInv, Types, Counting
  <2>4. QED BY <2>1, <2>3 DEF IInv, Types, TypeOK
<1>2. QED BY <1>1, RunnerInvariant, PTL

\* No test is run twice (run_parallel), for any number of workers and tests.
THEOREM NoTestTwice == Spec => OnceEach
<1>1. IInv /\ [Next]_vars =>
        [\A i \in Workers : wpc[i] # "run" /\ wpc'[i] = "run" => job'[i] \notin begun]_vars
  <2> SUFFICES ASSUME IInv, Next, NEW i \in Workers, wpc[i] # "run", wpc'[i] = "run"
               PROVE  job'[i] \notin begun
    OBVIOUS
  <2> USE DEF IInv
  <2>1. CASE Master
    BY <2>1 DEF Types, Master, Spawn, Select, Serve, Abandon, Close, Kill, Reap, workervars
  <2>2. ASSUME NEW k \in Workers, Work(k) PROVE job'[i] \notin begun
    <3>1. CASE Receive(k)
      BY <3>1 DEF Types, Receive, Ownership, Workers, Tests, Leave, Nothing
    <3>2. CASE Ask(k) \/ EndOfFile(k) \/ Finish(k) \/ Crash(k)
      BY <3>2 DEF Types, Ask, EndOfFile, Finish, Crash
    <3>3. QED BY <2>2, <3>1, <3>2 DEF Work
  <2>3. QED BY <2>1, <2>2 DEF Next
<1>2. QED BY <1>1, RunnerInvariant, PTL DEF Spec, OnceEach

\* Every test handed out has ended or is held by a worker that owes its end,
\* so that at least the tests counted have ended.
LEMMA EndedAreCounted ==
  ASSUME IInv
  PROVE  IsFiniteSet(finished) /\ Cardinality(finished) \in Nat /\ passed <= Cardinality(finished)
<1> USE DEF IInv
<1> DEFINE Given == 0 .. dispatched - 1
           Missing == Given \ finished
           owner == [t \in Missing |-> CHOOSE i \in Owing : Holds(i) = t]
<1>1. dispatched \in Nat /\ passed \in Nat BY DEF Types
<1>2. IsFiniteSet(Given) /\ Cardinality(Given) = dispatched
  BY <1>1, FS_Interval
<1>3. finished \subseteq Given
  BY DEF Ownership
<1>4. IsFiniteSet(finished) /\ IsFiniteSet(Missing)
      /\ Cardinality(finished) \in Nat /\ Cardinality(Missing) \in Nat
  BY <1>2, <1>3, FS_Subset, FS_CardinalityType
<1>5. Cardinality(Missing) = dispatched - Cardinality(finished)
  <2>1. Given \cap finished = finished BY <1>3
  <2>2. Cardinality(Given \ finished) = Cardinality(Given) - Cardinality(Given \cap finished)
    <3> HIDE DEF Given, Missing
    <3>1. QED BY <1>2, FS_Difference
  <2>3. QED BY <1>2, <2>1, <2>2
<1>6. \A t \in Missing : owner[t] \in Owing /\ Holds(owner[t]) = t
  <2>1. \A t \in Missing : \E i \in Owing : Holds(i) = t
    BY DEF Ownership
  <2>2. QED BY <2>1
<1>7. owner \in Injection(Missing, Owing)
  <2>1. owner \in [Missing -> Owing] BY <1>6
  <2>2. \A t, u \in Missing : owner[t] = owner[u] => t = u
    <3> HIDE DEF owner
    <3>1. QED BY <1>6
  <2>3. QED BY <2>1, <2>2 DEF Injection, IsInjective
<1> HIDE DEF owner, Missing
<1>8. Cardinality(Missing) <= Cardinality(Owing)
  BY <1>7, BooksFinite, FS_Injection
<1>9. QED BY <1>1, <1>4, <1>5, <1>8, BooksFinite DEF Counting

\* The verdict that is printed is right, for any number of workers and tests
\* and whatever test aborts whenever.
THEOREM VerdictsRight == Spec => []VerdictRight
<1>1. IInv => VerdictRight
  <2> SUFFICES ASSUME IInv PROVE VerdictRight OBVIOUS
  <2> USE DEF IInv
  <2>1. passed <= Cardinality(finished)
    BY EndedAreCounted
  <2>2. ASSUME phase = "done", ~failed
        PROVE  /\ \A i \in Workers : wpc[i] # "crashed"
               /\ passed = Total /\ finished = Tests
    <3>1. Left = Workers
      <4>1. Left \subseteq Workers /\ Cardinality(Left) = Cardinality(Workers)
        BY <2>2, WorkersFinite DEF Phases, Counting, Left
      <4>2. QED BY <4>1, WorkersFinite, FS_Subset
    <3>2. Owing = {} /\ Left # {}
      BY <3>1, DispatchAssumption DEF Owing, Left, Workers
    <3>3. passed = Total
      BY <3>2, FS_EmptySet, DispatchAssumption DEF Counting, Types
    <3>4. IsFiniteSet(Tests) /\ Cardinality(Tests) = Total
      BY DispatchAssumption, FS_Interval DEF Tests
    <3>5. finished \subseteq Tests /\ Cardinality(finished) <= Total
      BY <3>4, FS_Subset DEF Types
    <3>6. Cardinality(finished) = Cardinality(Tests)
      BY <2>1, <3>3, <3>4, <3>5, EndedAreCounted, DispatchAssumption
    <3>7. finished = Tests
      BY <3>4, <3>5, <3>6, FS_Subset
    <3>8. QED BY <3>1, <3>3, <3>7 DEF Left, Places, Place
  <2>3. failed => \E i \in Workers : wpc[i] = "crashed"
    BY DEF Phases
  <2>4. QED BY <2>1, <2>2, <2>3 DEF VerdictRight
<1>2. QED BY <1>1, RunnerInvariant, PTL

-----------------------------------------------------------------------------
(* The consoles: their invariant.                                          *)

ConsoleTypes ==
    /\ ctx.data \in Text \cup {Silent}
    /\ ctx.avail \in BOOLEAN /\ ctx.fetched \in BOOLEAN /\ ctx.written \in BOOLEAN
    /\ ctx = [avail |-> ctx.avail, fetched |-> ctx.fetched, written |-> ctx.written,
              data |-> ctx.data, num |-> ctx.num, monitor |-> ctx.monitor]
    /\ ififo \in Seq(Typed) /\ typed \in Seq(Typed) /\ got \in Seq(Typed)
    /\ held \in Seq(Typed)
    /\ stage \in Stages /\ status \in BOOLEAN
    /\ buffer \in Seq(Text) /\ screen \in Seq(Text) /\ said \in Seq(Text)
    /\ rxd \in Typed \cup {Silent}

\* A byte RXD has returned is popped by the next sync, and no other is.
Reading ==
    /\ stage \in {"access", "stored"} => (ctx.fetched <=> rxd # Silent)
    /\ stage \notin {"access", "stored"} => rxd = Silent
    /\ stage \in {"synced", "panic"} => ~ctx.fetched

\* Where a character for the screen may be.
Writing ==
    /\ stage \in {"access", "synced", "panic"} => ~ctx.written
    /\ stage \in {"stored", "popped"} /\ ctx.written => ctx.data \in Text
    /\ stage \in {"synced", "panic"} => ctx0.data = ctx.data
    /\ stage \in {"synced", "panic"} /\ ctx0.written => ctx0.data \in Text
    /\ ~status => buffer = <<>>

ConsoleInv == ConsoleTypes /\ Reading /\ Writing /\ ConsoleExact /\ ScreenExact
-----------------------------------------------------------------------------
\* The queue moves a byte from its front without changing the whole.
LEMMA MoveFront ==
  ASSUME NEW T, NEW s \in Seq(T), NEW t \in Seq(T), t # <<>>
  PROVE  Append(s, Head(t)) \o Tail(t) = s \o t
<1>1. Head(t) \in T /\ Tail(t) \in Seq(T) BY HeadTailProperties
<1>2. Append(s, Head(t)) = s \o <<Head(t)>> BY <1>1, AppendIsConcat
<1>3. <<Head(t)>> \in Seq(T) BY <1>1
<1>4. (s \o <<Head(t)>>) \o Tail(t) = s \o (<<Head(t)>> \o Tail(t))
  BY <1>1, <1>3, ConcatAssociative
<1>5. <<Head(t)>> \o Tail(t) = t
  BY <1>1, <1>3
<1>6. QED BY <1>2, <1>4, <1>5

LEMMA AppendToWhole ==
  ASSUME NEW T, NEW s \in Seq(T), NEW t \in Seq(T), NEW c \in T
  PROVE  /\ s \o Append(t, c) = Append(s \o t, c)
         /\ s \o <<c>> = Append(s, c) /\ Append(s, c) \in Seq(T)
         /\ s \o t \in Seq(T)
<1>1. <<c>> \in Seq(T) OBVIOUS
<1>2. s \o t \in Seq(T) BY ConcatProperties
<1>3. Append(t, c) = t \o <<c>> /\ Append(s \o t, c) = (s \o t) \o <<c>>
  BY <1>2, AppendIsConcat
<1>4. QED BY <1>1, <1>2, <1>3, ConcatAssociative, AppendIsConcat, AppendProperties

LEMMA InitConsole == ConsoleInit => ConsoleInv
<1> SUFFICES ASSUME ConsoleInit PROVE ConsoleInv OBVIOUS
<1>1. <<>> \in Seq(Typed) /\ <<>> \in Seq(Text) /\ Len(<<>>) = 0 BY EmptySeq
<1>2. ConsoleTypes BY <1>1 DEF ConsoleInit, ConsoleTypes, ResetContext, Stages
<1>3. Reading /\ Writing BY DEF ConsoleInit, Reading, Writing, ResetContext
<1>4. ConsoleExact BY <1>1, ConcatEmptySeq DEF ConsoleInit, ConsoleExact, ResetContext
<1>5. ScreenExact
  <2>1. OnTheWay = <<>> BY DEF ConsoleInit, OnTheWay
  <2>2. QED BY <1>1, <2>1, ConcatEmptySeq, ConfregAssumption DEF ConsoleInit, ScreenExact
<1>6. QED BY <1>2, <1>3, <1>4, <1>5 DEF ConsoleInv

-----------------------------------------------------------------------------
(* The console thread.                                                     *)

LEMMA FgetcKeeps ==
  ASSUME ConsoleInv, Fgetc
  PROVE  ConsoleInv'
<1> USE DEF ConsoleInv
<1>1. PICK c \in Typed : held' = <<c>> /\ typed' = Append(typed, c)
  BY DEF Fgetc
<1>2. held = <<>> /\ UNCHANGED <<device, stage, status, log, rxd, got, said>>
  BY DEF Fgetc
<1>3. held' \in Seq(Typed) /\ typed' \in Seq(Typed)
  BY <1>1, AppendProperties DEF ConsoleTypes
<1>4. ConsoleTypes' BY <1>2, <1>3 DEF ConsoleTypes, device, log
<1>5. Reading' /\ Writing' BY <1>2 DEF Reading, Writing, device, log
<1>6. ConsoleExact'
  <2>1. got \o ififo \in Seq(Typed) BY ConcatProperties DEF ConsoleTypes
  <2>2. got \o ififo = typed BY <1>2, <2>1, ConcatEmptySeq DEF ConsoleExact
  <2>3. (got \o ififo) \o held' = Append(typed, c)
    BY <1>1, <2>1, <2>2, AppendIsConcat
  <2>4. QED BY <1>1, <1>2, <2>3 DEF ConsoleExact, device
<1>7. ScreenExact' BY <1>2 DEF ScreenExact, OnTheWay, device, log
<1>8. QED BY <1>4, <1>5, <1>6, <1>7

LEMMA PushBackKeeps ==
  ASSUME ConsoleInv, PushBack
  PROVE  ConsoleInv'
<1> USE DEF ConsoleInv
<1>1. /\ ififo' = ififo \o held /\ held' = <<>>
      /\ UNCHANGED <<ctx, ctx0, mem, changes, stage, status, log, typed, rxd, got, said>>
  BY DEF PushBack
<1>2. ififo' \in Seq(Typed) /\ held' \in Seq(Typed) BY <1>1, ConcatProperties, EmptySeq DEF ConsoleTypes
<1>3. ConsoleTypes' BY <1>1, <1>2 DEF ConsoleTypes, log
<1>4. Reading' /\ Writing' BY <1>1 DEF Reading, Writing, log
<1>5. ififo # <<>> => ififo' # <<>> /\ Head(ififo') = Head(ififo)
  <2> SUFFICES ASSUME ififo # <<>> PROVE ififo' # <<>> /\ Head(ififo') = Head(ififo)
    OBVIOUS
  <2>1. ififo \in Seq(Typed) /\ held \in Seq(Typed) BY DEF ConsoleTypes
  <2>2. ififo' # <<>> BY <1>1, <2>1, ConcatEqualIffEmpty
  <2>3. Len(ififo) \in Nat \ {0} /\ Len(held) \in Nat BY <2>1, EmptySeq, LenProperties
  <2>4. ififo'[1] = ififo[1] BY <1>1, <2>1, <2>3, ConcatProperties
  <2>5. Head(ififo) = ififo[1] /\ Head(ififo') = ififo'[1] BY <1>2, <2>1, <2>2
  <2>6. QED BY <2>2, <2>4, <2>5
<1>6. ConsoleExact'
  <2>1. got \o (ififo \o held) = (got \o ififo) \o held
    <3>1. got \in Seq(Typed) /\ ififo \in Seq(Typed) /\ held \in Seq(Typed) BY DEF ConsoleTypes
    <3>2. QED BY <3>1, ConcatAssociative
  <2>2. got' \o ififo' = typed' BY <1>1, <2>1 DEF ConsoleExact
  <2>3. (got' \o ififo') \o held' = typed'
    BY <1>1, <2>2, ConcatEmptySeq DEF ConsoleTypes
  <2>4. ctx'.avail \/ ctx'.fetched => stage' = "popped" \/ ififo' # <<>>
    BY <1>1, <1>5 DEF ConsoleExact
  <2>5. rxd' # Silent => ctx'.fetched /\ rxd' = Head(ififo')
    <3> SUFFICES ASSUME rxd # Silent PROVE ctx'.fetched /\ rxd' = Head(ififo')
      BY <1>1
    <3>1. stage \in {"access", "stored"} BY DEF Reading
    <3>2. ififo # <<>> BY <3>1 DEF ConsoleExact
    <3>3. QED BY <1>1, <1>5, <3>2 DEF ConsoleExact
  <2>6. QED BY <2>3, <2>4, <2>5 DEF ConsoleExact
<1>7. ScreenExact' BY <1>1 DEF ScreenExact, OnTheWay, log
<1>8. QED BY <1>3, <1>4, <1>6, <1>7

-----------------------------------------------------------------------------
(* The accesses of a cycle.                                                *)

LEMMA LoadRxdKeeps ==
  ASSUME ConsoleInv, LoadRxd
  PROVE  ConsoleInv'
<1> USE DEF ConsoleInv
<1>1. /\ stage = "access" /\ ctx.avail
      /\ rxd' = Head(ififo) /\ ctx' = [ctx EXCEPT !.fetched = TRUE]
      /\ UNCHANGED <<ctx0, ififo, mem, changes, held, stage, status, log, typed, got, said>>
  BY DEF LoadRxd
<1>2. ififo # <<>> BY <1>1 DEF ConsoleExact
<1>3. rxd' \in Typed /\ rxd' # Silent
  BY <1>1, <1>2, HeadTailProperties, ConfregAssumption DEF ConsoleTypes
<1>4. /\ ctx'.fetched /\ ctx'.avail = ctx.avail /\ ctx'.written = ctx.written
      /\ ctx'.data = ctx.data /\ ctx'.num = ctx.num /\ ctx'.monitor = ctx.monitor
  BY <1>1 DEF ConsoleTypes
<1>5. ctx' = [avail |-> ctx'.avail, fetched |-> ctx'.fetched, written |-> ctx'.written,
              data |-> ctx'.data, num |-> ctx'.num, monitor |-> ctx'.monitor]
  BY <1>1, <1>4 DEF ConsoleTypes
<1>6. ConsoleTypes' BY <1>1, <1>3, <1>4, <1>5 DEF ConsoleTypes, log
<1>7. Reading' /\ Writing' BY <1>1, <1>3, <1>4 DEF Reading, Writing, log
<1>8. ConsoleExact' BY <1>1, <1>2, <1>4 DEF ConsoleExact
<1>9. ScreenExact' BY <1>1, <1>4 DEF ScreenExact, OnTheWay, log
<1>10. QED BY <1>6, <1>7, <1>8, <1>9

LEMMA StoreVirtualUartKeeps ==
  ASSUME ConsoleInv, StoreVirtualUart
  PROVE  ConsoleInv'
<1> USE DEF ConsoleInv
<1>1. PICK c \in Text : /\ ctx' = [ctx EXCEPT !.written = TRUE, !.data = c]
                        /\ said' = IF c \in High THEN said ELSE Append(said, c)
  BY DEF StoreVirtualUart
<1>2. /\ stage = "access" /\ stage' = "stored"
      /\ UNCHANGED <<ctx0, ififo, mem, changes, held, status, log, typed, rxd, got>>
  BY DEF StoreVirtualUart
<1>3. /\ ctx'.written /\ ctx'.data = c
      /\ ctx'.avail = ctx.avail /\ ctx'.fetched = ctx.fetched
      /\ ctx' = [avail |-> ctx'.avail, fetched |-> ctx'.fetched, written |-> ctx'.written,
                 data |-> ctx'.data, num |-> ctx'.num, monitor |-> ctx'.monitor]
  BY <1>1 DEF ConsoleTypes
<1>4. said' \in Seq(Text) BY <1>1, AppendProperties DEF ConsoleTypes
<1>5. ConsoleTypes' BY <1>1, <1>2, <1>3, <1>4 DEF ConsoleTypes, log, Stages
<1>6. Reading' /\ Writing' BY <1>1, <1>2, <1>3 DEF Reading, Writing, log
<1>7. ConsoleExact' BY <1>2, <1>3 DEF ConsoleExact
<1>8. ScreenExact'
  <2> DEFINE shown == screen \o buffer
  <2>1. shown \in Seq(Text) BY ConcatProperties DEF ConsoleTypes
  <2>2. shown = said
    <3>1. OnTheWay = <<>> BY <1>2 DEF OnTheWay, Writing
    <3>2. QED BY <2>1, <3>1, ConcatEmptySeq DEF ScreenExact
  <2>3. OnTheWay' = IF c \in High THEN <<>> ELSE <<c>>
    BY <1>2, <1>3 DEF OnTheWay
  <2>4. screen' = screen /\ buffer' = buffer BY <1>2 DEF log
  <2> HIDE DEF shown
  <2>5. shown \o OnTheWay' = said'
    BY <1>1, <2>1, <2>2, <2>3, ConcatEmptySeq, AppendIsConcat
  <2>6. QED BY <2>4, <2>5 DEF ScreenExact, shown
<1>9. QED BY <1>5, <1>6, <1>7, <1>8

\* The other stores touch neither console.
LEMMA OtherStoresKeep ==
  ASSUME ConsoleInv, StoreNum \/ StoreNumMonitor \/ StoreRegister
  PROVE  ConsoleInv'
<1> USE DEF ConsoleInv
<1>1. /\ stage = "access" /\ stage' = "stored"
      /\ UNCHANGED <<ctx0, ififo, held, status, log, typed, rxd, got, said>>
  BY DEF StoreNum, StoreNumMonitor, StoreRegister
<1>2. /\ ctx'.avail = ctx.avail /\ ctx'.fetched = ctx.fetched
      /\ ctx'.written = ctx.written /\ ctx'.data = ctx.data
      /\ ctx' = [avail |-> ctx'.avail, fetched |-> ctx'.fetched, written |-> ctx'.written,
                 data |-> ctx'.data, num |-> ctx'.num, monitor |-> ctx'.monitor]
  <2>1. CASE ctx' = ctx BY <2>1 DEF ConsoleTypes
  <2>2. CASE \E n \in Num : ctx' = [ctx EXCEPT !.num = n] BY <2>2 DEF ConsoleTypes
  <2>3. CASE \E on \in BOOLEAN : ctx' = [ctx EXCEPT !.monitor = on] BY <2>3 DEF ConsoleTypes
  <2>4. QED BY <2>1, <2>2, <2>3 DEF StoreNum, StoreNumMonitor, StoreRegister
<1>3. ConsoleTypes' BY <1>1, <1>2 DEF ConsoleTypes, log, Stages
<1>4. Reading' /\ Writing' BY <1>1, <1>2 DEF Reading, Writing, log
<1>5. ConsoleExact' BY <1>1, <1>2 DEF ConsoleExact
<1>6. ScreenExact'
  <2>1. ~ctx.written BY <1>1 DEF Writing
  <2>2. OnTheWay' = OnTheWay BY <1>1, <1>2, <2>1 DEF OnTheWay
  <2>3. QED BY <1>1, <2>2 DEF ScreenExact, log
<1>7. QED BY <1>3, <1>4, <1>5, <1>6

-----------------------------------------------------------------------------
(* The end of a cycle.                                                     *)

LEMMA SyncPopKeeps ==
  ASSUME ConsoleInv, SyncPop
  PROVE  ConsoleInv'
<1> USE DEF ConsoleInv
<1>1. /\ stage \in {"access", "stored"} /\ stage' = "popped"
      /\ ctx.fetched => ififo # <<>>
      /\ ififo' = Popped /\ rxd' = Silent
      /\ got' = IF rxd = Silent THEN got ELSE Append(got, rxd)
      /\ UNCHANGED <<ctx, ctx0, mem, changes, held, status, log, typed, said>>
  BY DEF SyncPop
<1>2. ctx.fetched <=> rxd # Silent BY <1>1 DEF Reading
<1>3. /\ ififo' \in Seq(Typed) /\ got' \in Seq(Typed)
      /\ got' \o ififo' = got \o ififo
  <2>1. CASE ctx.fetched
    <3>1. rxd = Head(ififo) /\ ififo # <<>> BY <1>1, <1>2, <2>1 DEF ConsoleExact
    <3>2. ififo' = Tail(ififo) /\ got' = Append(got, Head(ififo))
      BY <1>1, <1>2, <2>1, <3>1 DEF Popped
    <3>3. Tail(ififo) \in Seq(Typed) /\ Head(ififo) \in Typed
      BY <3>1, HeadTailProperties DEF ConsoleTypes
    <3>4. Append(got, Head(ififo)) \in Seq(Typed) BY <3>3, AppendProperties DEF ConsoleTypes
    <3>5. Append(got, Head(ififo)) \o Tail(ififo) = got \o ififo
      BY <3>1, MoveFront DEF ConsoleTypes
    <3>6. QED BY <3>2, <3>3, <3>4, <3>5
  <2>2. CASE ~ctx.fetched
    BY <1>1, <1>2, <2>2 DEF Popped, ConsoleTypes
  <2>3. QED BY <2>1, <2>2
<1>4. ConsoleTypes' BY <1>1, <1>3 DEF ConsoleTypes, log, Stages
<1>5. Reading' /\ Writing' BY <1>1 DEF Reading, Writing, log
<1>6. ConsoleExact' BY <1>1, <1>3 DEF ConsoleExact
<1>7. ScreenExact'
  <2>1. stage = "access" => ~ctx.written BY DEF Writing
  <2>2. OnTheWay' = OnTheWay BY <1>1, <2>1 DEF OnTheWay
  <2>3. QED BY <1>1, <2>2 DEF ScreenExact, log
<1>8. QED BY <1>4, <1>5, <1>6, <1>7

LEMMA SyncCommitKeeps ==
  ASSUME ConsoleInv, SyncCommit
  PROVE  ConsoleInv'
<1> USE DEF ConsoleInv
<1>1. /\ stage = "popped" /\ stage' = "synced"
      /\ ctx0' = Shown(ctx) /\ ctx' = NextContext
      /\ UNCHANGED <<ififo, held, status, log, typed, rxd, got, said>>
  BY DEF SyncCommit
<1>2. /\ ctx'.avail = (ififo # <<>>) /\ ~ctx'.fetched /\ ~ctx'.written
      /\ ctx'.fetched \in BOOLEAN /\ ctx'.written \in BOOLEAN
      /\ ctx'.data = ctx.data
      /\ ctx' = [avail |-> ctx'.avail, fetched |-> ctx'.fetched, written |-> ctx'.written,
                 data |-> ctx'.data, num |-> ctx'.num, monitor |-> ctx'.monitor]
  BY <1>1 DEF ConsoleTypes, NextContext
<1>3. ctx0'.written = ctx.written /\ ctx0'.data = ctx.data
  BY <1>1 DEF Shown
<1>4. ConsoleTypes' BY <1>1, <1>2 DEF ConsoleTypes, log, Stages
<1>5. Reading' /\ Writing' BY <1>1, <1>2, <1>3 DEF Reading, Writing, log
<1>6. ConsoleExact'
  <2>1. rxd = Silent BY <1>1 DEF Reading
  <2>2. QED BY <1>1, <1>2, <2>1 DEF ConsoleExact
<1>7. ScreenExact'
  <2>1. OnTheWay' = OnTheWay BY <1>1, <1>2, <1>3 DEF OnTheWay
  <2>2. QED BY <1>1, <2>1 DEF ScreenExact, log
<1>8. QED BY <1>4, <1>5, <1>6, <1>7

LEMMA CheckoutKeeps ==
  ASSUME ConsoleInv, Checkout
  PROVE  ConsoleInv'
<1> USE DEF ConsoleInv
<1>1. /\ stage = "synced" /\ stage' = "access"
      /\ IF ctx0.written /\ ctx0.data \notin High
           THEN NotifyChar(ctx0.data) ELSE UNCHANGED <<buffer, screen>>
      /\ UNCHANGED <<device, held, status, typed, rxd, got, said>>
  BY DEF Checkout
<1>2. ~ctx.written /\ OnTheWay' = <<>>
  BY <1>1 DEF Writing, OnTheWay, device
<1>3. /\ buffer' \in Seq(Text) /\ screen' \in Seq(Text) /\ Len(buffer') < BufferLimit
      /\ screen' \o buffer' = said /\ (~status => buffer' = <<>>)
  <2>0. /\ buffer \in Seq(Text) /\ screen \in Seq(Text) /\ screen \o buffer \in Seq(Text)
        /\ Len(buffer) \in Nat /\ BufferLimit \in Nat \ {0}
    BY ConcatProperties, LenProperties, ConfregAssumption DEF ConsoleTypes
  <2>1. CASE ctx0.written /\ ctx0.data \notin High
    <3> DEFINE c == ctx0.data
    <3>1. c \in Text /\ OnTheWay = <<c>> /\ NotifyChar(c)
      BY <1>1, <2>1 DEF Writing, OnTheWay
    <3>2. (screen \o buffer) \o <<c>> = said BY <3>1 DEF ScreenExact
    <3> HIDE DEF c
    <3>3. /\ screen \o Append(buffer, c) = said /\ Append(buffer, c) \in Seq(Text)
          /\ Append(screen, c) \in Seq(Text) /\ Append(screen \o buffer, c) = said
          /\ screen \o Append(buffer, c) \in Seq(Text)
      <4>1. screen \o Append(buffer, c) = Append(screen \o buffer, c)
            /\ Append(screen, c) \in Seq(Text)
        BY <2>0, <3>1, AppendToWhole
      <4>2. Append(buffer, c) \in Seq(Text) BY <2>0, <3>1, AppendProperties
      <4>3. Append(screen \o buffer, c) = (screen \o buffer) \o <<c>>
            /\ Append(screen \o buffer, c) \in Seq(Text)
        BY <2>0, <3>1, AppendIsConcat, AppendProperties
      <4>4. QED BY <3>2, <4>1, <4>2, <4>3
    <3>4. CASE status /\ (c = Newline \/ Len(buffer) + 1 >= BufferLimit)
      <4>1. screen' = screen \o Append(buffer, c) /\ buffer' = <<>>
        BY <3>1, <3>4 DEF NotifyChar
      <4>2. QED BY <2>0, <3>3, <4>1, ConcatEmptySeq, EmptySeq
    <3>5. CASE status /\ ~(c = Newline \/ Len(buffer) + 1 >= BufferLimit)
      <4>1. screen' = screen /\ buffer' = Append(buffer, c)
        BY <3>1, <3>5 DEF NotifyChar
      <4>2. Len(buffer') = Len(buffer) + 1 BY <2>0, <3>1, <4>1, AppendProperties
      <4>3. Len(buffer') < BufferLimit BY <2>0, <3>5, <4>2
      <4>4. QED BY <2>0, <3>3, <3>5, <4>1, <4>3
    <3>6. CASE ~status
      <4>1. screen' = Append(screen, c) /\ buffer' = <<>> /\ buffer = <<>>
        BY <3>1, <3>6 DEF NotifyChar, Writing
      <4>2. Append(screen, c) = said BY <2>0, <3>3, <4>1, ConcatEmptySeq
      <4>3. QED BY <2>0, <3>3, <4>1, <4>2, ConcatEmptySeq, EmptySeq
    <3>7. QED BY <3>4, <3>5, <3>6 DEF ConsoleTypes
  <2>2. CASE ~(ctx0.written /\ ctx0.data \notin High)
    <3>1. OnTheWay = <<>> /\ UNCHANGED <<buffer, screen>>
      BY <1>1, <2>2 DEF OnTheWay
    <3>2. screen \o buffer = said BY <2>0, <3>1, ConcatEmptySeq DEF ScreenExact
    <3>3. QED BY <2>0, <3>1, <3>2 DEF ScreenExact, Writing
  <2>3. QED BY <2>1, <2>2
<1>4. ConsoleTypes' BY <1>1, <1>3 DEF ConsoleTypes, device, Stages
<1>5. Reading'
  <2>1. ~ctx.fetched /\ rxd = Silent BY <1>1 DEF Reading
  <2>2. QED BY <1>1, <2>1 DEF Reading, device
<1>6. Writing' BY <1>1, <1>2, <1>3 DEF Writing, device
<1>7. ConsoleExact' BY <1>1 DEF ConsoleExact, device
<1>8. ScreenExact'
  <2>1. (screen' \o buffer') \o <<>> = said'
    BY <1>1, <1>3, ConcatProperties, ConcatEmptySeq
  <2>2. QED BY <1>2, <1>3, <2>1 DEF ScreenExact
<1>9. QED BY <1>4, <1>5, <1>6, <1>7, <1>8

LEMMA PanicKeeps ==
  ASSUME ConsoleInv, Panic
  PROVE  ConsoleInv'
<1> USE DEF ConsoleInv
<1>1. /\ stage = "synced" /\ stage' = "panic"
      /\ UNCHANGED <<device, held, status, log, typed, rxd, got, said>>
  BY DEF Panic
<1>2. ConsoleTypes' BY <1>1 DEF ConsoleTypes, device, log, Stages
<1>3. Reading' /\ Writing' BY <1>1 DEF Reading, Writing, device, log
<1>4. ConsoleExact' BY <1>1 DEF ConsoleExact, device
<1>5. ScreenExact' BY <1>1 DEF ScreenExact, OnTheWay, device, log
<1>6. QED BY <1>2, <1>3, <1>4, <1>5

LEMMA ResetKeeps ==
  ASSUME ConsoleInv, Reset
  PROVE  ConsoleInv'
<1> USE DEF ConsoleInv
<1>1. /\ stage = "access" /\ rxd = Silent
      /\ ctx' = ResetContext /\ ctx0' = Shown(ResetContext)
      /\ ififo' = <<>> /\ typed' = held /\ got' = <<>>
      /\ UNCHANGED <<held, stage, status, log, rxd, said>>
  BY DEF Reset
<1>2. <<>> \in Seq(Typed) BY EmptySeq
<1>3. /\ ~ctx'.avail /\ ~ctx'.fetched /\ ~ctx'.written /\ ctx'.data = Silent
      /\ ctx'.avail \in BOOLEAN /\ ctx'.fetched \in BOOLEAN /\ ctx'.written \in BOOLEAN
      /\ ctx' = [avail |-> ctx'.avail, fetched |-> ctx'.fetched, written |-> ctx'.written,
                 data |-> ctx'.data, num |-> ctx'.num, monitor |-> ctx'.monitor]
  BY <1>1 DEF ResetContext
<1>4. ConsoleTypes' BY <1>1, <1>2, <1>3 DEF ConsoleTypes, log
<1>5. Reading' /\ Writing' BY <1>1, <1>3 DEF Reading, Writing, log
<1>6. ConsoleExact'
  <2>1. (got' \o ififo') \o held' = typed'
    BY <1>1, <1>2, ConcatEmptySeq DEF ConsoleTypes
  <2>2. QED BY <1>1, <1>3, <2>1 DEF ConsoleExact
<1>7. ScreenExact'
  <2>1. OnTheWay' = OnTheWay BY <1>1, <1>3 DEF OnTheWay
  <2>2. QED BY <1>1, <2>1 DEF ScreenExact, log
<1>8. QED BY <1>4, <1>5, <1>6, <1>7

-----------------------------------------------------------------------------
LEMMA StepConsole == ConsoleInv /\ [ConsoleNext]_consolevars => ConsoleInv'
<1> SUFFICES ASSUME ConsoleInv, [ConsoleNext]_consolevars PROVE ConsoleInv' OBVIOUS
<1>1. CASE Console BY <1>1, FgetcKeeps, PushBackKeeps DEF Console
<1>2. CASE Access
  BY <1>2, LoadRxdKeeps, StoreVirtualUartKeeps, OtherStoresKeep DEF Access
<1>3. CASE Cycle
  BY <1>3, SyncPopKeeps, SyncCommitKeeps, CheckoutKeeps, PanicKeeps DEF Cycle
<1>4. CASE Reset BY <1>4, ResetKeeps
<1>5. CASE UNCHANGED consolevars
  BY <1>5 DEF consolevars, device, log, ConsoleInv, ConsoleTypes, Reading, Writing, ConsoleExact, ScreenExact, OnTheWay
<1>6. QED BY <1>1, <1>2, <1>3, <1>4, <1>5 DEF ConsoleNext

\* The inductive invariant of the consoles.
THEOREM ConsolesInvariant == ConsoleSpec => []ConsoleInv
  BY InitConsole, StepConsole, PTL DEF ConsoleSpec

\* No byte of the terminal is lost, doubled or moved on its way to the program.
THEOREM InputExact == ConsoleSpec => []ConsoleExact
  BY ConsolesInvariant, PTL DEF ConsoleInv

\* No character of the program is lost, doubled or moved on its way to the screen.
THEOREM OutputExact == ConsoleSpec => []ScreenExact
  BY ConsolesInvariant, PTL DEF ConsoleInv

-----------------------------------------------------------------------------
(* Type correctness of the consoles: what ConsoleInv leaves out.           *)

Registers ==
    /\ ctx.num \in Num /\ ctx.monitor \in BOOLEAN
    /\ ctx0 \in [written : BOOLEAN, data : Text \cup {Silent}, num : Num, monitor : BOOLEAN]
    /\ mem \in [Regs -> Values \cup {Zero}]
    /\ current \in 0 .. MaxNum
    /\ Len(held) <= 1

\* A store is waiting for sync, and no second one joins it.
OneStore ==
    /\ changes \in Seq(Regs \X Values) /\ Len(changes) <= 1
    /\ stage \notin {"stored", "popped"} => changes = <<>>

LEMMA ResetRegisters ==
  /\ ResetContext.num \in Num /\ ResetContext.monitor \in BOOLEAN
  /\ Shown(ResetContext) \in
        [written : BOOLEAN, data : Text \cup {Silent}, num : Num, monitor : BOOLEAN]
  /\ [r \in Regs |-> Zero] \in [Regs -> Values \cup {Zero}]
<1>1. 0 \in 0 .. MaxNum BY ConfregAssumption
<1>2. [num |-> 0, ack |-> 0] \in Num BY <1>1 DEF Num
<1>3. /\ ResetContext.num = [num |-> 0, ack |-> 0] /\ ResetContext.monitor = TRUE
      /\ ResetContext.written = FALSE /\ ResetContext.data = Silent
  BY DEF ResetContext
<1>4. QED BY <1>2, <1>3 DEF Shown

LEMMA InitRegisters == ConsoleInit => Registers /\ OneStore
<1> SUFFICES ASSUME ConsoleInit PROVE Registers /\ OneStore OBVIOUS
<1>1. Len(<<>>) = 0 /\ <<>> \in Seq(Regs \X Values) BY EmptySeq
<1>2. 0 \in 0 .. MaxNum BY ConfregAssumption
<1>3. QED BY <1>1, <1>2, ResetRegisters DEF ConsoleInit, Registers, OneStore

LEMMA RegistersKept ==
  ASSUME ConsoleInv, Registers, OneStore, [ConsoleNext]_consolevars
  PROVE  Registers'
<1> USE DEF ConsoleInv
<1>1. CASE Fgetc
  <2>1. PICK c \in Typed : held' = <<c>> BY <1>1 DEF Fgetc
  <2>2. Len(held') = 1 BY <2>1
  <2>3. QED BY <1>1, <2>2 DEF Fgetc, Registers, device, log
<1>2. CASE PushBack
  BY <1>2, EmptySeq DEF PushBack, Registers, log
<1>3. CASE LoadRxd \/ StoreVirtualUart \/ StoreNum \/ StoreNumMonitor \/ StoreRegister
  <2>1. UNCHANGED <<ctx0, mem, current, held>>
    BY <1>3 DEF LoadRxd, StoreVirtualUart, StoreNum, StoreNumMonitor, StoreRegister, log
  <2>2. ctx'.num \in Num /\ ctx'.monitor \in BOOLEAN
    BY <1>3 DEF LoadRxd, StoreVirtualUart, StoreNum, StoreNumMonitor, StoreRegister,
                Registers, ConsoleTypes
  <2>3. QED BY <2>1, <2>2 DEF Registers
<1>4. CASE SyncPop
  BY <1>4 DEF SyncPop, Registers, log
<1>5. CASE SyncCommit
  <2>1. ctx' = NextContext /\ ctx0' = Shown(ctx) /\ UNCHANGED <<current, held>>
    BY <1>5 DEF SyncCommit, log
  <2>2. ctx'.num = ctx.num /\ ctx'.monitor = ctx.monitor
    BY <2>1 DEF NextContext, ConsoleTypes
  <2>3. Shown(ctx) \in
          [written : BOOLEAN, data : Text \cup {Silent}, num : Num, monitor : BOOLEAN]
    BY DEF Shown, ConsoleTypes, Registers
  <2>4. mem' \in [Regs -> Values \cup {Zero}]
    <3>1. ASSUME NEW i \in DOMAIN changes
          PROVE  changes[Len(changes)][2] \in Values
      <4>1. Len(changes) \in Nat /\ i \in 1 .. Len(changes)
        BY LenProperties DEF OneStore
      <4>2. changes[Len(changes)] \in Regs \X Values
        BY <4>1, ElementOfSeq DEF OneStore
      <4>3. QED BY <4>2
    <3>2. \A r \in Regs : mem[r] \in Values \cup {Zero} BY DEF Registers
    <3>3. QED BY <1>5, <3>1, <3>2 DEF SyncCommit
  <2>5. QED BY <2>1, <2>2, <2>3, <2>4 DEF Registers
<1>6. CASE Checkout
  BY <1>6 DEF Checkout, Registers, device, Num
<1>7. CASE Panic
  BY <1>7 DEF Panic, Registers, device, log
<1>8. CASE Reset
  BY <1>8, ResetRegisters DEF Reset, Registers, log
<1>9. CASE UNCHANGED consolevars
  BY <1>9 DEF consolevars, Registers, device, log
<1>10. QED
  BY <1>1, <1>2, <1>3, <1>4, <1>5, <1>6, <1>7, <1>8, <1>9
  DEF ConsoleNext, Console, Access, Cycle


LEMMA OneStoreKept ==
  ASSUME OneStore, [ConsoleNext]_consolevars
  PROVE  OneStore'
<1>0. <<>> \in Seq(Regs \X Values) /\ Len(<<>>) = 0 BY EmptySeq
<1>1. CASE StoreRegister
  <2>1. PICK r \in Regs, v \in Values : changes' = Append(changes, <<r, v>>)
    BY <1>1 DEF StoreRegister
  <2>2. changes = <<>> /\ stage' = "stored" BY <1>1 DEF StoreRegister, OneStore
  <2>3. changes' \in Seq(Regs \X Values) /\ Len(changes') = 1
    BY <1>0, <2>1, <2>2, AppendProperties
  <2>4. QED BY <2>2, <2>3 DEF OneStore
<1>2. CASE StoreVirtualUart \/ StoreNum \/ StoreNumMonitor \/ LoadRxd
  BY <1>2 DEF StoreVirtualUart, StoreNum, StoreNumMonitor, LoadRxd, OneStore
<1>3. CASE Fgetc \/ PushBack
  BY <1>3 DEF Fgetc, PushBack, OneStore, device
<1>4. CASE SyncPop BY <1>4 DEF SyncPop, OneStore
<1>5. CASE SyncCommit BY <1>0, <1>5 DEF SyncCommit, OneStore
<1>6. CASE Checkout \/ Panic \/ Reset
  BY <1>6 DEF Checkout, Panic, Reset, OneStore, device
<1>7. CASE UNCHANGED consolevars
  BY <1>7 DEF consolevars, OneStore, device
<1>8. QED
  BY <1>1, <1>2, <1>3, <1>4, <1>5, <1>6, <1>7 DEF ConsoleNext, Console, Access, Cycle

\* Type correctness: no character that is not one is ever shown or returned,
\* and a cycle keeps one store at most for sync.
THEOREM ConsoleTypeCorrect == ConsoleSpec => []ConsoleTypeOK
<1> DEFINE TInv == ConsoleInv /\ Registers /\ OneStore
<1>1. ConsoleInit => TInv BY InitConsole, InitRegisters
<1>2. TInv /\ [ConsoleNext]_consolevars => TInv'
  BY StepConsole, RegistersKept, OneStoreKept
<1>3. TInv => ConsoleTypeOK
  BY DEF ConsoleInv, ConsoleTypes, Registers, OneStore, ConsoleTypeOK
<1> HIDE DEF TInv
<1>4. QED BY <1>1, <1>2, <1>3, PTL DEF ConsoleSpec
=============================================================================
