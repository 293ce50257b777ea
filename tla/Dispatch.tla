------------------------------ MODULE Dispatch ------------------------------
(***************************************************************************)
(* The parallel test runner: run_parallel and run_worker of                *)
(* verilate/vsrc/testbench.cpp.  The master forks N workers, each with a   *)
(* pipe either way.  A worker writes a character to ask for a test and     *)
(* reads an index, or -1 to leave; the master serves whatever select       *)
(* reports.  A test that fails aborts its worker, and the master learns of *)
(* it from the end of file on the worker's pipe.                           *)
(***************************************************************************)
EXTENDS Integers, FiniteSets

CONSTANTS
    N,          \* n_workers
    Total       \* test_list.size()

ASSUME DispatchAssumption == N \in Nat \ {0} /\ Total \in Nat

Workers == 0 .. N - 1
Tests   == 0 .. Total - 1
Leave   == -1           \* the index that ends a worker
Nothing == -2           \* an empty pipe

VARIABLES
    (* the workers and the pipes *)
    wpc,        \* where a worker is
    job,        \* the index a worker has read
    request,    \* is its character in the pipe to the master?
    reply,      \* the index in the pipe from the master
    (* the master *)
    phase,      \* spawning, select, serving, reaping or done
    spawned,    \* workers forked so far
    ready,      \* what select reported and the loop over j has still to serve
    first, open, dispatched, exited, passed, failed,
    closed,     \* are the master's ends of the pipes to the workers closed?
    reaped,     \* workers waited for so far
    (* used by no code *)
    begun,      \* tests some worker has started
    finished    \* tests that ran to their end

workervars == <<wpc, job, request, reply>>
mastervars == <<phase, spawned, ready, first, open, dispatched, exited, passed, failed,
                closed, reaped>>
vars == <<workervars, mastervars, begun, finished>>

Gone(i) == wpc[i] \in {"exited", "crashed", "killed"}
Dead(i) == Gone(i) \/ wpc[i] = "unborn"

TypeOK ==
    /\ wpc \in [Workers -> {"unborn", "ask", "wait", "run", "exited", "crashed", "killed"}]
    /\ job \in [Workers -> Tests \cup {Leave, Nothing}]
    /\ request \in [Workers -> BOOLEAN]
    /\ reply \in [Workers -> Tests \cup {Leave, Nothing}]
    /\ phase \in {"spawn", "select", "serve", "reap", "done"}
    /\ spawned \in 0 .. N /\ exited \in 0 .. N /\ reaped \in 0 .. N
    /\ ready \subseteq Workers
    /\ first \in [Workers -> BOOLEAN] /\ open \in [Workers -> BOOLEAN]
    /\ dispatched \in 0 .. Total /\ passed \in 0 .. Total
    /\ failed \in BOOLEAN /\ closed \in BOOLEAN
    /\ begun \subseteq Tests /\ finished \subseteq Tests

Init ==
    /\ wpc = [i \in Workers |-> "unborn"]
    /\ job = [i \in Workers |-> Nothing]
    /\ request = [i \in Workers |-> FALSE]
    /\ reply = [i \in Workers |-> Nothing]
    /\ phase = "spawn" /\ spawned = 0
    /\ ready = {}
    /\ first = [i \in Workers |-> TRUE] /\ open = [i \in Workers |-> FALSE]
    /\ dispatched = 0 /\ exited = 0 /\ passed = 0 /\ reaped = 0
    /\ failed = FALSE /\ closed = FALSE
    /\ begun = {} /\ finished = {}

-----------------------------------------------------------------------------
(* A worker.                                                               *)

Ask(i) ==
    /\ wpc[i] = "ask"
    /\ request' = [request EXCEPT ![i] = TRUE]
    /\ wpc' = [wpc EXCEPT ![i] = "wait"]
    /\ UNCHANGED <<job, reply, mastervars, begun, finished>>

Receive(i) ==
    /\ wpc[i] = "wait" /\ reply[i] # Nothing
    /\ job' = [job EXCEPT ![i] = reply[i]]
    /\ reply' = [reply EXCEPT ![i] = Nothing]
    /\ wpc' = [wpc EXCEPT ![i] = IF reply[i] < 0 THEN "exited" ELSE "run"]
    /\ begun' = IF reply[i] < 0 THEN begun ELSE begun \cup {reply[i]}
    /\ UNCHANGED <<request, mastervars, finished>>

\* A later worker has inherited the master's end of this worker's pipe: the
\* end of file comes once they are all gone.
EndOfFile(i) ==
    /\ wpc[i] = "wait" /\ reply[i] = Nothing
    /\ closed /\ \A k \in Workers : k > i => Dead(k)
    /\ wpc' = [wpc EXCEPT ![i] = "exited"]
    /\ UNCHANGED <<job, request, reply, mastervars, begun, finished>>

Finish(i) ==
    /\ wpc[i] = "run"
    /\ wpc' = [wpc EXCEPT ![i] = "ask"]
    /\ finished' = finished \cup {job[i]}
    /\ UNCHANGED <<job, request, reply, mastervars, begun>>

\* An assertion of the test fails: abort.
Crash(i) ==
    /\ wpc[i] = "run"
    /\ wpc' = [wpc EXCEPT ![i] = "crashed"]
    /\ UNCHANGED <<job, request, reply, mastervars, begun, finished>>

-----------------------------------------------------------------------------
(* The master.                                                             *)

Spawn ==
    /\ phase = "spawn"
    /\ wpc' = [wpc EXCEPT ![spawned] = "ask"]
    /\ open' = [open EXCEPT ![spawned] = TRUE]
    /\ spawned' = spawned + 1
    /\ phase' = IF spawned + 1 = N THEN "select" ELSE "spawn"
    /\ UNCHANGED <<job, request, reply, ready, first, dispatched, exited, passed, failed,
                   closed, reaped, begun, finished>>

\* A pipe is readable with a character in it or with its writer gone.
Readable(i) == open[i] /\ (request[i] \/ Gone(i))

Select ==
    /\ phase = "select" /\ exited < N
    /\ \E i \in Workers : Readable(i)
    /\ ready' = {i \in Workers : Readable(i)}
    /\ phase' = "serve"
    /\ UNCHANGED <<workervars, spawned, first, open, dispatched, exited, passed, failed,
                   closed, reaped, begun, finished>>

Lowest(S) == CHOOSE i \in S : \A j \in S : i <= j

Bug_Answer(j) ==
    IF dispatched < Total
      THEN /\ reply' = [reply EXCEPT ![j] = dispatched]
           /\ dispatched' = dispatched + 1
           /\ UNCHANGED <<open, exited>>
      ELSE /\ reply' = [reply EXCEPT ![j] = Leave]
           /\ open' = [open EXCEPT ![j] = FALSE]
           /\ exited' = IF first[j] THEN exited ELSE exited + 1
           /\ UNCHANGED dispatched
Bug_AnswerAgain(j) ==
    IF dispatched < Total
      THEN /\ reply' = [reply EXCEPT ![j] = dispatched]
           /\ dispatched' = IF first[j] THEN dispatched ELSE dispatched + 1
           /\ UNCHANGED <<open, exited>>
      ELSE /\ reply' = [reply EXCEPT ![j] = Leave]
           /\ open' = [open EXCEPT ![j] = FALSE]
           /\ exited' = exited + 1
           /\ UNCHANGED dispatched
\* The next test, or -1 once there is none.
Answer(j) ==
    IF dispatched < Total
      THEN /\ reply' = [reply EXCEPT ![j] = dispatched]
           /\ dispatched' = dispatched + 1
           /\ UNCHANGED <<open, exited>>
      ELSE /\ reply' = [reply EXCEPT ![j] = Leave]
           /\ open' = [open EXCEPT ![j] = FALSE]
           /\ exited' = exited + 1
           /\ UNCHANGED dispatched

Bug_Passed(j) == passed + 1
\* Every request but a worker's first tells of a test that has ended.
Passed(j) == IF first[j] THEN passed ELSE passed + 1

\* One turn of the loop over the workers that select reported.
Serve ==
    /\ phase = "serve" /\ ready # {}
    /\ LET j == Lowest(ready)
       IN  /\ request[j]
           /\ request' = [request EXCEPT ![j] = FALSE]
           /\ passed' = Passed(j)
           /\ first' = [first EXCEPT ![j] = FALSE]
           /\ Answer(j)
           /\ ready' = ready \ {j}
    /\ phase' = IF ready' = {} THEN "select" ELSE "serve"
    /\ UNCHANGED <<wpc, job, spawned, failed, closed, reaped, begun, finished>>

\* The worker has gone without a word: the loops end at once, whatever else was
\* readable.
Abandon ==
    /\ phase = "serve" /\ ready # {}
    /\ ~request[Lowest(ready)]
    /\ failed' = TRUE
    /\ closed' = TRUE
    /\ phase' = "reap"
    /\ ready' = {}
    /\ UNCHANGED <<workervars, spawned, first, open, dispatched, exited, passed, reaped,
                   begun, finished>>

\* All workers have been told to leave.
Close ==
    /\ phase = "select" /\ exited = N
    /\ closed' = TRUE
    /\ phase' = "reap"
    /\ UNCHANGED <<workervars, spawned, ready, first, open, dispatched, exited, passed,
                   failed, reaped, begun, finished>>

\* waitpid with WNOHANG, and SIGKILL if the worker is still alive.
Kill ==
    /\ phase = "reap" /\ failed
    /\ reaped < N /\ ~Gone(reaped)
    /\ wpc' = [wpc EXCEPT ![reaped] = "killed"]
    /\ UNCHANGED <<job, request, reply, mastervars, begun, finished>>

\* waitpid returns when the worker has gone.
Reap ==
    /\ phase = "reap"
    /\ reaped < N /\ Gone(reaped)
    /\ reaped' = reaped + 1
    /\ phase' = IF reaped + 1 = N THEN "done" ELSE "reap"
    /\ UNCHANGED <<workervars, spawned, ready, first, open, dispatched, exited, passed,
                   failed, closed, begun, finished>>

Work(i)   == Ask(i) \/ Receive(i) \/ EndOfFile(i) \/ Finish(i) \/ Crash(i)
Master    == Spawn \/ Select \/ Serve \/ Abandon \/ Close \/ Kill \/ Reap
Next      == (\E i \in Workers : Work(i)) \/ Master
Spec      == Init /\ [][Next]_vars

\* The processes run, and a test ends or aborts.  That the waits inside one end is
\* WaitsEnd of CacheBench, also for fence, which has no limit to panic at.
FairSpec == Spec /\ WF_vars(Master) /\ \A i \in Workers : WF_vars(Work(i))
-----------------------------------------------------------------------------
(* Properties.                                                             *)

\* No test is run twice, whichever workers ask at once.
OnceEach ==
    [][\A i \in Workers : wpc[i] # "run" /\ wpc'[i] = "run" => job'[i] \notin begun]_vars

\* The count that is printed: a success means that every test ran to its end
\* and is counted once, and a test that aborts is never taken for a success,
\* whatever the others were doing.  No test is counted before it has ended.
VerdictRight ==
    /\ passed <= Cardinality(finished)
    /\ phase = "done" =>
         /\ failed <=> \E i \in Workers : wpc[i] = "crashed"
         /\ ~failed => passed = Total /\ finished = Tests

\* The runner ends, and leaves no worker behind, also after a failure.
RunnerEnds == <>[](phase = "done" /\ \A i \in Workers : Gone(i))
=============================================================================
