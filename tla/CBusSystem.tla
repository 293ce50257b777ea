---------------------------- MODULE CBusSystem ------------------------------
(***************************************************************************)
(* Any number of cache-bus masters, the arbiter and the simulation memory. *)
(* MemSystem puts the real caches in the masters' place.                   *)
(***************************************************************************)
EXTENDS CBusArbiter, BusMaster

VARIABLES
    tx, enable, mem,    \* the device
    beats,              \* how many beats of its transaction a master has seen
    rsp                 \* the response of the last cycle, as its master read it

vars == <<ireqs, busy, grant, tx, enable, mem, beats, rsp>>

Device == INSTANCE CBusDevice

Init ==
    /\ ArbiterInit
    /\ Device!DeviceInit
    /\ ireqs = [i \in Inputs |-> Silent]
    /\ mem = [a \in Addr |-> ZeroWord]
    /\ beats = [i \in Inputs |-> 0]
    /\ rsp = NoResponse

oresp == Device!DeviceResp
resp(i) == iresp(i, oresp)

\* What the masters do at the edge: count beats and drive the next wires.
MasterEdge ==
    /\ beats' = [i \in Inputs |->
                    CASE resp(i).last  -> 0
                      [] resp(i).ready /\ ~resp(i).last -> beats[i] + 1
                      [] OTHER         -> beats[i]]
    /\ ireqs' \in [Inputs -> UNION {Follows(ireqs[i], resp(i)) : i \in Inputs}]
    /\ \A i \in Inputs : ireqs'[i] \in Follows(ireqs[i], resp(i))

\* The data wires matter to the device only under a request.
strobe == IF oreq.valid THEN oreq.strobe ELSE {}
data   == IF oreq.valid THEN oreq.data ELSE ZeroWord

Next ==
    /\ ArbiterEdge(oresp)
    /\ Device!DeviceEdge(oreq, strobe, data)
    /\ MasterEdge
    /\ rsp' = IF oreq.valid THEN Latched(oreq, oresp) ELSE NoResponse

Spec == Init /\ [][Next]_vars
\* The device is not disabled for ever.
FairSpec == Spec /\ WF_vars(Next /\ enable')

-----------------------------------------------------------------------------
(* Properties.                                                             *)

TypeOK ==
    /\ ireqs \in [Inputs -> BusRequest \cup {Silent}]
    /\ busy \in BOOLEAN /\ grant \in Inputs
    /\ enable \in BOOLEAN
    /\ mem \in [Addr -> Word]
    /\ rsp \in Response
    /\ beats \in [Inputs -> 0 .. LineWords]
    /\ \/ tx = Device!NoTransaction
       \/ tx \in [busy : {TRUE}, is_write : BOOLEAN, N : 1 .. LineWords,
                  addr : Addr, start : Addr, len : {1, LineWords}]

\* CBusDevice's own sanity checks hold behind the arbiter: it sees one request,
\* unchanged, from the cycle it starts to the last beat.
DeviceChecks == Device!Checks(oreq)

\* Beats are counted by the device and by the granted master alike, and no
\* other master has seen a beat: transactions are not interleaved.
BeatsToOwner ==
    \A i \in Inputs :
        beats[i] = IF tx.busy /\ busy /\ grant = i THEN tx.N - 1 ELSE 0

\* A transaction belongs to a grant: nothing is served after the arbiter has
\* let go, and the word served is the one the master counts.
ServedUnderGrant ==
    tx.busy => /\ busy /\ ireqs[grant].valid
               /\ tx.addr = Wrapped(ireqs[grant].addr, tx.len, beats[grant])

beatBar == IF tx.busy THEN tx.N - 1 ELSE 0
Promise == INSTANCE BusMemory WITH creq <- oreq, beat <- beatBar

\* Arbiter and device together are one memory to the bus, the same that
\* AxiSystem shows of the bridge.
DeviceIsBusMemory == Promise!Spec

\* A master is served if the ones before it fall silent for good.
ServedIfOthersRest ==
    \A i \in Inputs :
        (<>[](\A j \in Inputs : j < i => ~ireqs[j].valid))
            => (ireqs[i].valid ~> iresp(i, oresp).last)
=============================================================================
