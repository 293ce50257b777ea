----------------------------- MODULE BusMaster ------------------------------
(***************************************************************************)
(* A master of the cache bus as its slaves see it: the wires of creq.  A   *)
(* request stays as it is until its last beat, but for the data, which go  *)
(* on to the next word with each beat of a write; after the last beat      *)
(* there may be a next request at once, as when DCache refills a line it   *)
(* has just written back.                                                  *)
(*                                                                         *)
(* len is the number of beats; the code's mlen_t is one less.              *)
(***************************************************************************)
EXTENDS Words

CONSTANTS
    Lines,          \* the lines of memory
    LineWords,
    Requests        \* the requests a master may raise

Offsets == 0 .. (LineWords - 1)
Addr    == [line : Lines, word : Offsets]
BusRequest == [valid : {TRUE}, write : BOOLEAN, addr : Addr, len : {1, LineWords},
               strobe : SUBSET Lanes, data : Word]

ASSUME BusAssumption ==
    /\ LineWords \in Nat /\ LineWords > 1
    /\ Requests \subseteq BusRequest

\* What the wires may show in the cycle after a response.
Follows(req, resp) ==
    IF ~req.valid \/ resp.last THEN Requests \cup {Silent}
    ELSE IF resp.ready /\ req.write THEN {[req EXCEPT !.data = w] : w \in Word}
    ELSE {req}

\* What the master makes of a response: the data of a write beat are not read.
Latched(req, resp) ==
    IF ~resp.ready THEN NoResponse
    ELSE [resp EXCEPT !.data = IF req.write THEN ZeroWord ELSE @]

\* The k-th word of a burst wraps inside its aligned window.
Wrapped(addr, len, k) ==
    LET lower == (addr.word \div len) * len
    IN  [addr EXCEPT !.word = lower + ((@ - lower + k) % len)]
=============================================================================
