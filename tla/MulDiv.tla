------------------------------- MODULE MulDiv -------------------------------
(***************************************************************************)
(* The multiplier and the two dividers of the execute stage (multi.sv,     *)
(* div.sv, divu.sv) and the part of alu.sv that waits for them.  Each is a *)
(* bit-serial sequencer with registers of its own: it restarts by itself   *)
(* after an answer and is cleared by a cycle without a request.            *)
(*                                                                         *)
(* The pipeline around them is reduced to what CoreProps shows of it: an   *)
(* operation sits unchanged in dataD until it is answered, is flushed in   *)
(* its first cycle or not at all (DivisionAlone), and leaves at the edge   *)
(* that ends the cycle of its answer, with a bubble behind it.             *)
(***************************************************************************)
EXTENDS Integers

CONSTANTS
    Width,       \* the bits of a register, 64 in the code
    Requests     \* the operations the decoder may issue

ASSUME WidthAssumption == Width \in Nat /\ Width > 1

\* 2 ^ k, by recursion: the prover knows nothing of exponents.
Power2[k \in Nat] == IF k = 0 THEN 1 ELSE 2 * Power2[k - 1]

Modulus == Power2[Width]
Value == 0 .. Modulus - 1
Wrap(x) == x % Modulus
Signed(x) == IF x >= Modulus \div 2 THEN x - Modulus ELSE x
Negative(x) == Signed(x) < 0
Bit(x, k) == (x \div Power2[k]) % 2

Ops == {"MULT", "DIV", "REM", "DIVU", "REMU"}
Request == [op : Ops, a : Value, b : Value]
ASSUME RequestAssumption == Requests \subseteq Request

NoRequest == [op |-> "NONE", a |-> 0, b |-> 0]

VARIABLES
    req,      \* the operation in dataD, with its operands srca and srcb
    fresh,    \* is this the operation's first cycle?
    multi,    \* [i, waiting, ok, result]; ok is data_ok
    div,      \* the same with rem
    divu

vars == <<req, fresh, multi, div, divu>>

TypeOK ==
    /\ req \in Request \cup {NoRequest}
    /\ fresh \in BOOLEAN
    /\ multi \in [i : 0 .. Width + 1, waiting : BOOLEAN, ok : BOOLEAN, result : Value]
    /\ {div, divu} \subseteq [i : 0 .. Width + 1, waiting : BOOLEAN, ok : BOOLEAN,
                              result : Value, rem : Value]

-----------------------------------------------------------------------------
(* One rising edge of each unit.  The counter i runs from 1 to Width + 1;  *)
(* a unit that idles (i = 0) takes its first step at the edge that sees    *)
(* the request.                                                            *)

Started(u) == IF u.i = 0 THEN 1 ELSE u.i

Bug_OneStepMore(u) == u.i = Width + 2
\* The edge after the last step: the answer is there for one cycle.
Complete(u) == u.i = Width + 1
Bug_AnswerNotSaid(u) == [u EXCEPT !.i = 0, !.waiting = TRUE]
Answer(u) == [u EXCEPT !.i = 0, !.ok = TRUE, !.waiting = TRUE]

\* multi.sv: bit i of b adds a shifted by i; bit 0 is left to the alu.
MultiStep(u, a, b) ==
    LET i    == Started(u)
        sum  == IF u.i = 0 THEN 0 ELSE u.result
    IN  [i |-> i + 1, waiting |-> FALSE, ok |-> FALSE,
         result |-> IF Bit(b, i) = 1 THEN Wrap(sum + a * Power2[i]) ELSE sum]

MultiEdge(valid) ==
    CASE ~valid \/ multi.waiting ->
            [i |-> 0, waiting |-> FALSE, ok |-> FALSE, result |-> 0]
      [] valid /\ ~multi.waiting /\ Complete(multi)  -> Answer(multi)
      [] valid /\ ~multi.waiting /\ ~Complete(multi) -> MultiStep(multi, req.a, req.b)

\* divu.sv: restoring division, the bits of a from the highest.
DivuStep(u, a, b) ==
    LET i   == Started(u)
        rem == Wrap(2 * (IF i = 1 THEN 0 ELSE u.rem) + Bit(a, Width - i))
        res == Wrap(2 * (IF u.i = 0 THEN 0 ELSE u.result))
    IN  [i |-> i + 1, waiting |-> FALSE, ok |-> FALSE,
         rem    |-> IF rem >= b THEN rem - b ELSE rem,
         result |-> IF rem >= b THEN Wrap(res + 1) ELSE res]

DivuEdge(valid) ==
    CASE ~valid \/ divu.waiting ->
            [i |-> 0, waiting |-> FALSE, ok |-> FALSE, result |-> 0, rem |-> 0]
      [] valid /\ ~divu.waiting /\ Complete(divu)  -> Answer(divu)
      [] valid /\ ~divu.waiting /\ ~Complete(divu) -> DivuStep(divu, req.a, req.b)

\* div.sv: the same on two's complement numbers.  The partial remainder
\* starts as the sign of a and is moved towards zero by |b| whenever that
\* does not take it past zero.
SignFill(a) == IF Negative(a) THEN Modulus - 1 ELSE 0
Toward(rem, b) == IF Negative(rem) = Negative(b) THEN Wrap(rem - b) ELSE Wrap(rem + b)
Reaches(rem, b) ==
    LET moved == Toward(rem, b)
    IN  rem # 0 /\ b # 0 /\ (moved = 0 \/ Negative(moved) = Negative(rem))

\* The remainder of the operation before, whose bits are still there.
Bug_NoSignFill(u, a, b) ==
    LET i   == IF u.waiting THEN 1 ELSE Started(u)
        rem == Wrap(2 * u.rem + Bit(a, Width - i))
        res == Wrap(2 * (IF i = 1 THEN 0 ELSE u.result))
    IN  [i |-> i + 1, waiting |-> FALSE,
         ok     |-> IF u.i = 0 \/ u.waiting THEN FALSE ELSE u.ok,
         rem    |-> IF Reaches(rem, b) THEN Toward(rem, b) ELSE rem,
         result |-> IF Reaches(rem, b) THEN Wrap(res + 1) ELSE res]
\* One step of the signed division.
DivStep(u, a, b) ==
    LET i   == IF u.waiting THEN 1 ELSE Started(u)
        rem == Wrap(2 * (IF i <= 2 THEN SignFill(a) ELSE u.rem) + Bit(a, Width - i))
        res == Wrap(2 * (IF i = 1 THEN 0 ELSE u.result))
    IN  [i |-> i + 1, waiting |-> FALSE,
         ok     |-> IF u.i = 0 \/ u.waiting THEN FALSE ELSE u.ok,
         rem    |-> IF Reaches(rem, b) THEN Toward(rem, b) ELSE rem,
         result |-> IF Reaches(rem, b) THEN Wrap(res + 1) ELSE res]

\* Unlike the other two, it keeps ok (and rem) when the request goes away, and
\* takes a step at once in the edge after an answer.
DivEdge(valid) ==
    CASE ~valid -> [div EXCEPT !.i = 0, !.waiting = FALSE, !.result = 0]
      [] valid /\ Complete(div)  -> Answer(div)
      [] valid /\ ~Complete(div) -> DivStep(div, req.a, req.b)
-----------------------------------------------------------------------------
(* alu.sv: which unit works on the request, what it waits for and what it  *)
(* makes of the answer.  A division by zero asks no unit.                  *)

MultiValid == req.op = "MULT"
DivValid   == req.op \in {"DIV", "REM"} /\ req.b # 0
DivuValid  == req.op \in {"DIVU", "REMU"} /\ req.b # 0

Bubble ==
    \/ MultiValid /\ ~multi.ok
    \/ DivValid   /\ ~div.ok
    \/ DivuValid  /\ ~divu.ok

\* The sequencer counts how often it moved; the sign of the quotient follows
\* from those of the operands.
SignedQuotient ==
    LET q == Signed(div.result)
    IN  IF Negative(req.a) = Negative(req.b)
          THEN IF q >= 0 THEN div.result ELSE Wrap(-q)
          ELSE IF q <= 0 THEN div.result ELSE Wrap(-q)

Result ==
    CASE req.op = "MULT" -> Wrap(multi.result + (IF Bit(req.b, 0) = 1 THEN req.a ELSE 0))
      [] req.op \in {"DIV", "DIVU"} /\ req.b = 0 -> Modulus - 1
      [] req.op \in {"REM", "REMU"} /\ req.b = 0 -> req.a
      [] req.op = "DIV"  /\ req.b # 0 -> SignedQuotient
      [] req.op = "REM"  /\ req.b # 0 -> div.rem
      [] req.op = "DIVU" /\ req.b # 0 -> divu.result
      [] req.op = "REMU" /\ req.b # 0 -> divu.rem
-----------------------------------------------------------------------------
Clear == [i |-> 0, waiting |-> FALSE, ok |-> FALSE, result |-> 0, rem |-> 0]

\* As the registers are when the core leaves reset.  data_ok of div.sv has no
\* reset: the simulator and the FPGA start it at zero.
Init ==
    /\ req = NoRequest
    /\ fresh = FALSE
    /\ multi = [i |-> 0, waiting |-> FALSE, ok |-> FALSE, result |-> 0]
    /\ div = Clear
    /\ divu = Clear

UnitEdges ==
    /\ multi' = MultiEdge(MultiValid)
    /\ div' = DivEdge(DivValid)
    /\ divu' = DivuEdge(DivuValid)

\* An operation enters dataD, or none does.
Issue ==
    /\ req = NoRequest
    /\ req' \in Requests \cup {NoRequest}
    /\ fresh' = (req' # NoRequest)

Wait ==
    /\ req # NoRequest /\ Bubble
    /\ req' = req
    /\ fresh' = FALSE

Leave ==
    /\ req # NoRequest /\ ~Bubble
    /\ req' = NoRequest
    /\ fresh' = FALSE

\* flushde: an instruction in dataM empties the decode stage.
Flush ==
    /\ req # NoRequest /\ fresh
    /\ req' = NoRequest
    /\ fresh' = FALSE

Next == UnitEdges /\ (Issue \/ Wait \/ Leave \/ Flush)

Spec == Init /\ [][Next]_vars
FairSpec == Spec /\ WF_vars(Next)
-----------------------------------------------------------------------------
(* What RISC-V defines the operations to be.                               *)

Magnitude(x) == IF x < 0 THEN -x ELSE x
Truncated(a, b) ==
    LET q == Magnitude(a) \div Magnitude(b)
    IN  IF (a < 0) = (b < 0) THEN q ELSE -q

Expected ==
    LET a == Signed(req.a)
        b == Signed(req.b)
    IN  CASE req.op = "MULT" -> Wrap(req.a * req.b)
          [] req.op = "DIVU" -> IF req.b = 0 THEN Modulus - 1 ELSE req.a \div req.b
          [] req.op = "REMU" -> IF req.b = 0 THEN req.a ELSE req.a % req.b
          [] req.op = "DIV"  -> IF b = 0 THEN Modulus - 1 ELSE Wrap(Truncated(a, b))
          [] req.op = "REM"  -> IF b = 0 THEN req.a ELSE Wrap(a - b * Truncated(a, b))

Exact(a, k, b) == (Signed(a) \div Power2[k]) % Magnitude(Signed(b)) = 0

\* Where the signed divider is wrong, and nowhere else: negative dividends of
\* which a leading part is a multiple of the divisor and not the whole.  The
\* remainder is zero then, and the bits that follow are added with the wrong
\* sign; if nothing remains at the end the remainder is right for all that.
\* With a divisor of 1 or -1 the remainder is zero after the first bit, which
\* div.sv forgets, and what that does is made good by a second bit of 1.
WrongSign ==
    LET one == Magnitude(Signed(req.b)) = 1
        quotient ==
            IF one THEN Signed(req.a) < -(Modulus \div 4)
                   ELSE \E k \in 1 .. Width - 1 : Exact(req.a, k, req.b) /\ req.a % Power2[k] # 0
        remainder == IF one THEN req.a = Modulus \div 2 ELSE ~Exact(req.a, 0, req.b)
    IN  /\ req.op \in {"DIV", "REM"} /\ Negative(req.a) /\ req.b # 0
        /\ quotient /\ (req.op = "REM" => remainder)

Answered == req # NoRequest /\ ~Bubble

\* An answer is the right one, for the operands it is given to: no step is
\* missed and nothing is left over from an earlier operation, whether that was
\* answered, flushed or went to another unit.  The signed division is wrong
\* for the operands of WrongSign, and for no others.
AnswersRight == Answered => (Result = Expected <=> ~WrongSign)

\* The signed division is right for all operands: the quotient is truncated
\* and the remainder has the sign of the dividend.
SignedDivisionRight == Answered => Result = Expected

\* Every operation that is not flushed is answered: no unit restarts before its
\* answer was taken.
EveryOperationEnds == req # NoRequest ~> req = NoRequest
=============================================================================
