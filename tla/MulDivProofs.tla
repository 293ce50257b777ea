---------------------------- MODULE MulDivProofs ----------------------------
(***************************************************************************)
(* The multiplier and the dividers for registers of any width.             *)
(*                                                                         *)
(* A unit is idle, under way or has answered (Progress), and what it holds *)
(* after k edges is the product or the quotient of the part of an operand  *)
(* that those edges have taken in (MultiHolds, DivuHolds, DivHolds).       *)
(***************************************************************************)
EXTENDS MulDiv, WellFoundedInduction, TLAPS

-----------------------------------------------------------------------------
(* Powers of two.                                                          *)

\* What holds of 0 and goes from each number to the next holds of all.
LEMMA Induction ==
  ASSUME NEW S \in SUBSET Nat, 0 \in S, \A n \in S : n + 1 \in S
  PROVE  S = Nat
<1> SUFFICES ASSUME Nat \ S # {} PROVE FALSE
  OBVIOUS
<1>1. PICK n \in Nat \ S : \A m \in Nat \ S : ~ (<<m, n>> \in OpToRel(<, Nat))
  BY NatLessThanWellFounded, WFMin
<1>2. n # 0 /\ n - 1 \in Nat OBVIOUS
<1>3. n - 1 \notin S
  <2>1. n - 1 \in S => (n - 1) + 1 \in S OBVIOUS
  <2>2. (n - 1) + 1 = n OBVIOUS
  <2>3. QED BY <2>1, <2>2
<1>4. <<n - 1, n>> \in OpToRel(<, Nat) BY <1>2 DEF OpToRel
<1>5. QED BY <1>1, <1>2, <1>3, <1>4

\* The first n powers.
Powers(n, f) ==
    /\ f \in [0 .. n -> Nat \ {0}]
    /\ f[0] = 1
    /\ \A k \in 0 .. n - 1 : f[k + 1] = 2 * f[k]

LEMMA PowersExist ==
  ASSUME NEW n \in Nat
  PROVE  \E f : Powers(n, f)
<1> DEFINE S == {m \in Nat : \E f : Powers(m, f)}
<1>1. 0 \in S
  <2>1. Powers(0, [k \in 0 .. 0 |-> 1]) BY DEF Powers
  <2>2. QED BY <2>1
<1>2. ASSUME NEW m \in S PROVE m + 1 \in S
  <2>1. PICK f : Powers(m, f) OBVIOUS
  <2> DEFINE g == [k \in 0 .. m + 1 |-> IF k = m + 1 THEN 2 * f[m] ELSE f[k]]
  <2>2. m \in Nat /\ m + 1 \in Nat OBVIOUS
  <2>3. f[m] \in Nat \ {0} BY <2>1, <2>2 DEF Powers
  <2>4. ASSUME NEW k \in 0 .. m + 1 PROVE g[k] \in Nat \ {0}
    <3>1. CASE k = m + 1 BY <2>3, <3>1
    <3>2. CASE k # m + 1
      <4>1. k \in 0 .. m BY <2>2, <3>2
      <4>2. QED BY <2>1, <3>2, <4>1 DEF Powers
    <3>3. QED BY <3>1, <3>2
  <2>5. g \in [0 .. m + 1 -> Nat \ {0}] BY <2>4
  <2>6. g[0] = 1 BY <2>1, <2>2 DEF Powers
  <2>7. ASSUME NEW k \in 0 .. (m + 1) - 1 PROVE g[k + 1] = 2 * g[k]
    <3>1. k \in 0 .. m /\ k + 1 \in 0 .. m + 1 /\ k \in 0 .. m + 1 /\ k # m + 1
      BY <2>2
    <3>2. g[k] = f[k] BY <3>1
    <3>3. CASE k = m BY <3>1, <3>2, <3>3
    <3>4. CASE k # m
      <4>1. k \in 0 .. m - 1 /\ k + 1 # m + 1 BY <2>2, <3>1, <3>4
      <4>2. g[k + 1] = f[k + 1] BY <3>1, <4>1
      <4>3. QED BY <2>1, <3>2, <4>1, <4>2 DEF Powers
    <3>5. QED BY <3>3, <3>4
  <2>8. Powers(m + 1, g) BY <2>5, <2>6, <2>7 DEF Powers
  <2>9. QED BY <2>2, <2>8
<1>3. S \in SUBSET Nat OBVIOUS
<1> HIDE DEF S
<1>4. S = Nat BY <1>1, <1>2, <1>3, Induction
<1>5. QED BY <1>4 DEF S

\* Two tables of powers agree where both are defined.
LEMMA PowersAgree ==
  ASSUME NEW m \in Nat, NEW n \in Nat, NEW f, NEW g, Powers(m, f), Powers(n, g)
  PROVE  \A k \in Nat : k <= m /\ k <= n => f[k] = g[k]
<1> DEFINE S == {k \in Nat : k <= m /\ k <= n => f[k] = g[k]}
<1>1. 0 \in S BY DEF Powers
<1>2. ASSUME NEW k \in S PROVE k + 1 \in S
  <2> SUFFICES ASSUME k + 1 <= m, k + 1 <= n PROVE f[k + 1] = g[k + 1]
    OBVIOUS
  <2>1. k \in 0 .. m - 1 /\ k \in 0 .. n - 1 /\ k <= m /\ k <= n OBVIOUS
  <2>2. f[k + 1] = 2 * f[k] /\ g[k + 1] = 2 * g[k] BY <2>1 DEF Powers
  <2>3. f[k] = g[k] BY <2>1
  <2>4. QED BY <2>2, <2>3
<1>3. S \in SUBSET Nat OBVIOUS
<1> HIDE DEF S
<1>4. S = Nat BY <1>1, <1>2, <1>3, Induction
<1>5. QED BY <1>4 DEF S

\* The recursion that defines Power2 has a solution.
LEMMA PowerRecursion ==
  Power2 = [k \in Nat |-> IF k = 0 THEN 1 ELSE 2 * Power2[k - 1]]
<1> DEFINE Table(n) == CHOOSE f : Powers(n, f)
           P == [k \in Nat |-> Table(k)[k]]
<1>1. ASSUME NEW n \in Nat PROVE Powers(n, Table(n))
  BY PowersExist
<1>2. P[0] = 1 BY <1>1 DEF Powers
<1>3. ASSUME NEW k \in Nat, k # 0 PROVE P[k] = 2 * P[k - 1]
  <2>1. k - 1 \in Nat /\ k - 1 \in 0 .. k - 1 /\ (k - 1) + 1 = k BY <1>3
  <2>2. Table(k)[k] = 2 * Table(k)[k - 1] BY <1>1, <2>1 DEF Powers
  <2>3. Powers(k, Table(k)) /\ Powers(k - 1, Table(k - 1)) BY <1>1, <2>1
  <2>4. \A j \in Nat : j <= k /\ j <= k - 1 => Table(k)[j] = Table(k - 1)[j]
    <3> HIDE DEF Table
    <3>1. QED BY <2>1, <2>3, PowersAgree
  <2>5. Table(k)[k - 1] = Table(k - 1)[k - 1] BY <2>1, <2>4
  <2>6. QED BY <2>1, <2>2, <2>5
<1> HIDE DEF Table
<1>4. P = [k \in Nat |-> IF k = 0 THEN 1 ELSE 2 * P[k - 1]]
  <2>1. ASSUME NEW k \in Nat PROVE P[k] = IF k = 0 THEN 1 ELSE 2 * P[k - 1]
    BY <1>2, <1>3
  <2> HIDE DEF P
  <2>2. P = [k \in Nat |-> P[k]] BY DEF P
  <2>3. QED BY <2>1, <2>2
<1> HIDE DEF P
<1>5. QED BY <1>4 DEF Power2

\* What the rest of the proof knows of the powers of two.
LEMMA Power ==
  /\ Power2[0] = 1
  /\ \A k \in Nat : Power2[k] \in Int /\ Power2[k] > 0 /\ Power2[k + 1] = 2 * Power2[k]
<1>1. Power2[0] = 1 BY PowerRecursion
<1>2. ASSUME NEW k \in Nat PROVE Power2[k + 1] = 2 * Power2[k]
  <2>1. k + 1 \in Nat /\ k + 1 # 0 /\ (k + 1) - 1 = k OBVIOUS
  <2>2. QED BY <2>1, PowerRecursion
<1> DEFINE S == {k \in Nat : Power2[k] \in Int /\ Power2[k] > 0}
<1>3. 0 \in S BY <1>1
<1>4. ASSUME NEW k \in S PROVE k + 1 \in S BY <1>2
<1>5. S \in SUBSET Nat OBVIOUS
<1> HIDE DEF S
<1>6. S = Nat BY <1>3, <1>4, <1>5, Induction
<1>7. QED BY <1>1, <1>2, <1>6 DEF S

\* Powers of two of a sum, of a larger number, and in order.
LEMMA PowerSum ==
  ASSUME NEW i \in Nat, NEW j \in Nat
  PROVE  Power2[i + j] = Power2[i] * Power2[j]
<1> DEFINE p == Power2[i]
           S == {n \in Nat : Power2[i + n] = p * Power2[n]}
<1>1. p \in Int BY Power
<1>2. 0 \in S BY <1>1, Power
<1>3. ASSUME NEW n \in S PROVE n + 1 \in S
  <2>1. n \in Nat /\ i + n \in Nat /\ i + (n + 1) = (i + n) + 1 OBVIOUS
  <2>2. Power2[i + (n + 1)] = 2 * (p * Power2[n]) BY <2>1, Power
  <2>3. Power2[n + 1] = 2 * Power2[n] /\ Power2[n] \in Int BY <2>1, Power
  <2>4. 2 * (p * Power2[n]) = p * (2 * Power2[n])
    <3> HIDE DEF p
    <3>1. QED BY <1>1, <2>3
  <2>5. QED BY <2>1, <2>2, <2>3, <2>4
<1>4. S \in SUBSET Nat OBVIOUS
<1> HIDE DEF S
<1>5. S = Nat BY <1>2, <1>3, <1>4, Induction
<1>6. QED BY <1>5 DEF S

LEMMA PowerMultiple ==
  ASSUME NEW k \in Nat, NEW n \in Nat, k < n
  PROVE  \E c \in Int : c > 0 /\ Power2[n] = Power2[k] * (2 * c)
<1> DEFINE m == n - (k + 1)
<1>1. m \in Nat /\ m + 1 \in Nat /\ k + (m + 1) = n OBVIOUS
<1> HIDE DEF m
<1>2. Power2[n] = Power2[k] * Power2[m + 1] BY <1>1, PowerSum
<1>3. Power2[m] \in Int /\ Power2[m] > 0 /\ Power2[m + 1] = 2 * Power2[m] BY <1>1, Power
<1>4. QED BY <1>2, <1>3

LEMMA PowerGrows ==
  ASSUME NEW k \in Nat, NEW n \in Nat, k <= n
  PROVE  Power2[k] <= Power2[n]
<1>1. CASE k = n BY <1>1, Power
<1>2. CASE k < n
  <2>1. PICK c \in Int : c > 0 /\ Power2[n] = Power2[k] * (2 * c) BY <1>2, PowerMultiple
  <2> DEFINE p == Power2[k]
  <2>2. p \in Int /\ p > 0 BY Power
  <2> HIDE DEF p
  <2>3. 2 * c >= 1 /\ 2 * c \in Int BY <2>1
  <2>4. p * (2 * c) >= p BY <2>2, <2>3
  <2>5. QED BY <2>1, <2>4 DEF p
<1>3. QED BY <1>1, <1>2
-----------------------------------------------------------------------------
(* Division, and numbers of Width bits.                                    *)

LEMMA Division ==
  ASSUME NEW a \in Int, NEW b \in Int, b > 0
  PROVE  /\ a \div b \in Int /\ a % b \in Int
         /\ a = b * (a \div b) + (a % b)
         /\ 0 <= a % b /\ a % b < b
<1>1. a \div b \in Int /\ a % b \in 0 .. b - 1 OBVIOUS
<1>2. a = b * (a \div b) + (a % b) OBVIOUS
<1>3. QED BY <1>1, <1>2

LEMMA SameMultiple ==
  ASSUME NEW b \in Int, b > 0, NEW p \in Int, NEW q \in Int, NEW d \in Int,
         b * p + d = b * q, -b < d, d < b
  PROVE  p = q
<1>1. CASE p < q
  <2>1. b * p + b <= b * q BY <1>1
  <2>2. QED BY <2>1
<1>2. CASE p > q
  <2>1. b * q + b <= b * p BY <1>2
  <2>2. QED BY <2>1
<1>3. QED BY <1>1, <1>2

\* Quotient and remainder are what they should be, and nothing else is.
LEMMA DivisionUnique ==
  ASSUME NEW a \in Int, NEW b \in Int, b > 0, NEW q \in Int, NEW r \in Int,
         a = b * q + r, 0 <= r, r < b
  PROVE  a \div b = q /\ a % b = r
<1>1. PICK p \in Int, s \in Int : /\ p = a \div b /\ s = a % b
                                  /\ a = b * p + s /\ 0 <= s /\ s < b
  BY Division
<1>2. b * p + (s - r) = b * q BY <1>1
<1>3. -b < s - r /\ s - r < b /\ s - r \in Int BY <1>1
<1>4. p = q BY <1>2, <1>3, SameMultiple
<1>5. s = r BY <1>1, <1>4
<1>6. QED BY <1>1, <1>4, <1>5

\* One bit more or less of a number.
LEMMA Halving ==
  ASSUME NEW a \in Int, NEW p \in Int, p > 0
  PROVE  /\ (a \div p) % 2 \in {0, 1}
         /\ a \div p = 2 * (a \div (2 * p)) + ((a \div p) % 2)
         /\ a % (2 * p) = (a % p) + p * ((a \div p) % 2)
<1>1. PICK q \in Int, r \in Int : /\ q = a \div p /\ r = a % p
                                  /\ a = p * q + r /\ 0 <= r /\ r < p
  BY Division
<1>2. PICK h \in Int, t \in {0, 1} : q = 2 * h + t /\ t = q % 2
  OBVIOUS
<1>3. p * q = (2 * p) * h + p * t BY <1>2
<1>4. p * t = 0 \/ p * t = p BY <1>2
<1>5. p * t + r \in Int /\ 0 <= p * t + r /\ p * t + r < 2 * p BY <1>1, <1>4
<1>6. a = (2 * p) * h + (p * t + r) BY <1>1, <1>3, <1>5
<1>7. a \div (2 * p) = h /\ a % (2 * p) = p * t + r
  <2>1. 2 * p \in Int /\ 2 * p > 0 OBVIOUS
  <2>2. QED BY <1>5, <1>6, <2>1, DivisionUnique
<1>8. QED BY <1>1, <1>2, <1>4, <1>7

Half == Modulus \div 2

LEMMA Halves ==
  /\ Half \in Int /\ Half > 1
  /\ Modulus = 2 * Half /\ Modulus \in Int /\ Modulus > 3
  /\ Half = Power2[Width - 1]
<1>1. Width \in Nat /\ Width - 1 \in Nat /\ Width - 2 \in Nat BY WidthAssumption
<1>2. Power2[(Width - 1) + 1] = 2 * Power2[Width - 1] BY <1>1, Power
<1>3. Power2[(Width - 2) + 1] = 2 * Power2[Width - 2] BY <1>1, Power
<1>4. (Width - 1) + 1 = Width /\ (Width - 2) + 1 = Width - 1 BY <1>1
<1>5. Power2[Width - 2] \in Int /\ Power2[Width - 2] > 0 BY <1>1, Power
<1>6. QED BY <1>2, <1>3, <1>4, <1>5 DEF Half, Modulus

LEMMA WrapValue ==
  ASSUME NEW x \in Int
  PROVE  Wrap(x) \in Value /\ Wrap(x) \in Int
BY Halves, Division DEF Wrap, Value

LEMMA WrapIs ==
  ASSUME NEW x \in Int, NEW k \in Int, NEW v \in Value, x = Modulus * k + v
  PROVE  Wrap(x) = v
<1>1. v \in Int /\ 0 <= v /\ v < Modulus BY Halves DEF Value
<1>2. Modulus \in Int /\ Modulus > 0 BY Halves
<1>3. x % Modulus = v BY <1>1, <1>2, DivisionUnique
<1>4. QED BY <1>3 DEF Wrap

LEMMA WrapRest ==
  ASSUME NEW x \in Int
  PROVE  \E k \in Int : x = Modulus * k + Wrap(x)
<1>1. Modulus \in Int /\ Modulus > 0 BY Halves
<1>2. x = Modulus * (x \div Modulus) + (x % Modulus) /\ x \div Modulus \in Int
  BY <1>1, Division
<1>3. QED BY <1>2 DEF Wrap

LEMMA WrapSame ==
  ASSUME NEW v \in Value
  PROVE  Wrap(v) = v
<1>1. v \in Int /\ v = Modulus * 0 + v BY Halves DEF Value
<1>2. QED BY <1>1, WrapIs

LEMMA WrapSum ==
  ASSUME NEW x \in Int, NEW y \in Int
  PROVE  Wrap(Wrap(x) + y) = Wrap(x + y)
<1>1. PICK k \in Int : x = Modulus * k + Wrap(x)
  BY WrapRest
<1>2. Wrap(x) \in Int BY WrapValue
<1> DEFINE z == Wrap(x) + y
<1>3. PICK l \in Int : z = Modulus * l + Wrap(z)
  BY <1>2, WrapRest
<1>4. Wrap(z) \in Value /\ Wrap(z) \in Int BY <1>2, WrapValue
<1>5. x + y = Modulus * (k + l) + Wrap(z)
  <2>1. Modulus * (k + l) = Modulus * k + Modulus * l BY Halves
  <2>2. Modulus * k \in Int /\ Modulus * l \in Int BY Halves
  <2> HIDE DEF z
  <2>3. x + y = Modulus * k + z BY <1>1, <1>2, <2>2 DEF z
  <2>4. QED BY <1>3, <1>4, <2>1, <2>2, <2>3
<1>6. QED BY <1>4, <1>5, WrapIs

\* Two's complement.
LEMMA SignedValue ==
  ASSUME NEW v \in Value
  PROVE  /\ v \in Int /\ Signed(v) \in Int
         /\ -Half <= Signed(v) /\ Signed(v) < Half
         /\ Wrap(Signed(v)) = v
         /\ Negative(v) <=> v >= Half
<1>1. v \in Int /\ 0 <= v /\ v < Modulus BY Halves DEF Value
<1>2. Wrap(v) = v BY WrapSame
<1>3. CASE v >= Half
  <2>1. Signed(v) = v - Modulus BY <1>3 DEF Signed, Half
  <2>2. v - Modulus = Modulus * (-1) + v BY <1>1, Halves
  <2>3. Wrap(v - Modulus) = v BY <1>1, <2>2, Halves, WrapIs
  <2>4. QED BY <1>1, <1>3, <2>1, <2>3, Halves DEF Negative
<1>4. CASE v < Half
  <2>1. Signed(v) = v BY <1>1, <1>4, Halves DEF Signed, Half
  <2>2. QED BY <1>1, <1>2, <1>4, <2>1, Halves DEF Negative
<1>5. QED BY <1>1, <1>3, <1>4, Halves

LEMMA SignedWrap ==
  ASSUME NEW x \in Int, -Half <= x, x < Half
  PROVE  Signed(Wrap(x)) = x
<1>1. CASE x >= 0
  <2>1. x \in Value BY <1>1, Halves DEF Value
  <2>2. Wrap(x) = x BY <2>1, WrapSame
  <2>3. QED BY <2>2, Halves DEF Signed, Half
<1>2. CASE x < 0
  <2>1. x + Modulus \in Value BY <1>2, Halves DEF Value
  <2>2. x = Modulus * (-1) + (x + Modulus) BY Halves
  <2>3. Wrap(x) = x + Modulus BY <2>1, <2>2, WrapIs
  <2>4. x + Modulus >= Half /\ (x + Modulus) - Modulus = x BY Halves
  <2>5. QED BY <2>3, <2>4 DEF Signed, Half
<1>3. QED BY <1>1, <1>2
-----------------------------------------------------------------------------
(* The multiplier: what one edge adds.                                     *)

\* The part of b that edges 1 to k - 1 have taken in.
Multiplied(b, k) == (b % Power2[k]) - (b % 2)

LEMMA ValueIsInt ==
  ASSUME NEW v \in Value
  PROVE  v \in Int /\ 0 <= v /\ v < Modulus
BY Halves DEF Value

LEMMA MultipliedFirst ==
  ASSUME NEW b \in Value
  PROVE  Multiplied(b, 1) = 0
<1>1. Power2[0 + 1] = 2 * Power2[0] BY Power
<1>2. Power2[1] = 2 BY <1>1, Power
<1>3. QED BY <1>2, ValueIsInt DEF Multiplied

LEMMA MultipliedNext ==
  ASSUME NEW b \in Value, NEW k \in Nat
  PROVE  /\ Multiplied(b, k) \in Int
         /\ Bit(b, k) \in {0, 1}
         /\ Multiplied(b, k + 1) = Multiplied(b, k) + Power2[k] * Bit(b, k)
<1>1. b \in Int BY ValueIsInt
<1>2. Power2[k] \in Int /\ Power2[k] > 0 /\ Power2[k + 1] = 2 * Power2[k] BY Power
<1>3. /\ (b \div Power2[k]) % 2 \in {0, 1}
      /\ b % (2 * Power2[k]) = (b % Power2[k]) + Power2[k] * ((b \div Power2[k]) % 2)
  BY <1>1, <1>2, Halving
<1>4. b % Power2[k] \in Int BY <1>1, <1>2, Division
<1>5. b % 2 \in Int BY <1>1
<1>6. Bit(b, k) \in {0, 1} BY <1>3 DEF Bit
<1>7. Power2[k] * Bit(b, k) \in Int BY <1>2, <1>6
<1>8. b % Power2[k + 1] = (b % Power2[k]) + Power2[k] * Bit(b, k) BY <1>2, <1>3 DEF Bit
<1>9. QED BY <1>4, <1>5, <1>6, <1>7, <1>8 DEF Multiplied

\* All bits but the lowest.
LEMMA MultipliedLast ==
  ASSUME NEW b \in Value
  PROVE  Multiplied(b, Width + 1) = b - (b % 2)
<1>1. b \in Int /\ 0 <= b /\ b < Modulus BY ValueIsInt
<1>2. Power2[Width + 1] = 2 * Modulus BY Power, WidthAssumption DEF Modulus
<1>3. b < 2 * Modulus /\ 2 * Modulus \in Int /\ 2 * Modulus > 0 BY <1>1, Halves
<1>4. b % (2 * Modulus) = b
  <2>1. b = (2 * Modulus) * 0 + b BY <1>1, <1>3
  <2>2. QED BY <1>1, <1>3, <2>1, DivisionUnique
<1>5. QED BY <1>2, <1>4 DEF Multiplied

LEMMA MultiStepRight ==
  ASSUME NEW a \in Value, NEW b \in Value, NEW k \in Nat,
         NEW s, s = Wrap(a * Multiplied(b, k))
  PROVE  (IF Bit(b, k) = 1 THEN Wrap(s + a * Power2[k]) ELSE s)
           = Wrap(a * Multiplied(b, k + 1))
<1> DEFINE m == Multiplied(b, k)
<1>1. /\ m \in Int /\ Bit(b, k) \in {0, 1}
      /\ Multiplied(b, k + 1) = m + Power2[k] * Bit(b, k)
  BY MultipliedNext
<1>2. a \in Int /\ Power2[k] \in Int BY ValueIsInt, Power
<1> HIDE DEF m
<1>3. CASE Bit(b, k) = 1
  <2>1. a * (m + Power2[k]) = a * m + a * Power2[k] BY <1>1, <1>2
  <2>2. a * m \in Int /\ a * Power2[k] \in Int BY <1>1, <1>2
  <2>3. Wrap(s + a * Power2[k]) = Wrap(a * m + a * Power2[k]) BY <2>2, WrapSum DEF m
  <2>4. Multiplied(b, k + 1) = m + Power2[k] BY <1>1, <1>2, <1>3
  <2>5. QED BY <1>3, <2>1, <2>3, <2>4
<1>4. CASE Bit(b, k) = 0
  <2>1. Multiplied(b, k + 1) = m BY <1>1, <1>2, <1>4
  <2>2. QED BY <1>4, <2>1 DEF m
<1>5. QED BY <1>1, <1>3, <1>4

\* Bit 0 completes the product.
LEMMA ProductRight ==
  ASSUME NEW a \in Value, NEW b \in Value, NEW s, s = Wrap(a * Multiplied(b, Width + 1))
  PROVE  Wrap(s + (IF Bit(b, 0) = 1 THEN a ELSE 0)) = Wrap(a * b)
<1>1. a \in Int /\ b \in Int BY ValueIsInt
<1>2. b \div 1 = b
  <2>1. b = 1 * b + 0 BY <1>1
  <2>2. QED BY <1>1, <2>1, DivisionUnique
<1>3. Bit(b, 0) = b % 2 BY <1>2, Power DEF Bit
<1> DEFINE t == b % 2
           m == b - t
<1>4. t \in {0, 1} /\ m \in Int BY <1>1
<1>5. s = Wrap(a * m) BY MultipliedLast
<1> HIDE DEF m, t
<1>6. (IF Bit(b, 0) = 1 THEN a ELSE 0) = a * t BY <1>1, <1>3, <1>4 DEF t
<1>7. a * m \in Int /\ a * t \in Int BY <1>1, <1>4
<1>8. Wrap(s + a * t) = Wrap(a * m + a * t) BY <1>5, <1>7, WrapSum
<1>9. a * m + a * t = a * b
  <2>1. m + t = b BY <1>1, <1>4 DEF m
  <2>2. a * (m + t) = a * m + a * t BY <1>1, <1>4
  <2>3. QED BY <2>1, <2>2
<1>10. QED BY <1>6, <1>8, <1>9
-----------------------------------------------------------------------------
(* The unsigned divider: one bit of the dividend.                          *)

\* The leading k bits of x, as a number.
Leading(x, k) == x \div Power2[Width - k]

LEMMA LeadingNext ==
  ASSUME NEW x \in Int, NEW k \in 1 .. Width
  PROVE  LET t == (x \div Power2[Width - k]) % 2
         IN  /\ Leading(x, k - 1) \in Int /\ t \in {0, 1}
             /\ Leading(x, k) = 2 * Leading(x, k - 1) + t
<1>1. Width - k \in Nat /\ (Width - k) + 1 = Width - (k - 1) BY WidthAssumption
<1> DEFINE p == Power2[Width - k]
<1>2. p \in Int /\ p > 0 /\ Power2[Width - (k - 1)] = 2 * p BY <1>1, Power
<1> HIDE DEF p
<1>3. 2 * p \in Int /\ 2 * p > 0 BY <1>2
<1>4. x \div (2 * p) \in Int BY <1>3, Division
<1>5. /\ (x \div p) % 2 \in {0, 1}
      /\ x \div p = 2 * (x \div (2 * p)) + ((x \div p) % 2)
  BY <1>2, Halving
<1>6. QED BY <1>2, <1>4, <1>5 DEF p, Leading

\* Division by a positive number keeps the range.
LEMMA DivisionBounds ==
  ASSUME NEW x \in Int, NEW b \in Int, b > 0
  PROVE  /\ x >= 0 => 0 <= x \div b /\ x \div b <= x
         /\ x < 0 => x <= x \div b /\ x \div b < 0
<1>1. PICK q \in Int, r \in Int : /\ q = x \div b /\ x = b * q + r /\ 0 <= r /\ r < b
  BY Division
<1>2. ASSUME x >= 0 PROVE 0 <= q /\ q <= x
  <2>1. q >= 0
    <3>1. q <= -1 => b * q <= b * (-1) BY <1>1
    <3>2. QED BY <1>1, <1>2, <3>1
  <2>2. q <= b * q BY <1>1, <2>1
  <2>3. b * q \in Int BY <1>1
  <2>4. QED BY <1>1, <2>1, <2>2, <2>3
<1>3. ASSUME x < 0 PROVE x <= q /\ q < 0
  <2>1. q < 0
    <3>1. q >= 0 => b * q >= 0 BY <1>1
    <3>2. b * q \in Int BY <1>1
    <3>3. QED BY <1>1, <1>3, <3>1, <3>2
  <2>2. x <= q
    <3>1. q <= x - 1 => b * q <= b * (x - 1) BY <1>1
    <3>2. b * (x - 1) <= x - b
      <4>1. b * (x - 1) = b * x - b BY <1>1
      <4>2. b * x <= x BY <1>3
      <4>3. b * x \in Int OBVIOUS
      <4>4. QED BY <4>1, <4>2, <4>3
    <3>3. b * q \in Int /\ b * (x - 1) \in Int BY <1>1
    <3>4. QED BY <1>1, <3>1, <3>2, <3>3
  <2>3. QED BY <2>1, <2>2
<1>4. QED BY <1>1, <1>2, <1>3

\* Before the first edge nothing is taken in, after the last all.
LEMMA LeadingEnds ==
  ASSUME NEW x \in Int
  PROVE  /\ 0 <= x /\ x < Modulus => Leading(x, 0) = 0
         /\ -Modulus <= x /\ x < 0 => Leading(x, 0) = -1
         /\ Leading(x, Width) = x
<1>1. Width \in Nat /\ Width - 0 = Width /\ Width - Width = 0 BY WidthAssumption
<1>2. Modulus \in Int /\ Modulus > 0 BY Halves
<1>3. Leading(x, 0) = x \div Modulus BY <1>1 DEF Leading, Modulus
<1>4. 0 <= x /\ x < Modulus => x \div Modulus = 0
  <2>1. x = Modulus * 0 + x BY <1>2
  <2>2. QED BY <1>2, <2>1, DivisionUnique
<1>5. -Modulus <= x /\ x < 0 => x \div Modulus = -1
  <2>1. x = Modulus * (-1) + (x + Modulus) BY <1>2
  <2>2. x + Modulus \in Int /\ -1 \in Int BY <1>2
  <2>3. -Modulus <= x /\ x < 0 => 0 <= x + Modulus /\ x + Modulus < Modulus BY <1>2
  <2>4. QED BY <1>2, <2>1, <2>2, <2>3, DivisionUnique
<1>6. x \div 1 = x
  <2>1. x = 1 * x + 0 OBVIOUS
  <2>2. QED BY <2>1, DivisionUnique
<1>7. Leading(x, Width) = x BY <1>1, <1>6, Power DEF Leading
<1>8. QED BY <1>3, <1>4, <1>5, <1>7

\* What the unsigned divider holds of the number it has taken in.
Divided(lead, b, q, r) == q = lead \div b /\ r = lead % b

\* One step of the division of lead by b.
LEMMA LongDivision ==
  ASSUME NEW lead \in Int, lead >= 0, NEW b \in Int, b > 0, NEW t \in {0, 1},
         NEW q, NEW r, Divided(lead, b, q, r)
  PROVE  /\ q \in Int /\ r \in Int
         /\ 0 <= 2 * r + t /\ 2 * r + t <= 2 * lead + t
         /\ 0 <= 2 * q /\ 2 * q <= 2 * lead + t
         /\ 2 * r + t >= b => /\ Divided(2 * lead + t, b, 2 * q + 1, (2 * r + t) - b)
                              /\ 2 * q + 1 <= 2 * lead + t
         /\ 2 * r + t < b => Divided(2 * lead + t, b, 2 * q, 2 * r + t)
<1>1. q \in Int /\ r \in Int /\ lead = b * q + r /\ 0 <= r /\ r < b
  BY Division DEF Divided
<1>2. 0 <= q /\ q <= lead BY DivisionBounds DEF Divided
<1>3. b * q \in Int /\ 0 <= b * q /\ t \in Int BY <1>1, <1>2
<1>4. 2 * lead + t = b * (2 * q) + (2 * r + t)
  <2>1. b * (2 * q) = 2 * (b * q) BY <1>1
  <2>2. QED BY <1>1, <1>3, <2>1
<1>5. ASSUME 2 * r + t >= b
      PROVE  /\ Divided(2 * lead + t, b, 2 * q + 1, (2 * r + t) - b)
             /\ 2 * q + 1 <= 2 * lead + t
  <2>1. b * (2 * q + 1) = b * (2 * q) + b BY <1>1
  <2>2. b * (2 * q) \in Int BY <1>1
  <2>3. 2 * lead + t = b * (2 * q + 1) + ((2 * r + t) - b) BY <1>1, <1>3, <1>4, <2>1, <2>2
  <2>4. 0 <= (2 * r + t) - b /\ (2 * r + t) - b < b BY <1>1, <1>5
  <2>5. (2 * lead + t) \div b = 2 * q + 1 /\ (2 * lead + t) % b = (2 * r + t) - b
    BY <1>1, <1>3, <2>3, <2>4, DivisionUnique
  <2>6. 2 * q + 1 <= 2 * lead + t
    <3>1. 2 * lead + t \in Int /\ 2 * lead + t >= 0 BY <1>3
    <3>2. QED BY <2>5, <3>1, DivisionBounds
  <2>7. QED BY <2>5, <2>6 DEF Divided
<1>6. ASSUME 2 * r + t < b
      PROVE  Divided(2 * lead + t, b, 2 * q, 2 * r + t)
  <2>1. (2 * lead + t) \div b = 2 * q /\ (2 * lead + t) % b = 2 * r + t
    BY <1>1, <1>3, <1>4, <1>6, DivisionUnique
  <2>2. QED BY <2>1 DEF Divided
<1>7. QED BY <1>1, <1>2, <1>3, <1>5, <1>6

LEMMA DivuStepRight ==
  ASSUME NEW a \in Value, NEW b \in Value, b # 0, NEW k \in 1 .. Width,
         NEW q, NEW r, Divided(Leading(a, k - 1), b, q, r)
  PROVE  LET rem == Wrap(2 * r + Bit(a, Width - k))
             res == Wrap(2 * q)
         IN  Divided(Leading(a, k), b, IF rem >= b THEN Wrap(res + 1) ELSE res,
                                       IF rem >= b THEN rem - b ELSE rem)
<1> DEFINE lead == Leading(a, k - 1)
           t == Bit(a, Width - k)
<1>1. a \in Int /\ 0 <= a /\ a < Modulus BY ValueIsInt
<1>2. b \in Int /\ b > 0 BY ValueIsInt
<1>3. lead \in Int /\ t \in {0, 1} /\ Leading(a, k) = 2 * lead + t
  BY <1>1, LeadingNext DEF Bit
<1>4. lead >= 0 /\ 2 * lead + t <= a
  <2>1. Width - k \in Nat /\ Width - (k - 1) \in Nat BY WidthAssumption
  <2>2. lead >= 0 BY <1>1, <2>1, Power, DivisionBounds DEF Leading
  <2>3. Leading(a, k) <= a BY <1>1, <2>1, Power, DivisionBounds DEF Leading
  <2>4. QED BY <1>3, <2>2, <2>3
<1>5. Divided(lead, b, q, r) OBVIOUS
<1> HIDE DEF lead, t
<1>6. /\ q \in Int /\ r \in Int
      /\ 0 <= 2 * r + t /\ 2 * r + t <= 2 * lead + t
      /\ 0 <= 2 * q /\ 2 * q <= 2 * lead + t
      /\ 2 * r + t >= b => /\ Divided(2 * lead + t, b, 2 * q + 1, (2 * r + t) - b)
                           /\ 2 * q + 1 <= 2 * lead + t
      /\ 2 * r + t < b => Divided(2 * lead + t, b, 2 * q, 2 * r + t)
  BY <1>2, <1>3, <1>4, <1>5, LongDivision
<1>7. t \in Int /\ 2 * lead + t < Modulus /\ Modulus \in Int BY <1>1, <1>3, <1>4, Halves
<1> DEFINE rem == Wrap(2 * r + t)
           res == Wrap(2 * q)
<1>8. rem = 2 * r + t
  <2>1. 2 * r + t \in Value BY <1>3, <1>6, <1>7 DEF Value
  <2>2. QED BY <2>1, WrapSame
<1>9. res = 2 * q
  <2>1. 2 * q \in Value BY <1>3, <1>6, <1>7 DEF Value
  <2>2. QED BY <2>1, WrapSame
<1> HIDE DEF rem, res
<1>10. Divided(Leading(a, k), b, IF rem >= b THEN Wrap(res + 1) ELSE res,
                                 IF rem >= b THEN rem - b ELSE rem)
  <2>1. CASE rem >= b
    <3>1. res + 1 \in Value BY <1>3, <1>6, <1>7, <1>8, <1>9, <2>1 DEF Value
    <3>2. Wrap(res + 1) = res + 1 BY <3>1, WrapSame
    <3>3. 2 * r + t >= b BY <1>8, <2>1
    <3>4. Divided(2 * lead + t, b, 2 * q + 1, (2 * r + t) - b) BY <1>6, <3>3
    <3>5. Divided(Leading(a, k), b, res + 1, rem - b) BY <1>3, <1>8, <1>9, <3>4
    <3>6. QED BY <2>1, <3>2, <3>5
  <2>2. CASE ~(rem >= b)
    <3>1. 2 * r + t < b BY <1>2, <1>6, <1>7, <1>8, <2>2
    <3>2. Divided(Leading(a, k), b, res, rem) BY <1>3, <1>6, <1>8, <1>9, <3>1
    <3>3. QED BY <2>2, <3>2
  <2>3. QED BY <2>1, <2>2
<1>11. QED BY <1>10 DEF rem, res, t
-----------------------------------------------------------------------------
(* The signed divider.                                                     *)

\* The bits of a are those of the number it stands for.
LEMMA SignedBit ==
  ASSUME NEW a \in Value, NEW k \in 0 .. Width - 1
  PROVE  Bit(a, k) = (Signed(a) \div Power2[k]) % 2
<1> DEFINE p == Power2[k]
<1>0. k \in Nat /\ k < Width /\ Width \in Nat BY WidthAssumption
<1>1. p \in Int /\ p > 0 BY <1>0, Power
<1>2. PICK c \in Int : Modulus = p * (2 * c) BY <1>0, PowerMultiple DEF Modulus
<1>3. a \in Int /\ Modulus \in Int BY ValueIsInt, Halves
<1> HIDE DEF p
<1>4. PICK q \in Int, r \in Int : /\ q = a \div p /\ a = p * q + r
                                  /\ 0 <= r /\ r < p
  BY <1>1, <1>3, Division
<1>5. a - Modulus = p * (q - 2 * c) + r
  <2>1. p * (q - 2 * c) = p * q - p * (2 * c) BY <1>1, <1>2, <1>4
  <2>2. p * q \in Int /\ p * (2 * c) \in Int BY <1>1, <1>2, <1>4
  <2>3. QED BY <1>2, <1>3, <1>4, <2>1, <2>2
<1>6. (a - Modulus) \div p = q - 2 * c
  BY <1>1, <1>2, <1>3, <1>4, <1>5, DivisionUnique
<1>7. (q - 2 * c) % 2 = q % 2 BY <1>2, <1>4
<1>8. QED BY <1>3, <1>4, <1>6, <1>7 DEF Bit, Signed, p

\* Values that differ by the modulus are the same.
LEMMA WrapShift ==
  ASSUME NEW x \in Int, NEW k \in Int
  PROVE  Wrap(x + Modulus * k) = Wrap(x)
<1>1. PICK l \in Int : x = Modulus * l + Wrap(x) BY WrapRest
<1>2. Wrap(x) \in Value /\ Wrap(x) \in Int BY WrapValue
<1>3. Modulus * (l + k) = Modulus * l + Modulus * k BY Halves
<1>4. Modulus * l \in Int /\ Modulus * k \in Int BY Halves
<1>5. x + Modulus * k = Modulus * (l + k) + Wrap(x) BY <1>1, <1>2, <1>3, <1>4
<1>6. x + Modulus * k \in Int /\ l + k \in Int BY <1>4
<1>7. QED BY <1>2, <1>5, <1>6, WrapIs

LEMMA SignedIs ==
  ASSUME NEW v \in Value
  PROVE  \E k \in {0, 1} : v = Signed(v) + Modulus * k
<1>1. v \in Int /\ Modulus \in Int BY ValueIsInt, Halves
<1>2. CASE v >= Half
  <2>1. v = Signed(v) + Modulus * 1 BY <1>1, <1>2 DEF Signed, Half
  <2>2. QED BY <2>1
<1>3. CASE ~(v >= Half)
  <2>1. v = Signed(v) + Modulus * 0 BY <1>1, <1>3 DEF Signed, Half
  <2>2. QED BY <2>1
<1>4. QED BY <1>2, <1>3

\* The divisor as the divider uses it.
Size(b) == Magnitude(Signed(b))

LEMMA SizeBounds ==
  ASSUME NEW b \in Value, b # 0
  PROVE  /\ Size(b) \in Int /\ 0 < Size(b) /\ Size(b) <= Half
         /\ Negative(b) => Signed(b) = -Size(b)
         /\ ~Negative(b) => Signed(b) = Size(b)
<1>1. Signed(b) \in Int /\ -Half <= Signed(b) /\ Signed(b) < Half BY SignedValue
<1>2. Signed(b) # 0
  <2>1. PICK k \in {0, 1} : b = Signed(b) + Modulus * k BY SignedIs
  <2>2. b < Modulus /\ Modulus \in Int BY ValueIsInt, Halves
  <2>3. QED BY <2>1, <2>2
<1>3. Half \in Int BY Halves
<1>4. QED BY <1>1, <1>2, <1>3 DEF Size, Magnitude, Negative

\* How rem moves towards zero, and when it may.
LEMMA TowardIs ==
  ASSUME NEW v \in Value, NEW b \in Value, b # 0
  PROVE  LET x == Signed(v)
             s == Size(b)
         IN  /\ Toward(v, b) \in Value
             /\ Signed(Toward(v, b)) = IF x < 0 THEN x + s ELSE x - s
             /\ Reaches(v, b) <=> (x < 0 /\ x + s <= 0) \/ (x > 0 /\ x - s >= 0)
<1> DEFINE x == Signed(v)
           s == Size(b)
           y == IF x < 0 THEN x + s ELSE x - s
<1>1. /\ x \in Int /\ -Half <= x /\ x < Half /\ v \in Int
      /\ Negative(v) <=> x < 0
  BY SignedValue DEF Negative
<1>2. /\ s \in Int /\ 0 < s /\ s <= Half
      /\ Negative(b) => Signed(b) = -s
      /\ ~Negative(b) => Signed(b) = s
  BY SizeBounds
<1>3. PICK k \in {0, 1} : v = x + Modulus * k BY SignedIs
<1>4. PICK l \in {0, 1} : b = Signed(b) + Modulus * l BY SignedIs
<1>5. Half \in Int /\ Modulus \in Int /\ Half > 1 BY Halves
<1>6. b \in Int BY ValueIsInt
<1>7. Negative(v) \in BOOLEAN /\ Negative(b) \in BOOLEAN BY DEF Negative
<1> HIDE DEF x, s
<1>8. y \in Int /\ -Half <= y /\ y < Half BY <1>1, <1>2, <1>5
<1>9. Toward(v, b) = Wrap(y)
  <2>1. Modulus * k \in Int /\ Modulus * l \in Int BY <1>5
  <2>2. CASE Negative(v) = Negative(b)
    <3>1. x - Signed(b) = y BY <1>1, <1>2, <1>7, <2>2
    <3>2. Modulus * (k - l) = Modulus * k - Modulus * l BY <1>5
    <3>3. v - b = y + Modulus * (k - l)
      BY <1>1, <1>2, <1>3, <1>4, <1>6, <1>8, <2>1, <3>1, <3>2
    <3>4. Wrap(v - b) = Wrap(y) BY <1>8, <3>3, WrapShift
    <3>5. QED BY <2>2, <3>4 DEF Toward
  <2>3. CASE ~(Negative(v) = Negative(b))
    <3>1. x + Signed(b) = y BY <1>1, <1>2, <1>7, <2>3
    <3>2. Modulus * (k + l) = Modulus * k + Modulus * l BY <1>5
    <3>3. v + b = y + Modulus * (k + l)
      BY <1>1, <1>2, <1>3, <1>4, <1>6, <1>8, <2>1, <3>1, <3>2
    <3>4. Wrap(v + b) = Wrap(y) BY <1>8, <3>3, WrapShift
    <3>5. QED BY <2>3, <3>4 DEF Toward
  <2>4. QED BY <2>2, <2>3
<1>10. Wrap(y) \in Value /\ Signed(Wrap(y)) = y BY <1>8, WrapValue, SignedWrap
<1> HIDE DEF y
<1>11. Wrap(y) = 0 <=> y = 0
  <2>1. 0 \in Value BY Halves DEF Value
  <2>2. Wrap(0) = 0 BY <2>1, WrapSame
  <2>3. Signed(0) = 0 BY <1>5, <2>1 DEF Signed, Half
  <2>4. QED BY <1>10, <2>2, <2>3
<1>12. v = 0 <=> x = 0
  <2>1. v < Modulus /\ 0 <= v BY ValueIsInt
  <2>2. v = x \/ v = x + Modulus BY <1>1, <1>3, <1>5
  <2>3. Modulus = 2 * Half BY Halves
  <2>4. QED BY <1>1, <1>5, <2>1, <2>2, <2>3
<1>13. Reaches(v, b) <=> x # 0 /\ (y = 0 \/ ((y < 0) <=> (x < 0)))
  BY <1>1, <1>9, <1>10, <1>11, <1>12 DEF Reaches, Negative, x
<1>14. Reaches(v, b) <=> (x < 0 /\ x + s <= 0) \/ (x > 0 /\ x - s >= 0)
  BY <1>1, <1>2, <1>13 DEF y
<1>15. QED BY <1>9, <1>10, <1>14 DEF y, x, s

\* What the signed divider holds of the number it has taken in: the truncated
\* quotient without its sign, and the remainder with the sign of lead.
Truncating(lead, s, q, x) ==
    /\ q \in Int /\ q >= 0 /\ x \in Int
    /\ lead < 0 => lead = x - s * q /\ -s < x /\ x <= 0
    /\ lead >= 0 => lead = x + s * q /\ 0 <= x /\ x < s

LEMMA TruncatingBounds ==
  ASSUME NEW lead \in Int, NEW s \in Int, s > 0, NEW q, NEW x, Truncating(lead, s, q, x)
  PROVE  /\ lead < 0 => lead <= x /\ q <= -lead
         /\ lead >= 0 => x <= lead /\ q <= lead
<1>1. q \in Int /\ q >= 0 /\ x \in Int BY DEF Truncating
<1>2. s * q \in Int /\ q <= s * q BY <1>1
<1>3. QED BY <1>1, <1>2 DEF Truncating

LEMMA TruncatingStep ==
  ASSUME NEW lead \in Int, NEW s \in Int, s > 0, NEW q, NEW x, NEW t \in {0, 1},
         Truncating(lead, s, q, x), lead < 0 /\ x = 0 => t = 0
  PROVE  LET y == 2 * x + t
             next == 2 * lead + t
         IN  /\ y \in Int /\ 2 * q \in Int
             /\ next < 0 <=> lead < 0
             /\ next < 0 => next <= y /\ y <= 0
             /\ next >= 0 => 0 <= y /\ y <= next
             /\ 0 <= 2 * q
             /\ next < 0 => 2 * q <= -next + 1
             /\ next >= 0 => 2 * q <= next
             /\ y < 0 /\ y + s <= 0 => Truncating(next, s, 2 * q + 1, y + s)
             /\ y > 0 /\ y - s >= 0 => Truncating(next, s, 2 * q + 1, y - s)
             /\ ~(y < 0 /\ y + s <= 0) /\ ~(y > 0 /\ y - s >= 0) => Truncating(next, s, 2 * q, y)
<1> DEFINE y == 2 * x + t
           next == 2 * lead + t
           m == s * q
<1>1. q \in Int /\ q >= 0 /\ x \in Int /\ t \in Int BY DEF Truncating
<1>2. m \in Int /\ q <= m /\ s * (2 * q) = 2 * m /\ s * (2 * q + 1) = 2 * m + s BY <1>1
<1>3. /\ lead < 0 => lead = x - m /\ -s < x /\ x <= 0
      /\ lead >= 0 => lead = x + m /\ 0 <= x /\ x < s
  BY DEF Truncating
<1> HIDE DEF m
<1>4. y \in Int /\ next \in Int /\ 2 * q \in Int /\ 2 * q >= 0 BY <1>1
<1>5. next < 0 <=> lead < 0 BY <1>1
<1>6. next < 0 => /\ next = y - 2 * m /\ next <= y /\ y <= 0
                  /\ 2 * q <= -next + 1 /\ y > -2 * s
  BY <1>1, <1>2, <1>3, <1>5
<1>7. next >= 0 => /\ next = y + 2 * m /\ 0 <= y /\ y <= next
                   /\ 2 * q <= next /\ y < 2 * s
  BY <1>1, <1>2, <1>3, <1>5
<1> HIDE DEF y, next
<1>8. y < 0 /\ y + s <= 0 => Truncating(next, s, 2 * q + 1, y + s)
  BY <1>1, <1>2, <1>4, <1>6, <1>7 DEF Truncating
<1>9. y > 0 /\ y - s >= 0 => Truncating(next, s, 2 * q + 1, y - s)
  BY <1>1, <1>2, <1>4, <1>6, <1>7 DEF Truncating
<1>10. ~(y < 0 /\ y + s <= 0) /\ ~(y > 0 /\ y - s >= 0) => Truncating(next, s, 2 * q, y)
  BY <1>1, <1>2, <1>4, <1>6, <1>7 DEF Truncating
<1>11. QED BY <1>4, <1>5, <1>6, <1>7, <1>8, <1>9, <1>10 DEF y, next
-----------------------------------------------------------------------------
(* The signed divider where it goes wrong: after a leading part of a       *)
(* negative dividend that the divisor divides.                             *)

\* A number and what it stands for leave the same remainders.
LEMMA SignedRest ==
  ASSUME NEW a \in Value, NEW k \in 0 .. Width - 1
  PROVE  Signed(a) % Power2[k] = a % Power2[k]
<1> DEFINE p == Power2[k]
<1>0. k \in Nat /\ k < Width /\ Width \in Nat BY WidthAssumption
<1>1. p \in Int /\ p > 0 BY <1>0, Power
<1>2. PICK c \in Int : Modulus = p * (2 * c) BY <1>0, PowerMultiple DEF Modulus
<1>3. a \in Int /\ Modulus \in Int BY ValueIsInt, Halves
<1> HIDE DEF p
<1>4. PICK q \in Int, r \in Int : /\ r = a % p /\ a = p * q + r
                                  /\ 0 <= r /\ r < p
  BY <1>1, <1>3, Division
<1>5. a - Modulus = p * (q - 2 * c) + r
  <2>1. p * (q - 2 * c) = p * q - p * (2 * c) BY <1>1, <1>2, <1>4
  <2>2. p * q \in Int /\ p * (2 * c) \in Int BY <1>1, <1>2, <1>4
  <2>3. QED BY <1>2, <1>3, <1>4, <2>1, <2>2
<1>6. (a - Modulus) % p = r
  <2> DEFINE x == a - Modulus
             y == q - 2 * c
  <2>1. x \in Int /\ y \in Int /\ x = p * y + r BY <1>2, <1>3, <1>4, <1>5
  <2> HIDE DEF x, y
  <2>2. x % p = r BY <1>1, <1>4, <2>1, DivisionUnique
  <2>3. QED BY <2>2 DEF x
<1>7. QED BY <1>4, <1>6 DEF Signed, p

\* Has the part of n bits lost its sign: is there a shorter one, not the sign
\* alone, that b divides and that is followed by a 1?
Lost(a, b, n) ==
    \E k \in 1 .. Width - 1 :
        k > Width - n /\ Exact(a, k, b) /\ (a % Power2[k]) \div Power2[Width - n] # 0

\* Nothing is lost with the sign bit, and all that is ever lost by the last bit.
LEMMA LostEnds ==
  ASSUME NEW a \in Value, NEW b \in Value
  PROVE  /\ ~Lost(a, b, 0) /\ ~Lost(a, b, 1)
         /\ Lost(a, b, Width) <=> \E k \in 1 .. Width - 1 : Exact(a, k, b) /\ a % Power2[k] # 0
<1>1. Width \in Nat /\ Width - Width = 0 BY WidthAssumption
<1>2. \A k \in 1 .. Width - 1 : ~(k > Width - 0) /\ ~(k > Width - 1) /\ k > Width - Width
  BY <1>1
<1>3. ASSUME NEW k \in 1 .. Width - 1
      PROVE  (a % Power2[k]) \div Power2[0] = a % Power2[k]
  <2>1. k \in Nat /\ a \in Int BY <1>1, ValueIsInt
  <2>2. Power2[k] \in Int /\ Power2[k] > 0 /\ Power2[0] = 1 BY <2>1, Power
  <2>3. PICK r \in Int : r = a % Power2[k] BY <2>1, <2>2, Division
  <2>4. r = 1 * r + 0 BY <2>3
  <2>5. r \div 1 = r BY <2>4, DivisionUnique
  <2>6. QED BY <2>2, <2>3, <2>5
<1>4. QED BY <1>1, <1>2, <1>3 DEF Lost

\* Bits of a number between two places.
LEMMA LowBits ==
  ASSUME NEW a \in Int, NEW p \in Int, p > 0, NEW c \in Int, c > 0
  PROVE  LET x == a % (p * (2 * c))
             t == (a \div p) % 2
         IN  /\ x \in Int /\ x >= 0
             /\ x \div (2 * p) = 0 => a % (2 * p) = x
             /\ x \div p = 2 * (x \div (2 * p)) + t
             /\ x \div (2 * p) \in Int /\ x \div (2 * p) >= 0 /\ t \in {0, 1}
<1> DEFINE m == p * (2 * c)
           x == a % m
           t == (a \div p) % 2
<1>1. m = (2 * p) * c /\ m = p * (2 * c) /\ m \in Int /\ 2 * p \in Int /\ 2 * p > 0 OBVIOUS
<1>2. m > 0
  <2>1. 2 * c >= 1 /\ 2 * c \in Int OBVIOUS
  <2>2. p * (2 * c) >= p BY <2>1
  <2>3. QED BY <2>2
<1> HIDE DEF m
<1>3. PICK q \in Int, r \in Int : r = x /\ a = m * q + r /\ 0 <= r /\ r < m
  BY <1>1, <1>2, Division
<1> HIDE DEF x
<1>4. PICK h \in Int, l \in Int : /\ h = r \div (2 * p) /\ l = r % (2 * p)
                                  /\ r = (2 * p) * h + l /\ 0 <= l /\ l < 2 * p
  BY <1>1, <1>3, Division
<1>5. h >= 0
  <2> DEFINE d == 2 * p
  <2>1. d \in Int /\ d > 0 /\ r = d * h + l /\ l < d BY <1>1, <1>4
  <2> HIDE DEF d
  <2>2. h <= -1 => d * h <= d * (-1) BY <1>4, <2>1
  <2>3. d * h \in Int BY <1>4, <2>1
  <2>4. QED BY <1>3, <1>4, <2>1, <2>2, <2>3
<1>6. a % (2 * p) = l
  <2> DEFINE d == 2 * p
             e == c * q
  <2>1. d \in Int /\ d > 0 /\ m = d * c /\ r = d * h + l /\ l < d BY <1>1, <1>4
  <2> HIDE DEF d
  <2>2. m * q = d * e BY <1>3, <2>1
  <2>3. e \in Int BY <1>3
  <2> HIDE DEF e
  <2>4. d * (e + h) = d * e + d * h /\ d * e \in Int /\ d * h \in Int
    BY <1>4, <2>1, <2>3
  <2>5. a = d * (e + h) + l
    <3> DEFINE u == d * e
               w == d * h
    <3>1. a = u + r /\ r = w + l /\ d * (e + h) = u + w /\ u \in Int /\ w \in Int
      BY <1>3, <2>1, <2>2, <2>4
    <3>2. r \in Int /\ l \in Int BY <1>3, <1>4
    <3> HIDE DEF u, w
    <3>3. u + (w + l) = (u + w) + l BY <3>1, <3>2
    <3>4. QED BY <3>1, <3>3
  <2>6. e + h \in Int BY <1>4, <2>3
  <2>7. a % d = l BY <1>4, <2>1, <2>5, <2>6, DivisionUnique
  <2>8. QED BY <2>7 DEF d
<1>7. /\ t \in {0, 1} /\ a % (2 * p) = (a % p) + p * t
      /\ a % p \in Int /\ 0 <= a % p /\ a % p < p
  BY Halving, Division
<1> HIDE DEF t
<1>8. r \div p = 2 * h + t
  <2> DEFINE g == 2 * h + t
  <2>1. l = (a % p) + p * t BY <1>6, <1>7
  <2>2. g \in Int BY <1>4, <1>7
  <2>3. p * g = (2 * p) * h + p * t
    <3>1. h \in Int /\ t \in Int BY <1>4, <1>7
    <3>2. p * (2 * h + t) = p * (2 * h) + p * t BY <3>1
    <3>3. p * (2 * h) = (2 * p) * h BY <3>1
    <3>4. QED BY <3>2, <3>3
  <2>4. p * t \in Int /\ (2 * p) * h \in Int BY <1>4, <1>7
  <2> DEFINE y == a % p
  <2>5. y \in Int /\ 0 <= y /\ y < p /\ l = y + p * t BY <1>7, <2>1
  <2> HIDE DEF g, y
  <2>6. r = p * g + y BY <1>4, <2>3, <2>4, <2>5
  <2>7. r \div p = g BY <1>3, <2>2, <2>5, <2>6, DivisionUnique
  <2>8. QED BY <2>7 DEF g
<1>9. h = 0 => l = r BY <1>1, <1>4
<1>10. QED BY <1>3, <1>4, <1>5, <1>6, <1>7, <1>8, <1>9 DEF m, x, t

\* A multiple of a number that s divides.
LEMMA DivisibleProduct ==
  ASSUME NEW s \in Int, s > 0, NEW q \in Int, NEW c \in Int, q % s = 0
  PROVE  (c * q) % s = 0
<1>1. PICK d \in Int : q = s * d
  <2>1. q = s * (q \div s) + (q % s) /\ q \div s \in Int BY Division
  <2>2. s * (q \div s) \in Int BY <2>1
  <2>3. QED BY <2>1, <2>2
<1>2. c * q = s * (c * d) BY <1>1
<1> DEFINE x == c * q
           y == c * d
<1>3. x \in Int /\ y \in Int /\ x = s * y BY <1>1, <1>2
<1> HIDE DEF x, y
<1>4. s * y \in Int /\ x = s * y + 0 BY <1>3
<1>5. x % s = 0 BY <1>3, <1>4, DivisionUnique
<1>6. QED BY <1>5 DEF x

\* A part loses its sign with its last bit, or has lost it before.
LEMMA LostNext ==
  ASSUME NEW a \in Value, NEW b \in Value, b # 0, NEW n \in 1 .. Width - 1
  PROVE  Lost(a, b, n + 1) <=>
           \/ Lost(a, b, n)
           \/ Leading(Signed(a), n) % Size(b) = 0 /\ Bit(a, Width - (n + 1)) = 1
<1> DEFINE m == Width - (n + 1)
           p == Power2[m]
           t == (a \div p) % 2
           S == Signed(a)
           s == Size(b)
<1>1. /\ Width \in Nat /\ m \in Nat /\ m + 1 = Width - n /\ m + 1 \in 1 .. Width - 1
      /\ m + 1 \in Nat
  BY WidthAssumption
<1>2. p \in Int /\ p > 0 /\ Power2[m + 1] = 2 * p BY <1>1, Power
<1>3. a \in Int /\ S \in Int BY SignedValue
<1>4. s \in Int /\ s > 0 BY SizeBounds
<1> HIDE DEF s
<1>5. t \in {0, 1} /\ t = Bit(a, m)
  <2>1. t \in {0, 1} BY <1>2, <1>3, Halving
  <2>2. QED BY <2>1 DEF Bit
<1> HIDE DEF p
\* What the bits above m + 1 say of those above m.
<1>6. ASSUME NEW k \in 1 .. Width - 1, k > m + 1
      PROVE  LET x == a % Power2[k]
             IN  /\ x \div p = 2 * (x \div (2 * p)) + t
                 /\ x \div (2 * p) \in Int /\ x \div (2 * p) >= 0
                 /\ x \div (2 * p) = 0 /\ Exact(a, k, b) => Exact(a, m + 1, b)
  <2>1. k \in Nat /\ m < k BY <1>1, <1>6
  <2>2. PICK c \in Int : c > 0 /\ Power2[k] = p * (2 * c)
    BY <1>1, <2>1, PowerMultiple DEF p
  <2> DEFINE x == a % Power2[k]
  <2>3. /\ x \in Int /\ x >= 0
        /\ x \div (2 * p) = 0 => a % (2 * p) = x
        /\ x \div p = 2 * (x \div (2 * p)) + t
        /\ x \div (2 * p) \in Int /\ x \div (2 * p) >= 0
    BY <1>2, <1>3, <2>2, LowBits
  <2>4. ASSUME x \div (2 * p) = 0, Exact(a, k, b) PROVE Exact(a, m + 1, b)
    <3>1. S % Power2[k] = x /\ S % (2 * p) = a % (2 * p)
      BY <1>1, <1>2, SignedRest
    <3>2. S % (2 * p) = x BY <2>3, <2>4, <3>1
    <3> DEFINE d == 2 * p
               Q == S \div Power2[k]
    <3>3. d \in Int /\ d > 0 /\ Power2[k] = d * c
      <4>1. p * (2 * c) = (2 * p) * c BY <1>2, <2>2
      <4>2. QED BY <1>2, <2>2, <4>1
    <3>4. Power2[k] \in Int /\ Power2[k] > 0 BY <2>1, Power
    <3>5. S = Power2[k] * Q + x /\ Q \in Int
      <4> HIDE DEF S, x
      <4>1. S = Power2[k] * (S \div Power2[k]) + (S % Power2[k]) /\ S \div Power2[k] \in Int
        BY <1>3, <3>4, Division
      <4>2. QED BY <3>1, <4>1
    <3>6. 0 <= x /\ x < d
      <4> HIDE DEF S, x, d
      <4>1. 0 <= S % d /\ S % d < d BY <1>3, <3>3, Division
      <4>2. QED BY <3>2, <4>1 DEF d
    <3> HIDE DEF Q, d, S, x
    <3>7. Power2[k] * Q = d * (c * Q) /\ c * Q \in Int BY <2>2, <3>3, <3>5
    <3>8. S = d * (c * Q) + x BY <3>5, <3>7
    <3>9. S \div d = c * Q BY <1>3, <2>3, <3>3, <3>6, <3>7, <3>8, DivisionUnique
    <3>10. Q % s = 0 BY <2>4 DEF Exact, Q, S, s, Size
    <3>11. (c * Q) % s = 0 BY <1>4, <2>2, <3>5, <3>10, DivisibleProduct
    <3>12. (S \div d) % s = 0 BY <3>9, <3>11
    <3>13. (S \div Power2[m + 1]) % s = 0 BY <1>2, <3>12 DEF d
    <3>14. QED BY <3>13 DEF Exact, S, s, Size
  <2>5. QED BY <2>3, <2>4 DEF x
\* The highest bit below a leading part.
<1>7. (a % Power2[m + 1]) \div p = t
  <2>1. a % (2 * p) = (a % p) + p * t BY <1>2, <1>3, Halving
  <2>2. a % p \in Int /\ 0 <= a % p /\ a % p < p BY <1>2, <1>3, Division
  <2> HIDE DEF t
  <2>3. a % (2 * p) \in Int /\ a % (2 * p) = p * t + (a % p)
    <3>1. p * t \in Int BY <1>2, <1>5
    <3>2. QED BY <2>1, <2>2, <3>1
  <2>4. t \in Int BY <1>5
  <2> DEFINE x == a % (2 * p)
             r == a % p
  <2>5. x \in Int /\ r \in Int /\ x = p * t + r /\ 0 <= r /\ r < p BY <2>2, <2>3
  <2> HIDE DEF x, r
  <2>6. x \div p = t BY <1>2, <2>4, <2>5, DivisionUnique
  <2>7. QED BY <1>2, <2>6 DEF x
<1>8. Exact(a, m + 1, b) <=> Leading(S, n) % s = 0
  BY <1>1 DEF Exact, Leading, s, Size
<1>9. Width - (n + 1) = m OBVIOUS
<1> HIDE DEF t, m, S
<1>10. ASSUME Lost(a, b, n) PROVE Lost(a, b, n + 1)
  <2>1. PICK k \in 1 .. Width - 1 : /\ k > Width - n /\ Exact(a, k, b)
                                    /\ (a % Power2[k]) \div Power2[Width - n] # 0
    BY <1>10 DEF Lost
  <2>2. k > m + 1 /\ k > m BY <1>1, <2>1
  <2>3. (a % Power2[k]) \div (2 * p) # 0 BY <1>1, <1>2, <2>1
  <2>4. (a % Power2[k]) \div p # 0 BY <1>5, <1>6, <2>2, <2>3
  <2>5. QED BY <1>9, <2>1, <2>2, <2>4 DEF Lost, p
<1>11. ASSUME Leading(S, n) % s = 0, t = 1 PROVE Lost(a, b, n + 1)
  <2>1. Exact(a, m + 1, b) /\ (a % Power2[m + 1]) \div p # 0 BY <1>7, <1>8, <1>11
  <2>2. m + 1 > m BY <1>1
  <2>3. QED BY <1>1, <1>9, <2>1, <2>2 DEF Lost, p
<1>12. ASSUME Lost(a, b, n + 1), ~Lost(a, b, n)
       PROVE  Leading(S, n) % s = 0 /\ t = 1
  <2>1. PICK k \in 1 .. Width - 1 : /\ k > m /\ Exact(a, k, b)
                                    /\ (a % Power2[k]) \div p # 0
    BY <1>9, <1>12 DEF Lost, p
  <2>2. CASE k = m + 1 BY <1>5, <1>7, <1>8, <2>1, <2>2
  <2>3. CASE k # m + 1
    <3>1. k > m + 1 BY <1>1, <2>1, <2>3
    <3>2. (a % Power2[k]) \div (2 * p) = 0
      BY <1>1, <1>2, <1>12, <2>1, <3>1 DEF Lost
    <3>3. Exact(a, m + 1, b) /\ (a % Power2[k]) \div p = t
      <4>1. Exact(a, m + 1, b) BY <1>6, <2>1, <3>1, <3>2
      <4>2. (a % Power2[k]) \div p = 2 * 0 + t BY <1>6, <3>1, <3>2
      <4>3. QED BY <1>5, <4>1, <4>2
    <3>4. QED BY <1>5, <1>8, <2>1, <3>3
  <2>4. QED BY <2>2, <2>3
<1>13. QED BY <1>5, <1>9, <1>10, <1>11, <1>12 DEF S, s

LEMMA SignFillValue ==
  ASSUME NEW a \in Value
  PROVE  SignFill(a) \in Value /\ Signed(SignFill(a)) = IF Negative(a) THEN -1 ELSE 0
<1>1. Half \in Int /\ Half > 1 /\ Modulus = 2 * Half BY Halves
<1>2. 0 \in Value /\ Modulus - 1 \in Value BY <1>1 DEF Value
<1>3. Signed(0) = 0 /\ Signed(Modulus - 1) = -1 BY <1>1 DEF Signed, Half
<1>4. QED BY <1>2, <1>3 DEF SignFill

\* The sign of the dividend is what its first bit stands for.
LEMMA FirstBit ==
  ASSUME NEW a \in Value, NEW b \in Value, b # 0, Negative(a) => Size(b) > 1
  PROVE  /\ Truncating(Leading(Signed(a), 0), Size(b), 0, Signed(SignFill(a)))
         /\ \A q, x : Truncating(Leading(Signed(a), 1), Size(b), q, x)
                         => x = Signed(SignFill(a))
<1> DEFINE S == Signed(a)
           s == Size(b)
           x == Signed(SignFill(a))
<1>1. S \in Int /\ -Half <= S /\ S < Half /\ (Negative(a) <=> S < 0)
  BY SignedValue DEF Negative
<1>2. Half \in Int /\ Half > 1 /\ Modulus = 2 * Half /\ Half = Power2[Width - 1]
  BY Halves
<1>3. s \in Int /\ s > 0 /\ (S < 0 => s > 1) BY <1>1, SizeBounds
<1>4. x = IF S < 0 THEN -1 ELSE 0 BY <1>1, SignFillValue
<1> HIDE DEF S, s, x
<1>5. Leading(S, 0) = x BY <1>1, <1>2, <1>4, LeadingEnds
<1>6. Leading(S, 1) = x
  <2>1. Leading(S, 1) = S \div Half BY <1>2 DEF Leading
  <2>2. CASE S < 0
    <3>1. S = Half * (-1) + (S + Half) BY <1>1, <1>2
    <3>2. S + Half \in Int /\ 0 <= S + Half /\ S + Half < Half /\ -1 \in Int
      BY <1>1, <1>2, <2>2
    <3>3. \A q, r \in Int : S = Half * q + r /\ 0 <= r /\ r < Half => S \div Half = q
      <4>1. Half > 0 BY <1>2
      <4>2. QED BY <1>1, <1>2, <4>1, DivisionUnique, Zenon
    <3>4. S \div Half = -1 BY <3>1, <3>2, <3>3
    <3>5. QED BY <1>4, <2>1, <2>2, <3>4
  <2>3. CASE ~(S < 0)
    <3>1. S = Half * 0 + S BY <1>1, <1>2
    <3>2. S \div Half = 0 BY <1>1, <1>2, <2>3, <3>1, DivisionUnique
    <3>3. QED BY <1>4, <2>1, <2>3, <3>2
  <2>4. QED BY <2>2, <2>3
<1>7. Truncating(x, s, 0, x)
  <2>1. s * 0 = 0 /\ x \in Int BY <1>3, <1>4
  <2>2. QED BY <1>3, <1>4, <2>1 DEF Truncating
<1>8. ASSUME NEW q, NEW z, Truncating(x, s, q, z) PROVE z = x
  <2>1. q \in Int /\ q >= 0 /\ z \in Int BY <1>8 DEF Truncating
  <2>2. CASE S < 0
    <3>1. x = -1 /\ x < 0 BY <1>4, <2>2
    <3>2. x = z - s * q /\ -s < z /\ z <= 0 BY <1>8, <3>1 DEF Truncating
    <3>3. q >= 1 => s * q >= s BY <1>3, <2>1
    <3>4. s * q \in Int BY <1>3, <2>1
    <3>5. z = 0 \/ z = -1
      <4>1. s * q >= 0 BY <1>3, <2>1
      <4>2. QED BY <2>1, <3>1, <3>2, <3>4, <4>1
    <3>6. z # 0
      <4>1. z = 0 => s * q = 1 BY <3>1, <3>2, <3>4
      <4>2. q = 0 => s * q = 0 BY <1>3
      <4>3. QED BY <1>3, <2>1, <2>2, <3>3, <3>4, <4>1, <4>2
    <3>7. QED BY <3>1, <3>5, <3>6
  <2>3. CASE ~(S < 0)
    <3>1. x = 0 BY <1>4, <2>3
    <3>2. x = z + s * q /\ 0 <= z BY <1>8, <3>1 DEF Truncating
    <3>3. s * q \in Int /\ s * q >= 0 BY <1>3, <2>1
    <3>4. QED BY <2>1, <3>1, <3>2, <3>3
  <2>4. QED BY <2>2, <2>3
<1>9. QED BY <1>5, <1>6, <1>7, <1>8 DEF S, s, x

\* One step of the signed divider, on numbers: from the quotient q and the
\* remainder x to the next ones, with t the next bit of the dividend.
Moved(x, t, s, q, q2, x2) ==
    LET y == 2 * x + t
    IN  IF y < 0 /\ y + s <= 0 THEN q2 = 2 * q + 1 /\ x2 = y + s
        ELSE IF y > 0 /\ y - s >= 0 THEN q2 = 2 * q + 1 /\ x2 = y - s
        ELSE q2 = 2 * q /\ x2 = y

\* A leading part was divided exactly and a 1 follows.  z is the quotient of that
\* part, moved up with the bits that follow.  They should have made it smaller
\* and have made it larger by as much: q is in the place of 2 * z - q.
Doubled(lead, s, n, q, x) ==
    /\ q \in Int /\ x \in Int /\ 0 <= x /\ x < s
    /\ \E z \in Int : /\ lead = x + s * (q - 2 * z)
                      /\ z <= q /\ (x > 0 \/ z < q)
                      /\ s * z <= Power2[n - 1]

\* Division of a negative number by 1 or -1.  The first step leaves no remainder
\* and the second starts from the sign again.  If the second bit is 1 that does
\* no harm; if it is 0 the quotient stays above what the bits make, and -1
\* remains as long as only zeros follow the sign.
ByOne(a, n, q, x) ==
    LET top == Leading(a, n) IN
    /\ q \in Int /\ 0 <= q /\ q < Power2[n]
    /\ n = 1 => q = 1
    /\ n > 1 => IF Signed(a) < -(Modulus \div 4)
                  THEN top < q /\ x = IF top = Power2[n - 1] THEN -1 ELSE 0
                  ELSE q = top /\ x = 0

\* What the signed divider holds after n bits: quotient q and remainder x.
SignedDivided(a, b, n, q, x) ==
    IF Negative(a) /\ Size(b) = 1 THEN ByOne(a, n, q, x)
    ELSE IF Negative(a) /\ Lost(a, b, n) THEN Doubled(Leading(Signed(a), n), Size(b), n, q, x)
    ELSE Truncating(Leading(Signed(a), n), Size(b), q, x)

\* The registers after a step hold those numbers, cut to their width.
LEMMA MovedStep ==
  ASSUME NEW b \in Value, b # 0, NEW v \in Value
  PROVE  \A t \in {0, 1} : \A q \in Int :
           LET rem == Wrap(2 * v + t)
               res == Wrap(2 * q)
           IN  -Half <= 2 * Signed(v) + t /\ 2 * Signed(v) + t < Half
               => \E q2 \in Int :
                    /\ Moved(Signed(v), t, Size(b), q, q2,
                             Signed(IF Reaches(rem, b) THEN Toward(rem, b) ELSE rem))
                    /\ (IF Reaches(rem, b) THEN Wrap(res + 1) ELSE res) = Wrap(q2)
<1> SUFFICES ASSUME NEW t \in {0, 1}, NEW q \in Int,
                    -Half <= 2 * Signed(v) + t, 2 * Signed(v) + t < Half
             PROVE  LET rem == Wrap(2 * v + t)
                        res == Wrap(2 * q)
                    IN  \E q2 \in Int :
                          /\ Moved(Signed(v), t, Size(b), q, q2,
                                   Signed(IF Reaches(rem, b) THEN Toward(rem, b) ELSE rem))
                          /\ (IF Reaches(rem, b) THEN Wrap(res + 1) ELSE res) = Wrap(q2)
  OBVIOUS
<1> DEFINE s == Size(b)
           x == Signed(v)
           y == 2 * x + t
           rem == Wrap(2 * v + t)
           res == Wrap(2 * q)
<1>1. s \in Int /\ 0 < s /\ s <= Half BY SizeBounds
<1>2. v \in Int /\ x \in Int /\ y \in Int BY SignedValue
<1>3. Half \in Int /\ Half > 1 /\ Modulus \in Int /\ Modulus = 2 * Half BY Halves
<1> HIDE DEF s
<1>4. rem \in Value /\ Signed(rem) = y
  <2>1. PICK j \in {0, 1} : v = x + Modulus * j BY SignedIs DEF x
  <2> HIDE DEF x
  <2>2. t \in Int /\ 2 * v + t \in Int BY <1>2
  <2>3. Modulus * (2 * j) = 2 * (Modulus * j) /\ Modulus * j \in Int /\ 2 * j \in Int BY <1>3
  <2>4. 2 * v + t = y + Modulus * (2 * j) BY <1>2, <1>3, <2>1, <2>2, <2>3
  <2>5. rem = Wrap(y) BY <1>2, <2>3, <2>4, WrapShift
  <2>6. -Half <= y /\ y < Half BY DEF x
  <2>7. QED BY <1>2, <2>5, <2>6, WrapValue, SignedWrap
<1>5. /\ Signed(Toward(rem, b)) = IF y < 0 THEN y + s ELSE y - s
      /\ Reaches(rem, b) <=> (y < 0 /\ y + s <= 0) \/ (y > 0 /\ y - s >= 0)
  <2> HIDE DEF rem, y
  <2>1. QED BY <1>4, TowardIs DEF s
<1>6. Wrap(res + 1) = Wrap(2 * q + 1) BY WrapSum
<1>7. 2 * q \in Int /\ 2 * q + 1 \in Int OBVIOUS
<1> HIDE DEF rem, res, y
<1>8. CASE Reaches(rem, b)
  <2>1. Moved(x, t, s, q, 2 * q + 1, Signed(Toward(rem, b)))
    <3> HIDE DEF x
    <3>1. CASE y < 0 /\ y + s <= 0 BY <1>5, <3>1 DEF Moved, y
    <3>2. CASE ~(y < 0 /\ y + s <= 0)
      <4>1. y > 0 /\ y - s >= 0 /\ ~(y < 0) BY <1>2, <1>5, <1>8, <3>2
      <4>2. Signed(Toward(rem, b)) = y - s BY <1>5, <4>1
      <4>3. QED BY <3>2, <4>1, <4>2 DEF Moved, y
    <3>3. QED BY <3>1, <3>2
  <2>2. QED BY <1>6, <1>7, <1>8, <2>1 DEF x, s, rem, res
<1>9. CASE ~Reaches(rem, b)
  <2>1. Moved(x, t, s, q, 2 * q, Signed(rem))
    BY <1>4, <1>5, <1>9 DEF Moved, y
  <2>2. QED BY <1>7, <1>9, <2>1 DEF x, s, rem, res
<1>10. QED BY <1>8, <1>9

\* Nothing has been lost yet: the division goes on, unless an exact division
\* is followed by a 1.
LEMMA TruncatingMoves ==
  ASSUME NEW lead \in Int, NEW s \in Int, s > 0, NEW q, NEW x, NEW t \in {0, 1},
         Truncating(lead, s, q, x), lead < 0 /\ x = 0 => t = 0,
         NEW q2, NEW x2, Moved(x, t, s, q, q2, x2)
  PROVE  Truncating(2 * lead + t, s, q2, x2)
<1> DEFINE y == 2 * x + t
           next == 2 * lead + t
<1>1. /\ y < 0 /\ y + s <= 0 => Truncating(next, s, 2 * q + 1, y + s)
      /\ y > 0 /\ y - s >= 0 => Truncating(next, s, 2 * q + 1, y - s)
      /\ ~(y < 0 /\ y + s <= 0) /\ ~(y > 0 /\ y - s >= 0) => Truncating(next, s, 2 * q, y)
  BY TruncatingStep
<1> HIDE DEF next
<1>2. CASE y < 0 /\ y + s <= 0
  <2>1. q2 = 2 * q + 1 /\ x2 = y + s BY <1>2 DEF Moved
  <2>2. QED BY <1>1, <1>2, <2>1 DEF next
<1>3. CASE ~(y < 0 /\ y + s <= 0) /\ y > 0 /\ y - s >= 0
  <2>1. q2 = 2 * q + 1 /\ x2 = y - s BY <1>3 DEF Moved
  <2>2. QED BY <1>1, <1>3, <2>1 DEF next
<1>4. CASE ~(y < 0 /\ y + s <= 0) /\ ~(y > 0 /\ y - s >= 0)
  <2>1. q2 = 2 * q /\ x2 = y BY <1>4 DEF Moved
  <2>2. QED BY <1>1, <1>4, <2>1 DEF next
<1>5. QED BY <1>2, <1>3, <1>4

\* How far the number grows with a bit.
LEMMA TruncatingRange ==
  ASSUME NEW lead \in Int, NEW s \in Int, s > 0, NEW q, NEW x, NEW t \in {0, 1},
         Truncating(lead, s, q, x), lead < 0 /\ x = 0 => t = 0
  PROVE  LET y == 2 * x + t
             next == 2 * lead + t
         IN  (next < 0 => next <= y /\ y <= 0) /\ (next >= 0 => 0 <= y /\ y <= next)
BY TruncatingStep

\* The step that loses the sign.
LEMMA TruncatingLoses ==
  ASSUME NEW lead \in Int, lead < 0, NEW s \in Int, s > 1, NEW q, NEW n \in Nat, n > 0,
         Truncating(lead, s, q, 0), lead >= -Power2[n - 1],
         NEW q2, NEW x2, Moved(0, 1, s, q, q2, x2)
  PROVE  Doubled(2 * lead + 1, s, n + 1, q2, x2)
<1>1. q \in Int /\ q >= 0 /\ lead = 0 - s * q BY DEF Truncating
<1>2. q2 = 2 * q /\ x2 = 1 BY DEF Moved
<1>3. n - 1 \in Nat /\ (n - 1) + 1 = n /\ (n + 1) - 1 = n OBVIOUS
<1> DEFINE z == 2 * q
           m == s * q
           p == Power2[n - 1]
<1>4. p \in Int /\ Power2[n] = 2 * p BY <1>3, Power
<1>5. m \in Int /\ s * z = 2 * m BY <1>1
<1>6. s * (q2 - 2 * z) = -(2 * m)
  <2>1. q2 - 2 * z = -(2 * q) BY <1>1, <1>2
  <2>2. s * (-(2 * q)) = -(2 * (s * q)) BY <1>1
  <2>3. QED BY <2>1, <2>2
<1> HIDE DEF m, p
<1>7. 2 * lead + 1 = x2 + s * (q2 - 2 * z) BY <1>1, <1>2, <1>5, <1>6 DEF m
<1>8. s * z <= Power2[(n + 1) - 1] BY <1>1, <1>3, <1>4, <1>5 DEF m, p
<1>9. z \in Int /\ z <= q2 BY <1>1, <1>2
<1> HIDE DEF z
<1>10. QED BY <1>1, <1>2, <1>7, <1>8, <1>9 DEF Doubled

\* What was lost stays lost.
LEMMA DoubledMoves ==
  ASSUME NEW lead \in Int, lead < 0, NEW s \in Int, s > 1, NEW q, NEW x, NEW t \in {0, 1},
         NEW n \in Nat, n > 0, Doubled(lead, s, n, q, x),
         NEW q2, NEW x2, Moved(x, t, s, q, q2, x2)
  PROVE  /\ Doubled(2 * lead + t, s, n + 1, q2, x2)
         /\ 0 <= 2 * x + t /\ 2 * x + t < Power2[n]
<1> DEFINE y == 2 * x + t
           next == 2 * lead + t
<1>1. q \in Int /\ x \in Int /\ 0 <= x /\ x < s BY DEF Doubled
<1>2. PICK z \in Int : /\ lead = x + s * (q - 2 * z)
                       /\ z <= q /\ (x > 0 \/ z < q)
                       /\ s * z <= Power2[n - 1]
  BY DEF Doubled
<1>3. n - 1 \in Nat /\ (n - 1) + 1 = n /\ (n + 1) - 1 = n OBVIOUS
<1> DEFINE m == s * q
           w == s * z
           p == Power2[n - 1]
<1>4. p \in Int /\ Power2[n] = 2 * p BY <1>3, Power
<1>5. /\ m \in Int /\ w \in Int /\ w <= m
      /\ s * (q - 2 * z) = m - 2 * w
      /\ s * (2 * q - 2 * (2 * z)) = 2 * m - 4 * w
      /\ s * ((2 * q + 1) - 2 * (2 * z)) = 2 * m + s - 4 * w
      /\ s * (2 * z) = 2 * w
  <2>1. s * (q - 2 * z) = s * q - 2 * (s * z) BY <1>1, <1>2
  <2>2. s * (2 * q - 2 * (2 * z)) = 2 * (s * q) - 4 * (s * z) BY <1>1, <1>2
  <2>3. s * ((2 * q + 1) - 2 * (2 * z)) = 2 * (s * q) + s - 4 * (s * z) BY <1>1, <1>2
  <2>4. s * (2 * z) = 2 * (s * z) BY <1>2
  <2>5. s * z <= s * q BY <1>1, <1>2
  <2>6. s * q \in Int /\ s * z \in Int BY <1>1, <1>2
  <2>7. QED BY <2>1, <2>2, <2>3, <2>4, <2>5, <2>6
<1>6. w <= p /\ lead = x + (m - 2 * w) BY <1>2, <1>5
<1> HIDE DEF m, w, p
<1>7. y \in Int /\ 0 <= y /\ y < 2 * s /\ (y = 0 => x = 0) BY <1>1
<1>8. y < 2 * p BY <1>1, <1>4, <1>5, <1>6
<1> DEFINE z2 == 2 * z
<1>9. z2 \in Int /\ s * z2 <= Power2[(n + 1) - 1] BY <1>2, <1>3, <1>4, <1>5, <1>6
<1>10. CASE y >= s
  <2>1. q2 = 2 * q + 1 /\ x2 = y - s BY <1>7, <1>10 DEF Moved
  <2>2. next = x2 + s * (q2 - 2 * z2) BY <1>1, <1>5, <1>6, <2>1
  <2>3. z2 <= q2 /\ z2 < q2 BY <1>1, <1>2, <2>1
  <2>4. q2 \in Int /\ x2 \in Int /\ 0 <= x2 /\ x2 < s BY <1>1, <1>7, <1>10, <2>1
  <2> HIDE DEF z2, next
  <2>5. Doubled(next, s, n + 1, q2, x2) BY <1>9, <2>2, <2>3, <2>4 DEF Doubled
  <2>6. QED BY <1>4, <1>7, <1>8, <2>5 DEF next
<1>11. CASE ~(y >= s)
  <2>1. q2 = 2 * q /\ x2 = y BY <1>7, <1>11 DEF Moved
  <2>2. next = x2 + s * (q2 - 2 * z2) BY <1>1, <1>5, <1>6, <2>1
  <2>3. z2 <= q2 /\ (x2 > 0 \/ z2 < q2) BY <1>1, <1>2, <1>7, <2>1
  <2>4. q2 \in Int /\ x2 \in Int /\ 0 <= x2 /\ x2 < s BY <1>1, <1>7, <1>11, <2>1
  <2> HIDE DEF z2, next
  <2>5. Doubled(next, s, n + 1, q2, x2) BY <1>9, <2>2, <2>3, <2>4 DEF Doubled
  <2>6. QED BY <1>4, <1>7, <1>8, <2>5 DEF next
<1>12. QED BY <1>10, <1>11

\* The quotient is below the number the bits make.
LEMMA DoubledBounds ==
  ASSUME NEW lead \in Int, lead < 0, NEW s \in Int, s > 1, NEW q, NEW x,
         NEW n \in Nat, n > 0, Doubled(lead, s, n, q, x)
  PROVE  0 <= q /\ 2 * q < Power2[n]
<1>1. q \in Int /\ x \in Int /\ 0 <= x /\ x < s BY DEF Doubled
<1>2. PICK z \in Int : /\ lead = x + s * (q - 2 * z)
                       /\ z <= q /\ s * z <= Power2[n - 1]
  BY DEF Doubled
<1>3. n - 1 \in Nat /\ (n - 1) + 1 = n OBVIOUS
<1> DEFINE m == s * q
           w == s * z
           p == Power2[n - 1]
<1>4. p \in Int /\ Power2[n] = 2 * p BY <1>3, Power
<1>5. /\ m \in Int /\ w \in Int
      /\ s * (q - 2 * z) = m - 2 * w
      /\ z <= q
  <2>1. s * (q - 2 * z) = s * q - 2 * (s * z) BY <1>1, <1>2
  <2>2. s * q \in Int /\ s * z \in Int BY <1>1, <1>2
  <2>3. QED BY <1>2, <2>1, <2>2
<1>6. w <= p /\ lead = x + (m - 2 * w) BY <1>2, <1>5
<1>7. q >= 0
  <2>1. q - 2 * z < 0
    <3>1. q - 2 * z >= 0 => s * (q - 2 * z) >= 0 BY <1>1, <1>2
    <3>2. s * (q - 2 * z) \in Int BY <1>1, <1>2
    <3>3. QED BY <1>1, <1>2, <3>1, <3>2
  <2>2. QED BY <1>1, <1>2, <2>1
<1>8. 2 * q <= m BY <1>1, <1>7
<1> HIDE DEF m, w, p
<1>9. QED BY <1>1, <1>4, <1>5, <1>6, <1>7, <1>8

\* How large the leading parts of a number can be.
LEMMA LeadingBounds ==
  ASSUME NEW x \in Int, -Half <= x, x < Half, NEW n \in 1 .. Width
  PROVE  /\ Leading(x, n) \in Int
         /\ Leading(x, n) >= -Power2[n - 1]
         /\ x >= 0 => 0 <= Leading(x, n) /\ Leading(x, n) <= x
         /\ x < 0 => x <= Leading(x, n) /\ Leading(x, n) < 0
<1>1. /\ Width \in Nat /\ Width - n \in Nat /\ n - 1 \in Nat
      /\ (Width - n) + (n - 1) = Width - 1
  BY WidthAssumption
<1> DEFINE p == Power2[Width - n]
           h == Power2[n - 1]
           l == x \div p
<1>2. p \in Int /\ p > 0 /\ h \in Int BY <1>1, Power
<1>3. Half = p * h /\ Half \in Int BY <1>1, PowerSum, Halves
<1> HIDE DEF p, h
<1>4. l \in Int /\ x = p * l + (x % p) /\ x % p \in Int /\ x % p < p BY <1>2, Division
<1>5. /\ x >= 0 => 0 <= l /\ l <= x
      /\ x < 0 => x <= l /\ l < 0
  BY <1>2, DivisionBounds
<1> HIDE DEF l
<1>6. l >= -h
  <2> SUFFICES ASSUME l < -h PROVE FALSE BY <1>2, <1>4
  <2>1. p * (l + 1) <= p * (-h) BY <1>2, <1>4
  <2>2. p * (l + 1) = p * l + p /\ p * (-h) = -(p * h) BY <1>2, <1>4
  <2>3. p * l \in Int /\ p * h \in Int BY <1>2, <1>4
  <2>4. QED BY <1>2, <1>3, <1>4, <2>1, <2>2, <2>3
<1>7. QED BY <1>4, <1>5, <1>6 DEF l, p, h, Leading

\* The remainder says whether the part taken in was divided exactly.
LEMMA ExactIs ==
  ASSUME NEW lead \in Int, lead < 0, NEW s \in Int, s > 0, NEW q, NEW x,
         Truncating(lead, s, q, x)
  PROVE  lead % s = 0 <=> x = 0
<1>1. q \in Int /\ x \in Int /\ lead = x - s * q /\ -s < x /\ x <= 0
  BY DEF Truncating
<1> DEFINE m == s * q
<1>2. m \in Int BY <1>1
<1>3. CASE x = 0
  <2> DEFINE e == -q
  <2>1. s * e = -m /\ e \in Int BY <1>1
  <2>2. lead = s * e + 0 BY <1>1, <1>2, <1>3, <2>1
  <2> HIDE DEF e
  <2>3. QED BY <1>3, <2>1, <2>2, DivisionUnique
<1>4. CASE x # 0
  <2> DEFINE e == -q - 1
             r == x + s
  <2>1. s * e = -m - s /\ e \in Int BY <1>1
  <2>2. lead = s * e + r BY <1>1, <1>2, <2>1
  <2>3. r \in Int /\ 0 <= r /\ r < s /\ r # 0 BY <1>1, <1>4
  <2> HIDE DEF e, r
  <2>4. lead % s = r BY <2>1, <2>2, <2>3, DivisionUnique
  <2>5. QED BY <1>4, <2>3, <2>4
<1>5. QED BY <1>3, <1>4

LEMMA Quarters ==
  /\ Power2[Width - 2] \in Int /\ Power2[Width - 2] > 0
  /\ Half = 2 * Power2[Width - 2]
  /\ Modulus \div 4 = Power2[Width - 2]
<1>1. Width - 1 \in Nat /\ Width - 2 \in Nat /\ (Width - 2) + 1 = Width - 1
  BY WidthAssumption
<1> DEFINE d == Power2[Width - 2]
<1>2. d \in Int /\ d > 0 /\ Half = 2 * d BY <1>1, Power, Halves
<1>3. Modulus = 4 * d + 0 /\ Modulus \in Int BY <1>2, Halves
<1>4. Modulus \div 4 = d BY <1>2, <1>3, DivisionUnique
<1>5. QED BY <1>2, <1>4

\* The two highest bits of a negative number.
LEMMA SecondBit ==
  ASSUME NEW a \in Value, Negative(a)
  PROVE  /\ Leading(a, 0) = 0 /\ Leading(a, 1) = 1 /\ Leading(a, 2) \in {2, 3}
         /\ Leading(a, 2) = 2 <=> Signed(a) < -(Modulus \div 4)
<1> DEFINE d == Power2[Width - 2]
<1>1. d \in Int /\ d > 0 /\ Half = 2 * d /\ Modulus \div 4 = d BY Quarters
<1>2. /\ a \in Int /\ a >= Half /\ 0 <= a /\ a < Modulus /\ Modulus = 2 * Half
      /\ Modulus \in Int /\ Half \in Int /\ Half > 0 /\ Half = Power2[Width - 1]
  BY SignedValue, ValueIsInt, Halves
<1>3. Signed(a) = a - Modulus BY <1>2 DEF Signed, Half
<1> HIDE DEF d
<1>4. Leading(a, 0) = 0 BY <1>2, LeadingEnds
<1>5. Leading(a, 1) = 1
  <2>1. a = Half * 1 + (a - Half) BY <1>2
  <2>2. a - Half \in Int /\ 0 <= a - Half /\ a - Half < Half BY <1>2
  <2>3. a \div Half = 1 BY <1>2, <2>1, <2>2, DivisionUnique
  <2>4. QED BY <1>2, <2>3 DEF Leading
<1>6. CASE a < 3 * d
  <2>1. a = d * 2 + (a - 2 * d) BY <1>1, <1>2
  <2>2. a - 2 * d \in Int /\ 0 <= a - 2 * d /\ a - 2 * d < d BY <1>1, <1>2, <1>6
  <2>3. a \div d = 2 BY <1>1, <1>2, <2>1, <2>2, DivisionUnique
  <2>4. Signed(a) < -d BY <1>1, <1>2, <1>3, <1>6
  <2>5. QED BY <1>1, <1>4, <1>5, <2>3, <2>4 DEF Leading, d
<1>7. CASE ~(a < 3 * d)
  <2>1. a = d * 3 + (a - 3 * d) BY <1>1, <1>2
  <2>2. a - 3 * d \in Int /\ 0 <= a - 3 * d /\ a - 3 * d < d BY <1>1, <1>2, <1>7
  <2>3. a \div d = 3 BY <1>1, <1>2, <2>1, <2>2, DivisionUnique
  <2>4. ~(Signed(a) < -d) BY <1>1, <1>2, <1>3, <1>7
  <2>5. QED BY <1>1, <1>4, <1>5, <2>3, <2>4 DEF Leading, d
<1>8. QED BY <1>6, <1>7

\* Division by 1 or -1, one step.
LEMMA ByOneMoves ==
  ASSUME NEW a \in Value, Negative(a), NEW n \in 0 .. Width - 1,
         NEW q \in Int, NEW x \in Int,
         IF n = 0 THEN q = 0 ELSE ByOne(a, n, q, x),
         n <= 1 => x = -1,
         NEW t \in {0, 1}, Leading(a, n + 1) = 2 * Leading(a, n) + t,
         NEW q2, NEW x2, Moved(x, t, 1, q, q2, x2)
  PROVE  /\ ByOne(a, n + 1, q2, x2)
         /\ -2 <= 2 * x + t /\ 2 * x + t <= 1
<1>1. /\ Leading(a, 0) = 0 /\ Leading(a, 1) = 1 /\ Leading(a, 2) \in {2, 3}
      /\ Leading(a, 2) = 2 <=> Signed(a) < -(Modulus \div 4)
  BY SecondBit
<1>2. Power2[0] = 1 /\ Power2[1] = 2 /\ Power2[2] = 4
  <2>1. Power2[0 + 1] = 2 * Power2[0] /\ Power2[1 + 1] = 2 * Power2[1] BY Power
  <2>2. 0 + 1 = 1 /\ 1 + 1 = 2 OBVIOUS
  <2>3. Power2[0] = 1 BY Power
  <2>4. QED BY <2>1, <2>2, <2>3
<1>3. CASE n = 0
  <2>1. q = 0 /\ x = -1 /\ n + 1 = 1 BY <1>3
  <2>2. 1 = 2 * 0 + t BY <1>1, <1>3
  <2>3. t = 1 BY <2>2
  <2>4. q2 = 1 /\ x2 = 0 BY <2>1, <2>3 DEF Moved
  <2>5. ByOne(a, 1, q2, x2) BY <1>2, <2>4 DEF ByOne
  <2>6. QED BY <2>1, <2>3, <2>5
<1>4. CASE n = 1
  <2>1. q = 1 /\ x = -1 /\ n + 1 = 2 BY <1>4 DEF ByOne
  <2>2. Leading(a, 2) = 2 + t BY <1>1, <1>4
  <2>3. q2 = 3 /\ x2 = t - 1
    <3>1. CASE t = 0 BY <2>1, <3>1 DEF Moved
    <3>2. CASE t = 1 BY <2>1, <3>2 DEF Moved
    <3>3. QED BY <3>1, <3>2
  <2>4. ByOne(a, 2, q2, x2)
    <3>1. CASE t = 0
      <4>1. Leading(a, 2) = 2 /\ x2 = -1 BY <2>2, <2>3, <3>1
      <4>2. Power2[2 - 1] = 2 BY <1>2
      <4>3. Signed(a) < -(Modulus \div 4) BY <1>1, <4>1
      <4>4. QED BY <1>2, <2>3, <4>1, <4>2, <4>3 DEF ByOne
    <3>2. CASE t = 1
      <4>1. Leading(a, 2) = 3 /\ x2 = 0 BY <2>2, <2>3, <3>2
      <4>2. ~(Signed(a) < -(Modulus \div 4)) BY <1>1, <4>1
      <4>3. QED BY <1>2, <2>3, <4>1, <4>2 DEF ByOne
    <3>3. QED BY <3>1, <3>2
  <2>5. QED BY <2>1, <2>4
<1>5. CASE n > 1
  <2>1. /\ n \in Nat /\ n - 1 \in Nat /\ (n - 1) + 1 = n /\ (n + 1) - 1 = n
        /\ n \in 1 .. Width /\ Width - n \in Nat /\ n + 1 > 1 /\ n # 1 /\ n # 0 /\ n + 1 # 1
    BY <1>5, WidthAssumption
  <2> DEFINE top == Leading(a, n)
             h == Power2[n - 1]
             low == Signed(a) < -(Modulus \div 4)
  <2>2. h \in Int /\ Power2[n] = 2 * h /\ Power2[n + 1] = 4 * h
    <3>1. h \in Int /\ Power2[(n - 1) + 1] = 2 * h /\ Power2[n + 1] = 2 * Power2[n]
      BY <2>1, Power
    <3>2. QED BY <2>1, <3>1
  <2>3. top \in Int
    BY <2>1, Power, ValueIsInt, Division DEF Leading
  <2>4. ByOne(a, n, q, x) BY <1>5, <2>1
  <2>5. /\ 0 <= q /\ q < 2 * h
        /\ IF low THEN top < q /\ x = IF top = h THEN -1 ELSE 0
                  ELSE q = top /\ x = 0
    BY <1>5, <2>2, <2>4 DEF ByOne
  <2>6. Leading(a, n + 1) = 2 * top + t OBVIOUS
  <2> HIDE DEF top, h, low
  <2>7. x \in {-1, 0} BY <2>5
  <2>8. CASE x = -1
    <3>1. low /\ top < q /\ top = h BY <2>5, <2>8
    <3>2. q2 = 2 * q + 1 /\ x2 = t - 1
      <4>1. CASE t = 0 BY <2>8, <4>1 DEF Moved
      <4>2. CASE t = 1 BY <2>8, <4>2 DEF Moved
      <4>3. QED BY <4>1, <4>2
    <3>3. /\ q2 \in Int /\ 0 <= q2 /\ q2 < 4 * h
          /\ 2 * top + t < q2 /\ x2 = IF 2 * top + t = 2 * h THEN -1 ELSE 0
      BY <2>2, <2>3, <2>5, <3>1, <3>2
    <3>4. ByOne(a, n + 1, q2, x2) BY <2>1, <2>2, <2>6, <3>1, <3>3 DEF ByOne, low
    <3>5. QED BY <2>8, <3>4
  <2>9. CASE x = 0
    <3>1. q2 = 2 * q + t /\ x2 = 0
      <4>1. CASE t = 0 BY <2>9, <4>1 DEF Moved
      <4>2. CASE t = 1 BY <2>9, <4>2 DEF Moved
      <4>3. QED BY <4>1, <4>2
    <3>2. q2 \in Int /\ 0 <= q2 /\ q2 < 4 * h BY <2>2, <2>5, <3>1
    <3>3. CASE low
      <4>1. top < q /\ top # h BY <2>5, <2>9, <3>3
      <4>2. 2 * top + t < q2 /\ 2 * top + t # 2 * h BY <2>2, <2>3, <3>1, <4>1
      <4>3. QED BY <2>1, <2>2, <2>6, <2>9, <3>1, <3>2, <3>3, <4>2 DEF ByOne, low
    <3>4. CASE ~low
      <4>1. q2 = 2 * top + t BY <2>5, <3>1, <3>4
      <4>2. QED BY <2>1, <2>2, <2>6, <2>9, <3>1, <3>2, <3>4, <4>1 DEF ByOne, low
    <3>5. QED BY <3>3, <3>4
  <2>10. QED BY <2>7, <2>8, <2>9
<1>6. QED BY <1>3, <1>4, <1>5

LEMMA MovedExists ==
  ASSUME NEW x \in Int, NEW t \in {0, 1}, NEW s \in Int, NEW q \in Int
  PROVE  \E q2, x2 : Moved(x, t, s, q, q2, x2)
<1> DEFINE y == 2 * x + t
<1>1. CASE y < 0 /\ y + s <= 0
  <2>1. Moved(x, t, s, q, 2 * q + 1, y + s) BY <1>1 DEF Moved
  <2>2. QED BY <2>1
<1>2. CASE ~(y < 0 /\ y + s <= 0) /\ y > 0 /\ y - s >= 0
  <2>1. Moved(x, t, s, q, 2 * q + 1, y - s) BY <1>2 DEF Moved
  <2>2. QED BY <2>1
<1>3. CASE ~(y < 0 /\ y + s <= 0) /\ ~(y > 0 /\ y - s >= 0)
  <2>1. Moved(x, t, s, q, 2 * q, y) BY <1>3 DEF Moved
  <2>2. QED BY <2>1
<1>4. QED BY <1>1, <1>2, <1>3

\* The leading parts of the dividend.
LEMMA SignedLeading ==
  ASSUME NEW a \in Value, NEW n \in 0 .. Width
  PROVE  LET lead == Leading(Signed(a), n)
         IN  /\ lead \in Int
             /\ lead < 0 <=> Negative(a)
             /\ -Half <= lead /\ lead < Half
             /\ n > 0 => lead >= -Power2[n - 1]
             /\ n < Width => LET t == Bit(a, Width - (n + 1))
                             IN  /\ t \in {0, 1}
                                 /\ Leading(Signed(a), n + 1) = 2 * lead + t
                                 /\ Leading(a, n + 1) = 2 * Leading(a, n) + t
<1> DEFINE S == Signed(a)
           lead == Leading(S, n)
<1>1. S \in Int /\ -Half <= S /\ S < Half /\ (Negative(a) <=> S < 0) /\ a \in Int
  BY SignedValue DEF Negative
<1>2. Half \in Int /\ Half > 1 /\ Modulus = 2 * Half BY Halves
<1>3. Width \in Nat BY WidthAssumption
<1>4. /\ lead \in Int /\ -Half <= lead /\ lead < Half /\ (lead < 0 <=> S < 0)
      /\ n > 0 => lead >= -Power2[n - 1]
  <2> HIDE DEF S
  <2>1. CASE n = 0
    <3>1. lead = IF S < 0 THEN -1 ELSE 0 BY <1>1, <1>2, <2>1, LeadingEnds
    <3>2. QED BY <1>1, <1>2, <2>1, <3>1
  <2>2. CASE n # 0
    <3>1. n \in 1 .. Width BY <1>3, <2>2
    <3>2. /\ lead \in Int
          /\ lead >= -Power2[n - 1]
          /\ S >= 0 => 0 <= lead /\ lead <= S
          /\ S < 0 => S <= lead /\ lead < 0
      BY <1>1, <3>1, LeadingBounds
    <3> HIDE DEF lead
    <3>3. QED BY <1>1, <1>2, <3>2
  <2>3. QED BY <2>1, <2>2
<1>5. ASSUME n < Width
      PROVE  LET t == Bit(a, Width - (n + 1))
             IN  /\ t \in {0, 1}
                 /\ Leading(S, n + 1) = 2 * lead + t
                 /\ Leading(a, n + 1) = 2 * Leading(a, n) + t
  <2>1. /\ n + 1 \in 1 .. Width /\ (n + 1) - 1 = n
        /\ Width - (n + 1) \in 0 .. Width - 1
    BY <1>3, <1>5
  <2>2. Bit(a, Width - (n + 1)) = (S \div Power2[Width - (n + 1)]) % 2
    BY <2>1, SignedBit
  <2> DEFINE k == n + 1
             p == Power2[Width - k]
  <2>3. /\ (S \div p) % 2 \in {0, 1}
        /\ Leading(S, k) = 2 * Leading(S, k - 1) + ((S \div p) % 2)
        /\ Leading(a, k) = 2 * Leading(a, k - 1) + ((a \div p) % 2)
    <3> HIDE DEF S, k
    <3>1. QED BY <1>1, <2>1, LeadingNext DEF k
  <2>4. QED BY <2>1, <2>2, <2>3 DEF Bit
<1>6. QED BY <1>1, <1>4, <1>5 DEF lead, S

\* The quotient fits into its register.
LEMMA SignedDividedFits ==
  ASSUME NEW a \in Value, NEW b \in Value, b # 0, NEW n \in 1 .. Width,
         NEW q, NEW x, SignedDivided(a, b, n, q, x)
  PROVE  q \in Value
<1> DEFINE lead == Leading(Signed(a), n)
           s == Size(b)
<1>1. n \in Nat /\ n > 0 /\ n <= Width /\ Width \in Nat /\ n \in 0 .. Width
  BY WidthAssumption
<1>2. Half \in Int /\ Half > 1 /\ Modulus \in Int /\ Modulus = 2 * Half BY Halves
<1>3. Power2[n] \in Int /\ Power2[n] <= Modulus BY <1>1, Power, PowerGrows DEF Modulus
<1>4. lead \in Int /\ (lead < 0 <=> Negative(a)) /\ -Half <= lead /\ lead < Half
  BY <1>1, SignedLeading
<1>5. s \in Int /\ s > 0 BY SizeBounds
<1>6. CASE Negative(a) /\ s = 1
  <2>1. ByOne(a, n, q, x) BY <1>6 DEF SignedDivided
  <2>2. QED BY <1>2, <1>3, <2>1 DEF ByOne, Value
<1>7. CASE ~(Negative(a) /\ s = 1) /\ Negative(a) /\ Lost(a, b, n)
  <2>1. Doubled(lead, s, n, q, x) BY <1>7 DEF SignedDivided
  <2> HIDE DEF lead, s
  <2>2. q \in Int BY <2>1 DEF Doubled
  <2>3. s > 1 BY <1>5, <1>7
  <2>4. 0 <= q /\ 2 * q < Power2[n] BY <1>1, <1>4, <1>5, <1>7, <2>1, <2>3, DoubledBounds
  <2>5. QED BY <1>2, <1>3, <2>2, <2>4 DEF Value
<1>8. CASE ~(Negative(a) /\ s = 1) /\ ~(Negative(a) /\ Lost(a, b, n))
  <2>1. Truncating(lead, s, q, x) BY <1>8 DEF SignedDivided
  <2> HIDE DEF lead, s
  <2>2. q \in Int /\ q >= 0 BY <2>1 DEF Truncating
  <2>3. (lead < 0 => q <= -lead) /\ (lead >= 0 => q <= lead)
    BY <1>4, <1>5, <2>1, TruncatingBounds
  <2>4. QED BY <1>2, <1>4, <2>2, <2>3 DEF Value
<1>9. QED BY <1>6, <1>7, <1>8

\* What a step does to the numbers, before they are cut to the registers.
LEMMA SignedDividedMoves ==
  ASSUME NEW a \in Value, NEW b \in Value, b # 0, NEW n \in 0 .. Width - 1,
         NEW q \in Int, NEW x \in Int,
         n = 0 => q = 0,
         n <= 1 => x = Signed(SignFill(a)),
         n > 0 => SignedDivided(a, b, n, q, x),
         NEW q2, NEW x2, Moved(x, Bit(a, Width - (n + 1)), Size(b), q, q2, x2)
  PROVE  /\ SignedDivided(a, b, n + 1, q2, x2)
         /\ LET y == 2 * x + Bit(a, Width - (n + 1)) IN -Half <= y /\ y < Half
<1> DEFINE lead == Leading(Signed(a), n)
           next == Leading(Signed(a), n + 1)
           s == Size(b)
           t == Bit(a, Width - (n + 1))
           y == 2 * x + t
<1>1. /\ n \in Nat /\ n < Width /\ Width \in Nat /\ n \in 0 .. Width
      /\ n + 1 \in 0 .. Width /\ (n + 1) - 1 = n
  BY WidthAssumption
<1>2. Half \in Int /\ Half > 1 /\ Half = Power2[Width - 1] BY Halves
<1>3. s \in Int /\ s > 0 BY SizeBounds
<1>4. /\ lead \in Int /\ (lead < 0 <=> Negative(a))
      /\ n > 0 => lead >= -Power2[n - 1]
      /\ t \in {0, 1} /\ next = 2 * lead + t
      /\ Leading(a, n + 1) = 2 * Leading(a, n) + t
  BY <1>1, SignedLeading
<1>5. next \in Int /\ (next < 0 <=> Negative(a)) /\ -Half <= next /\ next < Half
  BY <1>1, SignedLeading
<1>6. Signed(SignFill(a)) = IF Negative(a) THEN -1 ELSE 0 BY SignFillValue
<1>7. Moved(x, t, s, q, q2, x2) OBVIOUS
<1>8. n > 0 => (Lost(a, b, n + 1) <=> Lost(a, b, n) \/ (lead % s = 0 /\ t = 1))
  BY <1>1, LostNext
<1>9. ~Lost(a, b, 0) /\ ~Lost(a, b, 1) BY LostEnds
<1> HIDE DEF lead, next, s, t
<1>10. CASE Negative(a) /\ s = 1
  <2>1. n > 0 => ByOne(a, n, q, x) BY <1>10 DEF SignedDivided, s
  <2>2. n <= 1 => x = -1 BY <1>6, <1>10
  <2>3. IF n = 0 THEN q = 0 ELSE ByOne(a, n, q, x) BY <1>1, <2>1
  <2>4. ByOne(a, n + 1, q2, x2) /\ -2 <= y /\ y <= 1
    BY <1>4, <1>7, <1>10, <2>2, <2>3, ByOneMoves
  <2>5. y \in Int BY <1>4
  <2> HIDE DEF y
  <2>6. QED BY <1>2, <1>10, <2>4, <2>5 DEF SignedDivided, s, t, y
<1>11. CASE ~(Negative(a) /\ s = 1) /\ Negative(a) /\ Lost(a, b, n)
  <2>1. n > 0 /\ n - 1 \in Nat BY <1>1, <1>9, <1>11
  <2>2. Doubled(lead, s, n, q, x) BY <1>11, <2>1 DEF SignedDivided, s, lead
  <2>3. s > 1 BY <1>3, <1>11
  <2>4. Doubled(next, s, n + 1, q2, x2) /\ 0 <= y /\ y < Power2[n]
    BY <1>1, <1>3, <1>4, <1>7, <1>11, <2>1, <2>2, <2>3, DoubledMoves
  <2>5. Lost(a, b, n + 1) BY <1>8, <1>11, <2>1
  <2>6. SignedDivided(a, b, n + 1, q2, x2)
    BY <1>11, <2>4, <2>5 DEF SignedDivided, s, next
  <2>7. Power2[n] <= Half /\ Power2[n] \in Int
    <3>1. Width - 1 \in Nat /\ n <= Width - 1 BY <1>1
    <3>2. QED BY <1>1, <1>2, <3>1, Power, PowerGrows
  <2>8. y \in Int BY <1>4
  <2> HIDE DEF y
  <2>9. -Half <= y /\ y < Half BY <1>2, <2>4, <2>7, <2>8
  <2>10. QED BY <2>6, <2>9 DEF y, t
<1>12. CASE ~(Negative(a) /\ s = 1) /\ ~(Negative(a) /\ Lost(a, b, n))
  <2>0. Negative(a) => s > 1 BY <1>3, <1>12
  <2>1. Truncating(lead, s, q, x)
    <3>1. CASE n = 0 BY <2>0, <3>1, FirstBit DEF lead, s
    <3>2. CASE n # 0 BY <1>1, <1>12, <3>2 DEF SignedDivided, lead, s
    <3>3. QED BY <3>1, <3>2
  <2>2. lead < 0 => (lead % s = 0 <=> x = 0) BY <1>3, <1>4, <2>1, ExactIs
  <2>3. CASE lead < 0 /\ x = 0 /\ t = 1
    <3>1. n > 0 /\ n - 1 \in Nat
      <4>1. n # 0 BY <1>4, <1>6, <2>3
      <4>2. QED BY <1>1, <4>1
    <3>2. Lost(a, b, n + 1) BY <1>8, <2>2, <2>3, <3>1
    <3>3. s > 1 BY <1>4, <2>0, <2>3
    <3>4. Truncating(lead, s, q, 0) /\ Moved(0, 1, s, q, q2, x2) BY <1>7, <2>1, <2>3
    <3>5. Doubled(2 * lead + 1, s, n + 1, q2, x2)
      BY <1>1, <1>3, <1>4, <2>3, <3>1, <3>3, <3>4, TruncatingLoses
    <3>6. SignedDivided(a, b, n + 1, q2, x2)
      BY <1>4, <1>12, <2>3, <3>2, <3>5 DEF SignedDivided, s, next
    <3>7. y = 1 BY <2>3
    <3>8. QED BY <1>2, <3>6, <3>7 DEF t
  <2>4. CASE ~(lead < 0 /\ x = 0 /\ t = 1)
    <3>1. lead < 0 /\ x = 0 => t = 0 BY <1>4, <2>4
    <3>2. Truncating(next, s, q2, x2) BY <1>3, <1>4, <1>7, <2>1, <3>1, TruncatingMoves
    <3>3. ~(Negative(a) /\ Lost(a, b, n + 1))
      <4>1. CASE n = 0
        <5>1. n + 1 = 1 BY <4>1
        <5>2. QED BY <1>9, <5>1
      <4>2. CASE n # 0
        <5>1. n > 0 BY <1>1, <4>2
        <5>2. QED BY <1>4, <1>8, <1>12, <2>2, <2>4, <5>1
      <4>3. QED BY <4>1, <4>2
    <3>4. SignedDivided(a, b, n + 1, q2, x2)
      BY <1>12, <3>2, <3>3 DEF SignedDivided, s, next
    <3>5. (next < 0 => next <= y /\ y <= 0) /\ (next >= 0 => 0 <= y /\ y <= next)
      BY <1>3, <1>4, <2>1, <3>1, TruncatingRange
    <3>6. y \in Int BY <1>4
    <3> HIDE DEF y
    <3>7. -Half <= y /\ y < Half BY <1>2, <1>5, <3>5, <3>6
    <3>8. QED BY <3>4, <3>7 DEF y, t
  <2>5. QED BY <2>3, <2>4
<1>13. QED BY <1>10, <1>11, <1>12

\* One edge of the signed divider takes in one bit.
LEMMA DivStepRight ==
  ASSUME NEW a \in Value, NEW b \in Value, b # 0, NEW k \in 1 .. Width,
         NEW q \in Value, NEW v \in Value, NEW x \in Int,
         k = 1 => q = 0,
         k <= 2 => v = SignFill(a),
         k > 1 => SignedDivided(a, b, k - 1, q, x),
         k > 2 => x = Signed(v)
  PROVE  LET rem == Wrap(2 * v + Bit(a, Width - k))
             res == Wrap(2 * q)
         IN  SignedDivided(a, b, k, IF Reaches(rem, b) THEN Wrap(res + 1) ELSE res,
                           Signed(IF Reaches(rem, b) THEN Toward(rem, b) ELSE rem))
<1> DEFINE n == k - 1
           X == Signed(v)
           t == Bit(a, Width - k)
           rem == Wrap(2 * v + t)
           res == Wrap(2 * q)
           res2 == IF Reaches(rem, b) THEN Wrap(res + 1) ELSE res
           x3 == Signed(IF Reaches(rem, b) THEN Toward(rem, b) ELSE rem)
<1>1. /\ n \in 0 .. Width - 1 /\ n + 1 = k /\ n \in 0 .. Width /\ n < Width
      /\ Width \in Nat /\ n \in Nat
  BY WidthAssumption
<1>2. X \in Int /\ q \in Int BY SignedValue
<1>3. Size(b) \in Int BY SizeBounds
<1>4. t \in {0, 1} BY <1>1, SignedLeading
<1>5. n > 0 => SignedDivided(a, b, n, q, X)
  <2>1. CASE n > 1
    <3>1. k > 1 /\ k > 2 BY <1>1, <2>1
    <3>2. QED BY <3>1
  <2>2. CASE n = 1
    <3>1. k > 1 /\ k <= 2 BY <1>1, <2>2
    <3>2. SignedDivided(a, b, 1, q, x) /\ v = SignFill(a) BY <2>2, <3>1
    <3>3. ~Lost(a, b, 1) BY LostEnds
    <3>4. CASE Negative(a) /\ Size(b) = 1
      <4>1. ByOne(a, 1, q, x) BY <3>2, <3>4 DEF SignedDivided
      <4>2. ByOne(a, 1, q, X) BY <4>1 DEF ByOne
      <4>3. QED BY <2>2, <3>4, <4>2 DEF SignedDivided
    <3>5. CASE ~(Negative(a) /\ Size(b) = 1)
      <4>1. Truncating(Leading(Signed(a), 1), Size(b), q, x)
        BY <3>2, <3>3, <3>5 DEF SignedDivided
      <4>2. Negative(a) => Size(b) > 1 BY <3>5, SizeBounds
      <4>3. x = X BY <3>2, <4>1, <4>2, FirstBit
      <4>4. QED BY <2>2, <3>2, <4>3
    <3>6. QED BY <3>4, <3>5
  <2>3. QED BY <1>1, <2>1, <2>2
<1>6. n = 0 => q = 0 BY <1>1
<1>7. n <= 1 => X = Signed(SignFill(a))
  <2>1. n <= 1 => k <= 2 BY <1>1
  <2>2. QED BY <2>1
<1> HIDE DEF X, n
<1>8. ASSUME NEW q2, NEW x2, Moved(X, t, Size(b), q, q2, x2)
      PROVE  SignedDivided(a, b, k, q2, x2) /\ -Half <= 2 * X + t /\ 2 * X + t < Half
  BY <1>1, <1>2, <1>5, <1>6, <1>7, <1>8, SignedDividedMoves
<1>9. -Half <= 2 * X + t /\ 2 * X + t < Half BY <1>2, <1>3, <1>4, <1>8, MovedExists
<1> HIDE DEF t
<1>10. PICK q2 \in Int : Moved(X, t, Size(b), q, q2, x3) /\ res2 = Wrap(q2)
  <2>1. -Half <= 2 * Signed(v) + t /\ 2 * Signed(v) + t < Half BY <1>9 DEF X
  <2>2. \E q2 \in Int : Moved(Signed(v), t, Size(b), q, q2, x3) /\ res2 = Wrap(q2)
    <3>1. t \in {0, 1} /\ q \in Int BY <1>2, <1>4
    <3> HIDE DEF rem, res, res2, x3
    <3>2. \A tt \in {0, 1} : \A qq \in Int :
           LET r1 == Wrap(2 * v + tt)
               r2 == Wrap(2 * qq)
           IN  -Half <= 2 * Signed(v) + tt /\ 2 * Signed(v) + tt < Half
               => \E q2 \in Int :
                    /\ Moved(Signed(v), tt, Size(b), qq, q2,
                             Signed(IF Reaches(r1, b) THEN Toward(r1, b) ELSE r1))
                    /\ (IF Reaches(r1, b) THEN Wrap(r2 + 1) ELSE r2) = Wrap(q2)
      BY MovedStep
    <3>3. QED BY <2>1, <3>1, <3>2, Zenon DEF rem, res, res2, x3
  <2>3. QED BY <2>2, Zenon DEF X
<1>11. SignedDivided(a, b, k, q2, x3) BY <1>8, <1>10
<1>12. q2 \in Value BY <1>11, SignedDividedFits
<1>13. res2 = q2 BY <1>10, <1>12, WrapSame
<1> HIDE DEF res2, x3
<1>14. SignedDivided(a, b, k, res2, x3) BY <1>11, <1>13
<1>15. QED BY <1>14 DEF res2, x3, t, rem, res
-----------------------------------------------------------------------------
(* What the alu makes of the answer of the signed divider.                 *)

\* The answer is right where nothing was lost.
LEMMA SignedAnswer ==
  ASSUME NEW a \in Value, NEW b \in Value, b # 0, Negative(a) => Size(b) > 1,
         NEW q \in Value, NEW v \in Value,
         Truncating(Signed(a), Size(b), q, Signed(v))
  PROVE  LET sq == Signed(q)
             T  == Truncated(Signed(a), Signed(b))
         IN  /\ Wrap(T) = IF Negative(a) = Negative(b)
                            THEN IF sq >= 0 THEN q ELSE Wrap(-sq)
                            ELSE IF sq <= 0 THEN q ELSE Wrap(-sq)
             /\ Wrap(Signed(a) - Signed(b) * T) = v
<1> DEFINE S == Signed(a)
           B == Signed(b)
           s == Size(b)
           x == Signed(v)
           T == Truncated(S, B)
<1>1. S \in Int /\ -Half <= S /\ S < Half /\ (Negative(a) <=> S < 0)
  BY SignedValue DEF Negative
<1>2. /\ s \in Int /\ 0 < s /\ s <= Half /\ B \in Int
      /\ Negative(b) => B = -s
      /\ ~Negative(b) => B = s
      /\ Negative(b) <=> B < 0
  BY SizeBounds, SignedValue DEF Negative
<1>3. x \in Int /\ Wrap(x) = v /\ q \in Int BY SignedValue, ValueIsInt
<1>4. s = Magnitude(B) BY DEF Size
<1>5. Truncating(S, s, q, x) OBVIOUS
<1>6. S < 0 => s > 1 BY <1>1
<1> HIDE DEF S, B, s, x
<1>7. Half \in Int /\ Half > 1 BY Halves
<1> DEFINE m == s * q
<1>8. m \in Int /\ q >= 0 /\ q <= m /\ (s > 1 => 2 * q <= m) BY <1>2, <1>3, <1>5 DEF Truncating
<1>9. /\ S < 0 => S = x - m /\ -s < x /\ x <= 0
      /\ S >= 0 => S = x + m /\ 0 <= x /\ x < s
  BY <1>5 DEF Truncating
<1>10. q < Half
  <2> HIDE DEF m
  <2>1. QED BY <1>1, <1>3, <1>6, <1>7, <1>8, <1>9
<1>11. Signed(q) = q
  <2>1. ~(q >= Modulus \div 2) BY <1>3, <1>7, <1>10 DEF Half
  <2>2. QED BY <2>1 DEF Signed
<1>12. Magnitude(S) \div s = q
  <2>1. CASE S < 0
    <3>1. Magnitude(S) = s * q + (-x) BY <1>1, <1>3, <1>8, <1>9, <2>1 DEF Magnitude
    <3>2. Magnitude(S) \in Int /\ -x \in Int /\ 0 <= -x /\ -x < s
      BY <1>1, <1>2, <1>3, <1>9, <2>1 DEF Magnitude
    <3>3. QED BY <1>2, <1>3, <3>1, <3>2, DivisionUnique
  <2>2. CASE S >= 0
    <3>1. Magnitude(S) = s * q + x BY <1>1, <1>3, <1>8, <1>9, <2>2 DEF Magnitude
    <3>2. Magnitude(S) \in Int BY <1>1, <2>2 DEF Magnitude
    <3>3. QED BY <1>2, <1>3, <1>9, <2>2, <3>1, <3>2, DivisionUnique
  <2>3. QED BY <1>1, <2>1, <2>2
<1>13. T = IF (S < 0) = (B < 0) THEN q ELSE -q
  BY <1>4, <1>12 DEF Truncated
<1>14. Wrap(q) = q BY WrapSame
<1>15. Negative(a) \in BOOLEAN /\ Negative(b) \in BOOLEAN BY DEF Negative
<1>16. Wrap(T) = IF Negative(a) = Negative(b)
                   THEN IF q >= 0 THEN q ELSE Wrap(-q)
                   ELSE IF q <= 0 THEN q ELSE Wrap(-q)
  <2> HIDE DEF T
  <2>1. CASE Negative(a) = Negative(b)
    <3>1. (S < 0) = (B < 0) BY <1>1, <1>2, <1>15, <2>1
    <3>2. T = q BY <1>13, <3>1
    <3>3. QED BY <1>8, <1>14, <2>1, <3>2
  <2>2. CASE ~(Negative(a) = Negative(b))
    <3>1. ~((S < 0) = (B < 0)) BY <1>1, <1>2, <1>15, <2>2
    <3>2. T = -q BY <1>13, <3>1
    <3>3. CASE q <= 0
      <4>1. -q = q BY <1>3, <1>8, <3>3
      <4>2. T = q BY <3>2, <4>1
      <4>3. QED BY <1>14, <2>2, <3>3, <4>2
    <3>4. CASE ~(q <= 0) BY <2>2, <3>2, <3>4
    <3>5. QED BY <3>3, <3>4
  <2>3. QED BY <2>1, <2>2
<1>17. S - B * T = x
  <2> HIDE DEF T
  <2>1. CASE S < 0
    <3>1. B * T = -m
      <4>1. CASE B < 0
        <5>1. T = q /\ B = -s BY <1>2, <1>13, <2>1, <4>1
        <5>2. (-s) * q = -(s * q) BY <1>2, <1>3
        <5>3. QED BY <5>1, <5>2
      <4>2. CASE ~(B < 0)
        <5>1. T = -q /\ B = s BY <1>2, <1>13, <2>1, <4>2
        <5>2. s * (-q) = -(s * q) BY <1>2, <1>3
        <5>3. QED BY <5>1, <5>2
      <4>3. QED BY <4>1, <4>2
    <3> HIDE DEF m
    <3>2. QED BY <1>1, <1>3, <1>8, <1>9, <2>1, <3>1
  <2>2. CASE S >= 0
    <3>0. ~(S < 0) BY <1>1, <2>2
    <3>1. B * T = m
      <4>1. CASE B < 0
        <5>1. T = -q /\ B = -s BY <1>2, <1>13, <3>0, <4>1
        <5>2. (-s) * (-q) = s * q BY <1>2, <1>3
        <5>3. QED BY <5>1, <5>2
      <4>2. CASE ~(B < 0)
        <5>1. T = q /\ B = s BY <1>2, <1>13, <3>0, <4>2
        <5>2. QED BY <5>1
      <4>3. QED BY <4>1, <4>2
    <3> HIDE DEF m
    <3>2. QED BY <1>1, <1>3, <1>8, <1>9, <2>2, <3>1
  <2>3. QED BY <1>1, <2>1, <2>2
<1>18. QED BY <1>3, <1>11, <1>16, <1>17 DEF S, B, T

\* Numbers less than a modulus apart differ in their bits.
LEMMA WrapDiffers ==
  ASSUME NEW x \in Int, NEW y \in Int, y < x, x < y + Modulus
  PROVE  Wrap(x) # Wrap(y)
<1> SUFFICES ASSUME Wrap(x) = Wrap(y) PROVE FALSE
  OBVIOUS
<1>1. Modulus \in Int /\ Modulus > 0 BY Halves
<1>2. PICK k \in Int : x = Modulus * k + Wrap(x) BY WrapRest
<1>3. PICK l \in Int : y = Modulus * l + Wrap(y) BY WrapRest
<1>4. Wrap(x) \in Int BY WrapValue
<1> DEFINE d == x - y
<1>5. d \in Int /\ -Modulus < d /\ d < Modulus /\ d # 0 BY <1>1
<1>6. Modulus * l \in Int /\ Modulus * k \in Int BY <1>1
<1>7. Modulus * l + d = Modulus * k BY <1>2, <1>3, <1>4, <1>6
<1> HIDE DEF d
<1>8. l = k BY <1>1, <1>5, <1>7, SameMultiple
<1>9. QED BY <1>5, <1>6, <1>7, <1>8

\* The sign of an answer follows from the operands.
LEMMA SignOfTruncated ==
  ASSUME NEW a \in Value, NEW b \in Value, b # 0, Negative(a), NEW m \in Int,
         Magnitude(Signed(a)) \div Size(b) = m
  PROVE  LET T == Truncated(Signed(a), Signed(b))
         IN  /\ T = IF Negative(b) THEN m ELSE -m
             /\ Signed(b) * T = -(Size(b) * m)
<1> DEFINE S == Signed(a)
           B == Signed(b)
           s == Size(b)
           T == Truncated(S, B)
<1>1. /\ s \in Int
      /\ Negative(b) => B = -s
      /\ ~Negative(b) => B = s
      /\ Negative(b) <=> B < 0
  BY SizeBounds DEF Negative
<1>2. S < 0 /\ s = Magnitude(B) BY DEF Negative, Size
<1>3. T = IF (S < 0) = (B < 0) THEN m ELSE -m BY <1>2 DEF Truncated
<1> HIDE DEF S, B, s, T
<1>4. T = IF Negative(b) THEN m ELSE -m BY <1>1, <1>2, <1>3
<1>5. B * T = -(s * m)
  <2>1. CASE Negative(b)
    <3>1. B = -s /\ T = m BY <1>1, <1>4, <2>1
    <3>2. (-s) * m = -(s * m) BY <1>1
    <3>3. QED BY <3>1, <3>2
  <2>2. CASE ~Negative(b)
    <3>1. B = s /\ T = -m BY <1>1, <1>4, <2>2
    <3>2. s * (-m) = -(s * m) BY <1>1
    <3>3. QED BY <3>1, <3>2
  <2>3. QED BY <2>1, <2>2
<1>6. QED BY <1>4, <1>5 DEF S, B, s, T

\* After an exact division of a leading part the quotient is too large, and
\* the remainder wrong unless there is none.
LEMMA DoubledAnswer ==
  ASSUME NEW a \in Value, NEW b \in Value, b # 0, Negative(a), Size(b) > 1,
         NEW q \in Value, NEW v \in Value,
         Doubled(Signed(a), Size(b), Width, q, Signed(v))
  PROVE  LET sq == Signed(q)
             T  == Truncated(Signed(a), Signed(b))
         IN  /\ Wrap(T) # IF Negative(a) = Negative(b)
                            THEN IF sq >= 0 THEN q ELSE Wrap(-sq)
                            ELSE IF sq <= 0 THEN q ELSE Wrap(-sq)
             /\ Wrap(Signed(a) - Signed(b) * T) = v <=> Exact(a, 0, b)
<1> DEFINE S == Signed(a)
           B == Signed(b)
           s == Size(b)
           x == Signed(v)
           T == Truncated(S, B)
<1>1. S \in Int /\ -Half <= S /\ S < 0 BY SignedValue DEF Negative
<1>2. s \in Int /\ s > 1 /\ s <= Half BY SizeBounds
<1>3. x \in Int /\ Wrap(x) = v /\ q \in Int /\ 0 <= q BY SignedValue, ValueIsInt
<1>4. Half \in Int /\ Half > 1 /\ Modulus = 2 * Half /\ Modulus = Power2[Width] BY Halves DEF Modulus
<1>5. Width \in Nat /\ Width > 0 BY WidthAssumption
<1>6. PICK z \in Int : S = x + s * (q - 2 * z) /\ z <= q /\ (x > 0 \/ z < q)
  BY DEF Doubled
<1>7. 0 <= x /\ x < s BY DEF Doubled
<1>8. q < Half
  <2>1. 2 * q < Power2[Width]
    <3>1. Doubled(S, s, Width, q, x) OBVIOUS
    <3> HIDE DEF S, s, x
    <3>2. QED BY <1>1, <1>2, <1>5, <3>1, DoubledBounds
  <2>2. QED BY <1>3, <1>4, <2>1
<1> DEFINE m == IF x = 0 THEN 2 * z - q ELSE 2 * z - q - 1
           r == IF x = 0 THEN 0 ELSE s - x
<1>9. m \in Int /\ m < q /\ -q <= m
  <2>1. m \in Int /\ m < q BY <1>3, <1>6, <1>7
  <2>2. 2 * z > q
    <3>1. q - 2 * z >= 0 => s * (q - 2 * z) >= 0 BY <1>2, <1>3
    <3>2. s * (q - 2 * z) \in Int BY <1>2, <1>3
    <3> HIDE DEF S, x, s
    <3>3. QED BY <1>1, <1>3, <1>6, <1>7, <3>1, <3>2
  <2>3. m >= 0 BY <1>3, <2>2
  <2> HIDE DEF m
  <2>4. QED BY <1>3, <2>1, <2>3
<1>10. /\ s * m = s * (2 * z - q) - (IF x = 0 THEN 0 ELSE s)
       /\ s * (q - 2 * z) = -(s * (2 * z - q)) /\ s * (2 * z - q) \in Int
  BY <1>2, <1>3
<1>11. r \in Int /\ 0 <= r /\ r < s BY <1>2, <1>3, <1>7
<1> HIDE DEF S, B, s, x
<1>12. Magnitude(S) = s * m + r /\ Magnitude(S) \in Int
  BY <1>1, <1>2, <1>3, <1>6, <1>10 DEF Magnitude
<1>13. S + s * m = IF x = 0 THEN 0 ELSE x - s
  BY <1>1, <1>2, <1>3, <1>6, <1>10
<1>14. s * m \in Int BY <1>2, <1>9
<1> HIDE DEF m, r
<1>15. Magnitude(S) \div s = m BY <1>2, <1>9, <1>11, <1>12, DivisionUnique
<1>16. (T = IF Negative(b) THEN m ELSE -m) /\ B * T = -(s * m)
  BY <1>9, <1>15, SignOfTruncated DEF S, B, s
<1>17. Signed(q) = q
  <2>1. ~(q >= Modulus \div 2) BY <1>3, <1>4, <1>8 DEF Half
  <2>2. QED BY <2>1 DEF Signed
<1> HIDE DEF T
<1>18. Wrap(T) # IF Negative(a) = Negative(b)
                   THEN IF q >= 0 THEN q ELSE Wrap(-q)
                   ELSE IF q <= 0 THEN q ELSE Wrap(-q)
  <2>0. Negative(a) /\ Negative(b) \in BOOLEAN BY DEF Negative
  <2>1. CASE Negative(b)
    <3>1. T = m /\ Negative(a) = Negative(b) BY <1>16, <2>0, <2>1
    <3>2. Wrap(q) # Wrap(m) BY <1>3, <1>4, <1>8, <1>9, WrapDiffers
    <3>3. Wrap(q) = q BY WrapSame
    <3>4. QED BY <1>3, <3>1, <3>2, <3>3
  <2>2. CASE ~Negative(b)
    <3>1. T = -m /\ ~(Negative(a) = Negative(b)) BY <1>16, <2>0, <2>2
    <3>2. -m \in Int /\ -q \in Int /\ -q < -m /\ -m < -q + Modulus BY <1>3, <1>4, <1>8, <1>9
    <3>3. Wrap(-m) # Wrap(-q) BY <3>2, WrapDiffers
    <3>4. CASE q <= 0
      <4>1. -q = q BY <1>3, <3>4
      <4>2. Wrap(q) = q BY WrapSame
      <4>3. QED BY <3>1, <3>3, <3>4, <4>1, <4>2
    <3>5. CASE ~(q <= 0) BY <3>1, <3>3, <3>5
    <3>6. QED BY <3>4, <3>5
  <2>3. QED BY <2>0, <2>1, <2>2
<1>19. Exact(a, 0, b) <=> x = 0
  <2> DEFINE e == q - 2 * z
  <2>1. e \in Int /\ S = s * e + x
    <3>1. s * e \in Int BY <1>2, <1>3
    <3>2. QED BY <1>3, <1>6, <3>1
  <2> HIDE DEF e
  <2>2. S % s = x BY <1>1, <1>2, <1>3, <1>7, <2>1, DivisionUnique
  <2>3. S \div 1 = S
    <3>1. S = 1 * S + 0 BY <1>1
    <3>2. QED BY <1>1, <3>1, DivisionUnique
  <2>4. (S \div Power2[0]) % s = x BY <2>2, <2>3, Power
  <2>5. QED BY <2>4 DEF Exact, Size, S, s
<1>20. Wrap(S - B * T) = v <=> x = 0
  <2>1. S - B * T = S + s * m BY <1>1, <1>14, <1>16
  <2>2. CASE x = 0 BY <1>3, <1>13, <2>1, <2>2
  <2>3. CASE x # 0
    <3>1. S - B * T = x - s BY <1>13, <2>1, <2>3
    <3>2. x - s \in Int /\ x - s < x /\ x < (x - s) + Modulus BY <1>2, <1>3, <1>4
    <3>3. Wrap(x) # Wrap(x - s) BY <1>3, <3>2, WrapDiffers
    <3>4. QED BY <1>3, <2>3, <3>1, <3>3
  <2>4. QED BY <2>2, <2>3
<1>21. QED BY <1>17, <1>18, <1>19, <1>20 DEF S, B, T

\* Division by 1 or -1 is right if the second bit of the dividend is 1; the
\* remainder is wrong for the smallest number only.
LEMMA ByOneAnswer ==
  ASSUME NEW a \in Value, NEW b \in Value, b # 0, Negative(a), Size(b) = 1,
         NEW q \in Value, NEW v \in Value, ByOne(a, Width, q, Signed(v))
  PROVE  LET sq == Signed(q)
             T  == Truncated(Signed(a), Signed(b))
             low == Signed(a) < -(Modulus \div 4)
         IN  /\ Wrap(T) = (IF Negative(a) = Negative(b)
                             THEN IF sq >= 0 THEN q ELSE Wrap(-sq)
                             ELSE IF sq <= 0 THEN q ELSE Wrap(-sq)) <=> ~low
             /\ Wrap(Signed(a) - Signed(b) * T) = v <=> a # Half
             /\ a = Half => low
<1> DEFINE S == Signed(a)
           B == Signed(b)
           x == Signed(v)
           T == Truncated(S, B)
           low == S < -(Modulus \div 4)
<1>1. /\ a \in Int /\ a >= Half /\ a < Modulus /\ Modulus = 2 * Half
      /\ Modulus \in Int /\ Half \in Int /\ Half > 1 /\ Half = Power2[Width - 1]
  BY SignedValue, ValueIsInt, Halves
<1>2. S = a - Modulus BY <1>1 DEF Signed, Half
<1>3. q \in Int /\ q < Modulus /\ x \in Int /\ Wrap(x) = v BY SignedValue, ValueIsInt
<1>4. Leading(a, Width) = a BY <1>1, LeadingEnds
<1>5. IF low THEN a < q /\ x = IF a = Half THEN -1 ELSE 0
             ELSE q = a /\ x = 0
  BY <1>1, <1>4, WidthAssumption DEF ByOne
<1>6. a = Half => low
  <2>1. Half = 2 * (Modulus \div 4) /\ Modulus \div 4 \in Int /\ Modulus \div 4 > 0
    BY Quarters
  <2> HIDE DEF S
  <2>2. QED BY <1>1, <1>2, <2>1
<1>7. Magnitude(S) \div Size(b) = -S
  <2>1. Magnitude(S) = -S BY <1>1, <1>2 DEF Magnitude
  <2> DEFINE d == -S
  <2>2. d \in Int /\ d = 1 * d + 0 BY <1>1, <1>2
  <2> HIDE DEF d
  <2>3. d \div 1 = d BY <2>2, DivisionUnique
  <2>4. QED BY <2>1, <2>3 DEF d
<1>8. (T = IF Negative(b) THEN -S ELSE S) /\ B * T = S
  <2>1. -S \in Int /\ -(-S) = S BY <1>1, <1>2
  <2>2. (T = IF Negative(b) THEN -S ELSE -(-S)) /\ B * T = -(1 * (-S))
    <3> DEFINE d == -S
    <3>1. Magnitude(S) \div Size(b) = d /\ d \in Int BY <1>7, <2>1
    <3> HIDE DEF d
    <3>2. (T = IF Negative(b) THEN d ELSE -d) /\ B * T = -(1 * d)
      BY <3>1, SignOfTruncated
    <3>3. QED BY <3>2 DEF d
  <2>3. QED BY <2>1, <2>2
<1>9. Signed(q) = q - Modulus /\ Signed(q) < 0
  <2>1. q >= Half BY <1>1, <1>3, <1>5
  <2>2. QED BY <1>1, <1>3, <2>1 DEF Signed, Half
<1> HIDE DEF S, B, T, x, low
<1>10. Wrap(T) = (IF Negative(a) = Negative(b)
                    THEN IF Signed(q) >= 0 THEN q ELSE Wrap(-Signed(q))
                    ELSE IF Signed(q) <= 0 THEN q ELSE Wrap(-Signed(q))) <=> q = a
  <2>0. Negative(a) /\ Negative(b) \in BOOLEAN /\ Signed(q) \in Int
    BY <1>1, <1>3, <1>9 DEF Negative
  <2>1. CASE Negative(b)
    <3>1. T = -S /\ Negative(a) = Negative(b) BY <1>8, <2>0, <2>1
    <3>2. ~(Signed(q) >= 0) BY <1>9, <2>0
    <3>3. -S = Modulus - a /\ -Signed(q) = Modulus - q BY <1>1, <1>2, <1>3, <1>9
    <3>4. Wrap(Modulus - a) = Wrap(Modulus - q) <=> q = a
      <4>1. CASE q = a BY <4>1
      <4>2. CASE q # a
        <5> DEFINE c == Modulus - a
                   d == Modulus - q
        <5>1. a < q BY <1>5, <4>2
        <5>2. c \in Int /\ d \in Int /\ d < c /\ c < d + Modulus BY <1>1, <1>3, <5>1
        <5> HIDE DEF c, d
        <5>3. Wrap(c) # Wrap(d) BY <5>2, WrapDiffers
        <5>4. QED BY <4>2, <5>3 DEF c, d
      <4>3. QED BY <4>1, <4>2
    <3>5. QED BY <3>1, <3>2, <3>3, <3>4
  <2>2. CASE ~Negative(b)
    <3>1. T = S /\ ~(Negative(a) = Negative(b)) BY <1>8, <2>0, <2>2
    <3>2. Signed(q) <= 0 BY <1>9, <2>0
    <3>3. Wrap(S) = a BY SignedValue DEF S
    <3>4. QED BY <3>1, <3>2, <3>3
  <2>3. QED BY <2>0, <2>1, <2>2
<1>11. q = a <=> ~low
  <2>1. low \in BOOLEAN BY DEF low
  <2>2. QED BY <1>1, <1>3, <1>5, <2>1
<1>12. Wrap(S - B * T) = v <=> a # Half
  <2>1. S - B * T = 0 BY <1>1, <1>2, <1>8
  <2>2. 0 \in Value /\ Wrap(0) = 0
    <3>1. 0 \in Value BY Halves DEF Value
    <3>2. QED BY <3>1, WrapSame
  <2>3. CASE a = Half
    <3>1. x = -1 BY <1>5, <1>6, <2>3
    <3>2. Signed(0) = 0 BY <1>1 DEF Signed, Half
    <3>3. v # 0 BY <3>1, <3>2 DEF x
    <3>4. QED BY <2>1, <2>2, <2>3, <3>3
  <2>4. CASE a # Half
    <3>1. x = 0 BY <1>5, <2>4
    <3>2. QED BY <1>3, <2>1, <2>2, <2>4, <3>1
  <2>5. QED BY <2>3, <2>4
<1>13. QED BY <1>6, <1>10, <1>11, <1>12 DEF S, B, T, low
-----------------------------------------------------------------------------
(* The invariant.                                                          *)

Resting(u) == u.i = 0 /\ ~u.waiting /\ ~u.ok

\* The unit has taken some edges for the request, or has just answered it.
Progress(u) ==
    \/ u.i \in 2 .. Width + 1 /\ ~u.waiting /\ ~u.ok
    \/ u.i = 0 /\ u.waiting /\ u.ok

\* The edges it has taken.
Edges(u) == IF u.ok THEN Width ELSE u.i - 1

MultiHolds(u, a, b) == u.result = Wrap(a * Multiplied(b, Edges(u) + 1))
DivuHolds(u, a, b)  == Divided(Leading(a, Edges(u)), b, u.result, u.rem)
DivHolds(u, a, b)   == SignedDivided(a, b, Edges(u), u.result, Signed(u.rem))

\* A new operation meets units at rest.  The last conjunct is what the code
\* of div.sv does not see to by itself: it keeps ok without a request.
Units ==
    /\ fresh => req # NoRequest /\ Resting(multi) /\ Resting(div) /\ Resting(divu)
    /\ ~fresh /\ MultiValid => Progress(multi) /\ MultiHolds(multi, req.a, req.b)
    /\ ~fresh /\ DivuValid  => Progress(divu) /\ DivuHolds(divu, req.a, req.b)
    /\ ~fresh /\ DivValid   => Progress(div) /\ DivHolds(div, req.a, req.b)
    /\ div.ok => DivValid

IInv == TypeOK /\ Units

MultiType == [i : 0 .. Width + 1, waiting : BOOLEAN, ok : BOOLEAN, result : Value]
UnitType  == [i : 0 .. Width + 1, waiting : BOOLEAN, ok : BOOLEAN,
              result : Value, rem : Value]

LEMMA Typed ==
  ASSUME TypeOK
  PROVE  /\ multi \in MultiType /\ div \in UnitType /\ divu \in UnitType
         /\ req.a \in Value /\ req.b \in Value
         /\ MultiValid \/ DivValid \/ DivuValid => req # NoRequest
         /\ DivValid \/ DivuValid => req.b # 0
<1>1. 0 \in Value BY Halves DEF Value
<1>2. NoRequest.a \in Value /\ NoRequest.b \in Value BY <1>1 DEF NoRequest
<1>3. NoRequest.op = "NONE" BY DEF NoRequest
<1>4. QED
  BY <1>2, <1>3 DEF TypeOK, Request, MultiValid, DivValid, DivuValid, MultiType, UnitType

LEMMA BitIsInt ==
  ASSUME NEW v \in Value, NEW k \in Nat
  PROVE  Bit(v, k) \in {0, 1}
<1>1. v \in Int /\ Power2[k] \in Int /\ Power2[k] > 0 BY ValueIsInt, Power
<1>2. QED BY <1>1, Halving DEF Bit

LEMMA AnswerIs ==
  ASSUME NEW T \in {MultiType, UnitType}, NEW u \in T
  PROVE  /\ Answer(u) \in T
         /\ Answer(u).i = 0 /\ Answer(u).waiting /\ Answer(u).ok
         /\ Answer(u).result = u.result
         /\ T = UnitType => Answer(u).rem = u.rem
<1>0. 0 \in 0 .. Width + 1 BY WidthAssumption
<1> DEFINE v == [u EXCEPT !.i = 0]
           w == [v EXCEPT !.ok = TRUE]
<1>1. v \in T
  <2>1. CASE T = MultiType BY <1>0, <2>1 DEF MultiType
  <2>2. CASE T = UnitType BY <1>0, <2>2 DEF UnitType
  <2>3. QED BY <2>1, <2>2
<1> HIDE DEF v
<1>2. w \in T
  <2>1. CASE T = MultiType BY <1>1, <2>1 DEF MultiType
  <2>2. CASE T = UnitType BY <1>1, <2>2 DEF UnitType
  <2>3. QED BY <2>1, <2>2
<1> HIDE DEF w
<1>3. [w EXCEPT !.waiting = TRUE] \in T
  <2>1. CASE T = MultiType BY <1>2, <2>1 DEF MultiType
  <2>2. CASE T = UnitType BY <1>2, <2>2 DEF UnitType
  <2>3. QED BY <2>1, <2>2
<1>4. Answer(u) \in T BY <1>3 DEF Answer, w, v
<1>5. QED BY <1>4 DEF Answer, MultiType, UnitType

LEMMA MultiAnswerIs ==
  ASSUME NEW u \in MultiType
  PROVE  /\ Answer(u) \in MultiType
         /\ Answer(u).i = 0 /\ Answer(u).waiting /\ Answer(u).ok
         /\ Answer(u).result = u.result
<1>1. MultiType \in {MultiType, UnitType} OBVIOUS
<1>2. QED BY <1>1, AnswerIs

LEMMA UnitAnswerIs ==
  ASSUME NEW u \in UnitType
  PROVE  /\ Answer(u) \in UnitType
         /\ Answer(u).i = 0 /\ Answer(u).waiting /\ Answer(u).ok
         /\ Answer(u).result = u.result /\ Answer(u).rem = u.rem
<1>1. UnitType \in {MultiType, UnitType} OBVIOUS
<1>2. QED BY <1>1, AnswerIs

\* The registers of the units keep their types at every edge.
LEMMA MultiTyped ==
  ASSUME TypeOK, NEW valid \in BOOLEAN
  PROVE  MultiEdge(valid) \in MultiType
<1>0. 0 \in Value /\ Width \in Nat BY Halves, WidthAssumption DEF Value
<1>1. multi \in MultiType BY Typed
<1>2. Answer(multi) \in MultiType BY <1>1, AnswerIs
<1>3. ASSUME ~Complete(multi) PROVE MultiStep(multi, req.a, req.b) \in MultiType
  <2> DEFINE k == Started(multi)
             sum == IF multi.i = 0 THEN 0 ELSE multi.result
  <2>1. k \in Nat /\ k + 1 \in 0 .. Width + 1
    BY <1>0, <1>1, <1>3, WidthAssumption DEF Started, Complete, MultiType
  <2>2. sum \in Value BY <1>0, <1>1 DEF MultiType
  <2>3. req.a \in Int /\ sum \in Int BY <2>2, Typed, ValueIsInt
  <2>4. req.a * Power2[k] \in Int BY <2>1, <2>3, Power
  <2>5. Wrap(sum + req.a * Power2[k]) \in Value BY <2>3, <2>4, WrapValue
  <2>6. QED BY <2>1, <2>2, <2>5 DEF MultiStep, MultiType
<1>4. [i |-> 0, waiting |-> FALSE, ok |-> FALSE, result |-> 0] \in MultiType
  BY <1>0 DEF MultiType
<1>5. QED BY <1>2, <1>3, <1>4 DEF MultiEdge

LEMMA DivuTyped ==
  ASSUME TypeOK, NEW valid \in BOOLEAN
  PROVE  DivuEdge(valid) \in UnitType
<1>0. 0 \in Value /\ Width \in Nat BY Halves, WidthAssumption DEF Value
<1>1. divu \in UnitType BY Typed
<1>2. Answer(divu) \in UnitType BY <1>1, AnswerIs
<1>3. ASSUME ~Complete(divu) PROVE DivuStep(divu, req.a, req.b) \in UnitType
  <2> DEFINE k == Started(divu)
             old == IF k = 1 THEN 0 ELSE divu.rem
             quo == IF divu.i = 0 THEN 0 ELSE divu.result
             rem == Wrap(2 * old + Bit(req.a, Width - k))
             res == Wrap(2 * quo)
  <2>1. Width - k \in Nat /\ k + 1 \in 0 .. Width + 1
    BY <1>0, <1>1, <1>3, WidthAssumption DEF Started, Complete, UnitType
  <2>2. old \in Value /\ quo \in Value BY <1>0, <1>1 DEF UnitType
  <2>3. old \in Int /\ quo \in Int BY <2>2, ValueIsInt
  <2>4. Bit(req.a, Width - k) \in {0, 1} BY <2>1, Typed, BitIsInt
  <2>5. rem \in Value /\ res \in Value /\ rem \in Int /\ res \in Int
    BY <2>3, <2>4, WrapValue
  <2> HIDE DEF k, old, quo, rem, res
  <2>6. Wrap(res + 1) \in Value BY <2>5, WrapValue
  <2>7. rem >= req.b => rem - req.b \in Value
    <3>1. req.b \in Int /\ 0 <= req.b /\ rem < Modulus /\ Modulus \in Int
      BY <2>5, Typed, ValueIsInt, Halves
    <3>2. QED BY <2>5, <3>1 DEF Value
  <2>8. QED BY <2>1, <2>5, <2>6, <2>7 DEF DivuStep, UnitType, k, old, quo, rem, res
<1>4. [i |-> 0, waiting |-> FALSE, ok |-> FALSE, result |-> 0, rem |-> 0] \in UnitType
  BY <1>0 DEF UnitType
<1>5. QED BY <1>2, <1>3, <1>4 DEF DivuEdge

\* A cycle without a request clears the signed divider but for ok and rem.
LEMMA ClearedIs ==
  ASSUME NEW u \in UnitType
  PROVE  LET c == [u EXCEPT !.i = 0, !.waiting = FALSE, !.result = 0]
         IN  c \in UnitType /\ c.i = 0 /\ ~c.waiting /\ c.ok = u.ok
<1>0. 0 \in 0 .. Width + 1 /\ 0 \in Value BY WidthAssumption, Halves DEF Value
<1> DEFINE v == [u EXCEPT !.i = 0]
           w == [v EXCEPT !.waiting = FALSE]
           c == [u EXCEPT !.i = 0, !.waiting = FALSE, !.result = 0]
<1>1. v \in UnitType BY <1>0 DEF UnitType
<1> HIDE DEF v
<1>2. w \in UnitType BY <1>1 DEF UnitType
<1> HIDE DEF w
<1>3. [w EXCEPT !.result = 0] \in UnitType BY <1>0, <1>2 DEF UnitType
<1>4. c \in UnitType BY <1>3 DEF w, v
<1>5. c.i = 0 /\ ~c.waiting /\ c.ok = u.ok BY DEF UnitType
<1>6. QED BY <1>4, <1>5

LEMMA DivTyped ==
  ASSUME TypeOK, NEW valid \in BOOLEAN
  PROVE  DivEdge(valid) \in UnitType
<1>0. 0 \in Value /\ Width \in Nat BY Halves, WidthAssumption DEF Value
<1>1. div \in UnitType BY Typed
<1>2. Answer(div) \in UnitType BY <1>1, AnswerIs
<1>3. ASSUME ~Complete(div) PROVE DivStep(div, req.a, req.b) \in UnitType
  <2> DEFINE k == IF div.waiting THEN 1 ELSE Started(div)
             old == IF k <= 2 THEN SignFill(req.a) ELSE div.rem
             quo == IF k = 1 THEN 0 ELSE div.result
             rem == Wrap(2 * old + Bit(req.a, Width - k))
             res == Wrap(2 * quo)
             ok == IF div.i = 0 \/ div.waiting THEN FALSE ELSE div.ok
  <2>1. Width - k \in Nat /\ k + 1 \in 0 .. Width + 1
    BY <1>0, <1>1, <1>3, WidthAssumption DEF Started, Complete, UnitType
  <2>2. old \in Value /\ quo \in Value BY <1>0, <1>1, Typed, SignFillValue DEF UnitType
  <2>3. old \in Int /\ quo \in Int BY <2>2, ValueIsInt
  <2>4. Bit(req.a, Width - k) \in {0, 1} BY <2>1, Typed, BitIsInt
  <2>5. rem \in Value /\ res \in Value /\ rem \in Int /\ res \in Int
    BY <2>3, <2>4, WrapValue
  <2>6. ok \in BOOLEAN BY <1>1 DEF UnitType
  <2> HIDE DEF k, old, quo, rem, res, ok
  <2>7. Wrap(res + 1) \in Value BY <2>5, WrapValue
  <2>8. Toward(rem, req.b) \in Value
    <3>1. req.b \in Int BY Typed, ValueIsInt
    <3>2. rem - req.b \in Int /\ rem + req.b \in Int BY <2>5, <3>1
    <3>3. QED BY <3>2, WrapValue DEF Toward
  <2>9. QED BY <2>1, <2>5, <2>6, <2>7, <2>8
            DEF DivStep, UnitType, k, old, quo, rem, res, ok
<1>4. [div EXCEPT !.i = 0, !.waiting = FALSE, !.result = 0] \in UnitType
  BY <1>1, ClearedIs
<1>5. QED BY <1>2, <1>3, <1>4 DEF DivEdge

LEMMA TypesKept == TypeOK /\ [Next]_vars => TypeOK'
<1> SUFFICES ASSUME TypeOK, [Next]_vars PROVE TypeOK'
  OBVIOUS
<1>1. CASE Next
  <2>1. MultiValid \in BOOLEAN /\ DivValid \in BOOLEAN /\ DivuValid \in BOOLEAN
    BY DEF MultiValid, DivValid, DivuValid
  <2>2. multi' \in MultiType /\ div' \in UnitType /\ divu' \in UnitType
    BY <1>1, <2>1, MultiTyped, DivTyped, DivuTyped DEF Next, UnitEdges
  <2>3. req' \in Request \cup {NoRequest} /\ fresh' \in BOOLEAN
    BY <1>1, RequestAssumption DEF Next, Issue, Wait, Leave, Flush, TypeOK
  <2>4. QED BY <2>2, <2>3 DEF TypeOK, MultiType, UnitType
<1>2. CASE UNCHANGED vars BY <1>2 DEF vars, TypeOK, Request, Value
<1>3. QED BY <1>1, <1>2

-----------------------------------------------------------------------------
(* A unit at work: each edge takes in one bit more, and the last one says  *)
(* that the answer is there.                                               *)

LEMMA MultiMoves ==
  ASSUME NEW a \in Value, NEW b \in Value, NEW u \in MultiType, ~u.waiting,
         Resting(u) \/ (Progress(u) /\ MultiHolds(u, a, b) /\ ~u.ok),
         NEW w, w = IF Complete(u) THEN Answer(u) ELSE MultiStep(u, a, b)
  PROVE  Progress(w) /\ MultiHolds(w, a, b)
<1>0. Width \in Nat /\ Width > 1 BY WidthAssumption
<1>1. ASSUME NEW k \in 1 .. Width, NEW s, s = Wrap(a * Multiplied(b, k)),
             \/ u.i = 0 /\ k = 1 /\ s = 0
             \/ u.i # 0 /\ u.i = k /\ s = u.result
      PROVE  Progress(w) /\ MultiHolds(w, a, b)
  <2>1. k \in Nat /\ k + 1 \in 2 .. Width + 1 /\ (k + 1) - 1 = k BY <1>0
  <2>2. ~Complete(u) BY <1>0, <1>1 DEF Complete
  <2>3. Started(u) = k BY <1>1 DEF Started
  <2>4. (IF u.i = 0 THEN 0 ELSE u.result) = s BY <1>1
  <2> DEFINE next == IF Bit(b, k) = 1 THEN Wrap(s + a * Power2[k]) ELSE s
  <2>5. MultiStep(u, a, b) = [i |-> k + 1, waiting |-> FALSE, ok |-> FALSE, result |-> next]
    BY <2>3, <2>4, Zenon DEF MultiStep
  <2>6. next = Wrap(a * Multiplied(b, k + 1)) BY <1>1, <2>1, MultiStepRight
  <2> HIDE DEF next
  <2>7. w.i = k + 1 /\ ~w.waiting /\ ~w.ok /\ w.result = next BY <2>2, <2>5
  <2>8. Edges(w) = k BY <2>1, <2>7 DEF Edges
  <2>9. QED BY <2>1, <2>6, <2>7, <2>8 DEF Progress, MultiHolds
<1>2. CASE Resting(u)
  <2>1. a \in Int /\ a * 0 = 0 /\ 0 \in Value BY ValueIsInt, Halves DEF Value
  <2>2. Wrap(a * Multiplied(b, 1)) = 0 BY <2>1, MultipliedFirst, WrapSame
  <2>3. 1 \in 1 .. Width BY <1>0
  <2>4. QED BY <1>1, <1>2, <2>2, <2>3 DEF Resting
<1>3. CASE Progress(u) /\ MultiHolds(u, a, b) /\ ~u.ok
  <2>1. u.i \in 2 .. Width + 1 BY <1>3 DEF Progress
  <2>2. (u.i - 1) + 1 = u.i BY <1>0, <2>1
  <2>3. u.result = Wrap(a * Multiplied(b, u.i)) BY <1>3, <2>2 DEF MultiHolds, Edges
  <2>4. CASE u.i = Width + 1
    <3>1. w.i = 0 /\ w.waiting /\ w.ok /\ w.result = u.result
      BY <2>4, MultiAnswerIs DEF Complete
    <3>2. QED BY <2>3, <2>4, <3>1 DEF Progress, MultiHolds, Edges
  <2>5. CASE u.i # Width + 1
    <3>1. u.i \in 1 .. Width /\ u.i # 0 BY <1>0, <2>1, <2>5
    <3>2. QED BY <1>1, <2>3, <3>1
  <2>6. QED BY <2>4, <2>5
<1>4. QED BY <1>2, <1>3

LEMMA DivuMoves ==
  ASSUME NEW a \in Value, NEW b \in Value, b # 0, NEW u \in UnitType, ~u.waiting,
         Resting(u) \/ (Progress(u) /\ DivuHolds(u, a, b) /\ ~u.ok),
         NEW w, w = IF Complete(u) THEN Answer(u) ELSE DivuStep(u, a, b)
  PROVE  Progress(w) /\ DivuHolds(w, a, b)
<1>0. Width \in Nat /\ Width > 1 BY WidthAssumption
<1>1. ASSUME NEW k \in 1 .. Width, NEW q, NEW r, Divided(Leading(a, k - 1), b, q, r),
             \/ u.i = 0 /\ k = 1 /\ q = 0 /\ r = 0
             \/ u.i \notin {0, 1} /\ u.i = k /\ q = u.result /\ r = u.rem
      PROVE  Progress(w) /\ DivuHolds(w, a, b)
  <2>1. k + 1 \in 2 .. Width + 1 /\ (k + 1) - 1 = k BY <1>0
  <2>2. ~Complete(u) BY <1>0, <1>1 DEF Complete
  <2>3. Started(u) = k BY <1>1 DEF Started
  <2>4. (IF k = 1 THEN 0 ELSE u.rem) = r /\ (IF u.i = 0 THEN 0 ELSE u.result) = q
    BY <1>1
  <2> DEFINE rem == Wrap(2 * r + Bit(a, Width - k))
             res == Wrap(2 * q)
             left == IF rem >= b THEN rem - b ELSE rem
             next == IF rem >= b THEN Wrap(res + 1) ELSE res
  <2>5. DivuStep(u, a, b) = [i |-> k + 1, waiting |-> FALSE, ok |-> FALSE,
                             rem |-> left, result |-> next]
    BY <2>3, <2>4, Zenon DEF DivuStep
  <2>6. Divided(Leading(a, k), b, next, left) BY <1>1, DivuStepRight
  <2> HIDE DEF left, next
  <2>7. w.i = k + 1 /\ ~w.waiting /\ ~w.ok /\ w.result = next /\ w.rem = left
    BY <2>2, <2>5
  <2>8. Edges(w) = k BY <2>1, <2>7 DEF Edges
  <2>9. QED BY <2>1, <2>6, <2>7, <2>8 DEF Progress, DivuHolds
<1>2. CASE Resting(u)
  <2>1. a \in Int /\ 0 <= a /\ a < Modulus /\ b \in Int /\ b > 0 BY ValueIsInt
  <2>2. Leading(a, 0) = 0 BY <2>1, LeadingEnds
  <2>3. 0 \div b = 0 /\ 0 % b = 0
    <3>1. 0 = b * 0 + 0 BY <2>1
    <3>2. QED BY <2>1, <3>1, DivisionUnique
  <2>4. Divided(Leading(a, 0), b, 0, 0) BY <2>2, <2>3 DEF Divided
  <2>5. 1 \in 1 .. Width /\ 1 - 1 = 0 BY <1>0
  <2>6. QED BY <1>1, <1>2, <2>4, <2>5 DEF Resting
<1>3. CASE Progress(u) /\ DivuHolds(u, a, b) /\ ~u.ok
  <2>1. u.i \in 2 .. Width + 1 BY <1>3 DEF Progress
  <2>2. Divided(Leading(a, u.i - 1), b, u.result, u.rem) BY <1>3 DEF DivuHolds, Edges
  <2>3. CASE u.i = Width + 1
    <3>1. w.i = 0 /\ w.waiting /\ w.ok /\ w.result = u.result /\ w.rem = u.rem
      BY <2>3, UnitAnswerIs DEF Complete
    <3>2. u.i - 1 = Width BY <1>0, <2>3
    <3>3. QED BY <2>2, <3>1, <3>2 DEF Progress, DivuHolds, Edges
  <2>4. CASE u.i # Width + 1
    <3>1. u.i \in 1 .. Width /\ u.i \notin {0, 1} BY <1>0, <2>1, <2>4
    <3>2. QED BY <1>1, <2>2, <3>1
  <2>5. QED BY <2>3, <2>4
<1>4. QED BY <1>2, <1>3

LEMMA DivMoves ==
  ASSUME NEW a \in Value, NEW b \in Value, b # 0, NEW u \in UnitType, ~u.waiting,
         Resting(u) \/ (Progress(u) /\ DivHolds(u, a, b) /\ ~u.ok),
         NEW w, w = IF Complete(u) THEN Answer(u) ELSE DivStep(u, a, b)
  PROVE  Progress(w) /\ DivHolds(w, a, b)
<1>0. Width \in Nat /\ Width > 1 BY WidthAssumption
<1>1. ASSUME NEW k \in 1 .. Width, NEW q \in Value, NEW v \in Value, NEW x \in Int,
             \/ u.i = 0 /\ k = 1
             \/ u.i \notin {0, 1} /\ u.i = k,
             ~u.ok,
             v = IF k <= 2 THEN SignFill(a) ELSE u.rem,
             q = IF k = 1 THEN 0 ELSE u.result,
             k > 1 => SignedDivided(a, b, k - 1, q, x),
             k > 2 => x = Signed(v)
      PROVE  Progress(w) /\ DivHolds(w, a, b)
  <2>1. k + 1 \in 2 .. Width + 1 /\ (k + 1) - 1 = k BY <1>0
  <2>2. ~Complete(u) BY <1>0, <1>1 DEF Complete
  <2>3. (IF u.waiting THEN 1 ELSE Started(u)) = k BY <1>1 DEF Started
  <2>4. (IF u.i = 0 \/ u.waiting THEN FALSE ELSE u.ok) = FALSE BY <1>1 DEF UnitType
  <2> DEFINE rem == Wrap(2 * v + Bit(a, Width - k))
             res == Wrap(2 * q)
             left == IF Reaches(rem, b) THEN Toward(rem, b) ELSE rem
             next == IF Reaches(rem, b) THEN Wrap(res + 1) ELSE res
  <2>5. DivStep(u, a, b) = [i |-> k + 1, waiting |-> FALSE, ok |-> FALSE,
                            rem |-> left, result |-> next]
    BY <1>1, <2>3, <2>4, Zenon DEF DivStep
  <2>6. SignedDivided(a, b, k, next, Signed(left))
    <3>1. (k = 1 => q = 0) /\ (k <= 2 => v = SignFill(a)) BY <1>1
    <3>2. QED BY <1>1, <3>1, DivStepRight
  <2> HIDE DEF left, next
  <2>7. w.i = k + 1 /\ ~w.waiting /\ ~w.ok /\ w.result = next /\ w.rem = left
    BY <2>2, <2>5
  <2>8. Edges(w) = k BY <2>1, <2>7 DEF Edges
  <2>9. QED BY <2>1, <2>6, <2>7, <2>8 DEF Progress, DivHolds
<1>2. SignFill(a) \in Value BY SignFillValue
<1>3. CASE Resting(u)
  <2>1. 1 \in 1 .. Width /\ 1 <= 2 /\ ~(1 > 1) /\ ~(1 > 2) /\ 0 \in Int BY <1>0
  <2>2. 0 \in Value BY Halves DEF Value
  <2>3. QED BY <1>1, <1>2, <1>3, <2>1, <2>2 DEF Resting
<1>4. CASE Progress(u) /\ DivHolds(u, a, b) /\ ~u.ok
  <2>1. u.i \in 2 .. Width + 1 BY <1>4 DEF Progress
  <2>2. SignedDivided(a, b, u.i - 1, u.result, Signed(u.rem))
    BY <1>4 DEF DivHolds, Edges
  <2>3. CASE u.i = Width + 1
    <3>1. w.i = 0 /\ w.waiting /\ w.ok /\ w.result = u.result /\ w.rem = u.rem
      BY <2>3, UnitAnswerIs DEF Complete
    <3>2. u.i - 1 = Width BY <1>0, <2>3
    <3>3. QED BY <2>2, <3>1, <3>2 DEF Progress, DivHolds, Edges
  <2>4. CASE u.i # Width + 1
    <3>1. u.i \in 2 .. Width /\ u.i \in 1 .. Width /\ u.i \notin {0, 1} /\ u.i # 1
      BY <1>0, <2>1, <2>4
    <3> DEFINE v == IF u.i <= 2 THEN SignFill(a) ELSE u.rem
    <3>2. v \in Value /\ u.result \in Value /\ u.rem \in Value BY <1>2 DEF UnitType
    <3>3. u.i > 2 => Signed(u.rem) = Signed(v) BY <3>1
    <3>4. Signed(u.rem) \in Int BY <3>2, SignedValue
    <3> HIDE DEF v
    <3>5. QED BY <1>1, <1>4, <2>2, <3>1, <3>2, <3>3, <3>4 DEF v
  <2>5. QED BY <2>3, <2>4
<1>5. QED BY <1>3, <1>4

-----------------------------------------------------------------------------
(* The invariant holds.                                                    *)

LEMMA NoRequestAsksNobody ==
  req = NoRequest => ~MultiValid /\ ~DivValid /\ ~DivuValid
BY DEF NoRequest, MultiValid, DivValid, DivuValid

\* A cycle without a request clears a unit.
LEMMA WithoutRequest ==
  ASSUME TypeOK, UnitEdges
  PROVE  /\ ~MultiValid => Resting(multi')
         /\ ~DivuValid => Resting(divu')
         /\ ~DivValid => div'.i = 0 /\ ~div'.waiting /\ div'.ok = div.ok
<1>1. ~MultiValid => multi' = [i |-> 0, waiting |-> FALSE, ok |-> FALSE, result |-> 0]
  BY DEF UnitEdges, MultiEdge
<1>2. ~DivuValid => divu' = [i |-> 0, waiting |-> FALSE, ok |-> FALSE, result |-> 0, rem |-> 0]
  BY DEF UnitEdges, DivuEdge
<1>3. ~DivValid => div' = [div EXCEPT !.i = 0, !.waiting = FALSE, !.result = 0]
  BY DEF UnitEdges, DivEdge
<1>4. ~MultiValid => Resting(multi')
  <2> SUFFICES ASSUME ~MultiValid PROVE Resting(multi')
    OBVIOUS
  <2>1. multi'.i = 0 /\ multi'.waiting = FALSE /\ multi'.ok = FALSE BY <1>1
  <2>2. QED BY <2>1 DEF Resting
<1>5. ~DivuValid => Resting(divu')
  <2> SUFFICES ASSUME ~DivuValid PROVE Resting(divu')
    OBVIOUS
  <2>1. divu'.i = 0 /\ divu'.waiting = FALSE /\ divu'.ok = FALSE BY <1>2
  <2>2. QED BY <2>1 DEF Resting
<1>6. ~DivValid => div'.i = 0 /\ ~div'.waiting /\ div'.ok = div.ok
  <2> SUFFICES ASSUME ~DivValid PROVE div'.i = 0 /\ ~div'.waiting /\ div'.ok = div.ok
    OBVIOUS
  <2>1. div \in UnitType BY Typed
  <2>2. div'.i = 0 /\ div'.waiting = FALSE /\ div'.ok = div.ok BY <1>3, <2>1 DEF UnitType
  <2>3. QED BY <2>2
<1>7. QED BY <1>4, <1>5, <1>6

\* The signed divider takes back ok at the edge after its answer.
LEMMA OkTakenBack ==
  ASSUME TypeOK, UnitEdges, DivValid, div.i = 0
  PROVE  ~div'.ok
<1>1. ~Complete(div) BY WidthAssumption DEF Complete
<1>2. div' = DivStep(div, req.a, req.b) BY <1>1 DEF UnitEdges, DivEdge
<1>3. DivStep(div, req.a, req.b).ok = FALSE BY DEF DivStep
<1>4. QED BY <1>2, <1>3

LEMMA InvariantInitially == Init => IInv
<1> SUFFICES ASSUME Init PROVE IInv
  OBVIOUS
<1>1. 0 \in Value /\ 0 \in 0 .. Width + 1 BY Halves, WidthAssumption DEF Value
<1>2. TypeOK
  <2>1. req \in Request \cup {NoRequest} BY DEF Init
  <2>2. fresh \in BOOLEAN BY DEF Init
  <2>3. multi \in [i : 0 .. Width + 1, waiting : BOOLEAN, ok : BOOLEAN, result : Value]
    BY <1>1 DEF Init
  <2>4. Clear \in [i : 0 .. Width + 1, waiting : BOOLEAN, ok : BOOLEAN,
                   result : Value, rem : Value]
    BY <1>1 DEF Clear
  <2>5. div = Clear /\ divu = Clear BY DEF Init
  <2>6. QED BY <2>1, <2>2, <2>3, <2>4, <2>5 DEF TypeOK
<1>3. ~MultiValid /\ ~DivValid /\ ~DivuValid BY NoRequestAsksNobody DEF Init
<1>4. ~div.ok /\ ~fresh BY DEF Init, Clear
<1>5. QED BY <1>2, <1>3, <1>4 DEF IInv, Units

LEMMA UnitsKept == IInv /\ [Next]_vars => Units'
<1> SUFFICES ASSUME TypeOK, Units, [Next]_vars PROVE Units'
  BY DEF IInv
<1>0. /\ multi \in MultiType /\ div \in UnitType /\ divu \in UnitType
      /\ req.a \in Value /\ req.b \in Value
      /\ DivValid \/ DivuValid => req.b # 0
  BY Typed
\* A request that leaves, or that was never there.
<1>1. ASSUME UnitEdges, req' = NoRequest, fresh' = FALSE, ~div'.ok PROVE Units'
  <2>1. ~MultiValid' /\ ~DivValid' /\ ~DivuValid'
    BY <1>1 DEF NoRequest, MultiValid, DivValid, DivuValid
  <2>2. QED BY <1>1, <2>1 DEF Units
<1>2. ASSUME UnitEdges, Issue PROVE Units'
  <2>1. ~MultiValid /\ ~DivValid /\ ~DivuValid BY <1>2, NoRequestAsksNobody DEF Issue
  <2>2. Resting(multi') /\ Resting(divu') /\ Resting(div')
    BY <1>2, <2>1, WithoutRequest DEF Units, Resting
  <2>3. CASE req' = NoRequest
    <3>1. fresh' = FALSE BY <1>2, <2>3 DEF Issue
    <3>2. QED BY <1>1, <1>2, <2>2, <2>3, <3>1 DEF Resting
  <2>4. CASE req' # NoRequest
    <3>1. fresh' = TRUE BY <1>2, <2>4 DEF Issue
    <3>2. (fresh => req # NoRequest /\ Resting(multi) /\ Resting(div) /\ Resting(divu))'
      BY <2>2, <2>4 DEF Resting
    <3>3. ~div'.ok BY <2>2 DEF Resting
    <3>4. QED BY <3>1, <3>2, <3>3 DEF Units
  <2>5. QED BY <2>3, <2>4
<1>3. ASSUME UnitEdges, Wait PROVE Units'
  <2>1. req' = req /\ fresh' = FALSE BY <1>3 DEF Wait
  <2>2. MultiValid' = MultiValid /\ DivValid' = DivValid /\ DivuValid' = DivuValid
    BY <2>1 DEF MultiValid, DivValid, DivuValid
  <2>3. ASSUME MultiValid
        PROVE  Progress(multi') /\ MultiHolds(multi', req.a, req.b)
    <3>1. ~multi.ok BY <1>3, <2>3 DEF Wait, Bubble, MultiValid, DivValid, DivuValid
    <3>2. \/ Resting(multi)
          \/ Progress(multi) /\ MultiHolds(multi, req.a, req.b) /\ ~multi.ok
      BY <2>3, <3>1 DEF Units
    <3>3. ~multi.waiting BY <3>1, <3>2 DEF Resting, Progress
    <3>4. multi' = IF Complete(multi) THEN Answer(multi)
                                      ELSE MultiStep(multi, req.a, req.b)
      BY <1>3, <2>3, <3>3 DEF UnitEdges, MultiEdge
    <3>5. QED BY <1>0, <3>2, <3>3, <3>4, MultiMoves
  <2>4. ASSUME DivuValid
        PROVE  Progress(divu') /\ DivuHolds(divu', req.a, req.b)
    <3>1. ~divu.ok BY <1>3, <2>4 DEF Wait, Bubble, MultiValid, DivValid, DivuValid
    <3>2. \/ Resting(divu)
          \/ Progress(divu) /\ DivuHolds(divu, req.a, req.b) /\ ~divu.ok
      BY <2>4, <3>1 DEF Units
    <3>3. ~divu.waiting BY <3>1, <3>2 DEF Resting, Progress
    <3>4. divu' = IF Complete(divu) THEN Answer(divu)
                                    ELSE DivuStep(divu, req.a, req.b)
      BY <1>3, <2>4, <3>3 DEF UnitEdges, DivuEdge
    <3>5. QED BY <1>0, <2>4, <3>2, <3>3, <3>4, DivuMoves
  <2>5. ASSUME DivValid
        PROVE  Progress(div') /\ DivHolds(div', req.a, req.b)
    <3>1. ~div.ok BY <1>3, <2>5 DEF Wait, Bubble, MultiValid, DivValid, DivuValid
    <3>2. \/ Resting(div)
          \/ Progress(div) /\ DivHolds(div, req.a, req.b) /\ ~div.ok
      BY <2>5, <3>1 DEF Units
    <3>3. ~div.waiting BY <3>1, <3>2 DEF Resting, Progress
    <3>4. div' = IF Complete(div) THEN Answer(div) ELSE DivStep(div, req.a, req.b)
      BY <1>3, <2>5 DEF UnitEdges, DivEdge
    <3>5. QED BY <1>0, <2>5, <3>2, <3>3, <3>4, DivMoves
  <2>6. div'.ok => DivValid
    <3>1. ~DivValid => div'.ok = div.ok BY <1>3, WithoutRequest
    <3>2. QED BY <3>1 DEF Units
  <2>7. QED BY <2>1, <2>2, <2>3, <2>4, <2>5, <2>6 DEF Units
<1>4. ASSUME UnitEdges, Leave \/ Flush PROVE Units'
  <2>1. req' = NoRequest /\ fresh' = FALSE BY <1>4 DEF Leave, Flush
  <2>2. CASE DivValid
    <3>1. div.i = 0
      <4>1. CASE fresh BY <4>1 DEF Units, Resting
      <4>2. CASE ~fresh
        <5>1. div.ok BY <1>4, <2>2, <4>2 DEF Leave, Flush, Bubble
        <5>2. QED BY <2>2, <4>2, <5>1 DEF Units, Resting, Progress
      <4>3. QED BY <4>1, <4>2
    <3>2. ~div'.ok BY <1>4, <2>2, <3>1, OkTakenBack
    <3>3. QED BY <1>1, <1>4, <2>1, <3>2
  <2>3. CASE ~DivValid
    <3>1. ~div'.ok BY <1>4, <2>3, WithoutRequest DEF Units
    <3>2. QED BY <1>1, <1>4, <2>1, <3>1
  <2>4. QED BY <2>2, <2>3
<1>5. CASE Next BY <1>2, <1>3, <1>4, <1>5 DEF Next
<1>6. CASE UNCHANGED vars
  BY <1>6 DEF vars, Units, Resting, Progress, MultiHolds, DivuHolds, DivHolds, Edges,
              MultiValid, DivValid, DivuValid
<1>7. QED BY <1>5, <1>6

LEMMA InvariantHolds == Spec => []IInv
<1>1. IInv /\ [Next]_vars => IInv' BY TypesKept, UnitsKept DEF IInv
<1>2. QED BY <1>1, InvariantInitially, PTL DEF Spec

\* The registers of the units stay within their widths: the counters never
\* pass Width + 1 and results stay numbers of Width bits.
THEOREM TypeCorrect == Spec => []TypeOK
<1>1. IInv => TypeOK BY DEF IInv
<1>2. QED BY <1>1, InvariantHolds, PTL

LEMMA InvariantAnswers == IInv => AnswersRight
<1> SUFFICES ASSUME TypeOK, Units, Answered PROVE Result = Expected <=> ~WrongSign
  BY DEF IInv, AnswersRight
<1> DEFINE a == req.a
           b == req.b
<1>1. /\ multi \in MultiType /\ div \in UnitType /\ divu \in UnitType
      /\ a \in Value /\ b \in Value
  BY Typed
<1>2. req.op \in Ops BY DEF Answered, TypeOK, Request
<1>3. Signed(b) \in Int /\ (Signed(b) = 0 <=> b = 0)
  <2>1. b # 0 => Signed(b) # 0 BY <1>1, SizeBounds
  <2>2. Signed(0) = 0 BY Halves DEF Signed, Half
  <2>3. QED BY <1>1, <2>1, <2>2, SignedValue
<1>4. CASE req.op = "MULT"
  <2>1. MultiValid /\ multi.ok BY <1>4 DEF MultiValid, Answered, Bubble
  <2>2. MultiHolds(multi, a, b) BY <2>1 DEF Units, Resting
  <2>3. multi.result = Wrap(a * Multiplied(b, Width + 1))
    BY <2>1, <2>2 DEF MultiHolds, Edges
  <2>4. Wrap(multi.result + (IF Bit(b, 0) = 1 THEN a ELSE 0)) = Wrap(a * b)
    BY <1>1, <2>3, ProductRight
  <2>5. ~WrongSign BY <1>4 DEF WrongSign
  <2>6. QED BY <1>4, <2>4, <2>5 DEF Result, Expected
<1>5. CASE req.op \in {"DIVU", "REMU"}
  <2>0. ~WrongSign BY <1>5 DEF WrongSign
  <2>1. CASE b = 0 BY <1>5, <2>0, <2>1 DEF Result, Expected
  <2>2. CASE b # 0
    <3>1. DivuValid /\ divu.ok BY <1>5, <2>2 DEF DivuValid, Answered, Bubble
    <3>2. Divided(Leading(a, Width), b, divu.result, divu.rem)
      BY <3>1 DEF Units, Resting, DivuHolds, Edges
    <3>3. a \in Int BY <1>1, ValueIsInt
    <3>4. divu.result = a \div b /\ divu.rem = a % b BY <3>2, <3>3, LeadingEnds DEF Divided
    <3>5. QED BY <1>5, <2>0, <2>2, <3>4 DEF Result, Expected
  <2>3. QED BY <2>1, <2>2
<1>6. CASE req.op \in {"DIV", "REM"}
  <2>1. CASE b = 0 BY <1>3, <1>6, <2>1 DEF Result, Expected, WrongSign
  <2>2. CASE b # 0
    <3>1. DivValid /\ div.ok BY <1>6, <2>2 DEF DivValid, Answered, Bubble
    <3> DEFINE q == div.result
               v == div.rem
               S == Signed(a)
               T == Truncated(S, Signed(b))
               low == S < -(Modulus \div 4)
    <3>2. SignedDivided(a, b, Width, q, Signed(v))
      BY <3>1 DEF Units, Resting, DivHolds, Edges
    <3>3. Leading(S, Width) = S BY <1>1, SignedValue, LeadingEnds
    <3>4. q \in Value /\ v \in Value BY <1>1 DEF UnitType
    <3> DEFINE quotient == IF Negative(a) = Negative(b)
                             THEN IF Signed(q) >= 0 THEN q ELSE Wrap(-Signed(q))
                             ELSE IF Signed(q) <= 0 THEN q ELSE Wrap(-Signed(q))
               remainder == Wrap(S - Signed(b) * T)
    <3>5. SignedQuotient = quotient BY DEF SignedQuotient
    \* The answer and what it should be, from what the divider holds.
    <3>6. /\ req.op = "DIV" => Result = quotient /\ Expected = Wrap(T)
          /\ req.op = "REM" => Result = v /\ Expected = remainder
      BY <1>3, <2>2, <3>5 DEF Result, Expected
    <3> HIDE DEF quotient, remainder, low
    <3>7. CASE Negative(a) /\ Size(b) = 1
      <4>1. ByOne(a, Width, q, Signed(v)) BY <3>2, <3>7 DEF SignedDivided
      <4>2. /\ Wrap(T) = quotient <=> ~low
            /\ remainder = v <=> a # Half
            /\ a = Half => low
        BY <1>1, <2>2, <3>4, <3>7, <4>1, ByOneAnswer DEF quotient, remainder, low
      <4>3. WrongSign <=> low /\ (req.op = "REM" => a = Half)
        BY <1>6, <2>2, <3>7 DEF WrongSign, Size, Half, low
      <4>4. QED BY <1>6, <3>6, <4>2, <4>3
    <3>8. CASE ~(Negative(a) /\ Size(b) = 1) /\ Negative(a) /\ Lost(a, b, Width)
      <4>1. Doubled(S, Size(b), Width, q, Signed(v)) BY <3>2, <3>3, <3>8 DEF SignedDivided
      <4>2. Size(b) > 1 BY <1>1, <2>2, <3>8, SizeBounds
      <4>3. Wrap(T) # quotient /\ (remainder = v <=> Exact(a, 0, b))
        BY <1>1, <2>2, <3>4, <3>8, <4>1, <4>2, DoubledAnswer DEF quotient, remainder
      <4>4. \E k \in 1 .. Width - 1 : Exact(a, k, b) /\ a % Power2[k] # 0
        BY <1>1, <3>8, LostEnds
      <4>5. WrongSign <=> (req.op = "REM" => ~Exact(a, 0, b))
        BY <1>6, <2>2, <3>8, <4>4 DEF WrongSign, Size
      <4>6. QED BY <1>6, <3>6, <4>3, <4>5
    <3>9. CASE ~(Negative(a) /\ Size(b) = 1) /\ ~(Negative(a) /\ Lost(a, b, Width))
      <4>1. Truncating(S, Size(b), q, Signed(v)) BY <3>2, <3>3, <3>9 DEF SignedDivided
      <4>2. Negative(a) => Size(b) > 1 BY <1>1, <2>2, <3>9, SizeBounds
      <4>3. Wrap(T) = quotient /\ remainder = v
        BY <1>1, <2>2, <3>4, <4>1, <4>2, SignedAnswer DEF quotient, remainder
      <4>4. Negative(a) => ~ \E k \in 1 .. Width - 1 : Exact(a, k, b) /\ a % Power2[k] # 0
        BY <1>1, <3>9, LostEnds
      <4>5. ~WrongSign BY <3>9, <4>4 DEF WrongSign, Size
      <4>6. QED BY <1>6, <3>6, <4>3, <4>5
    <3>10. QED BY <3>7, <3>8, <3>9
  <2>3. QED BY <2>1, <2>2
<1>7. QED BY <1>2, <1>4, <1>5, <1>6 DEF Ops

\* Every answer is the right one for the operation and the operands it is
\* given to, for registers of any width, whatever was answered or flushed
\* before; the signed division is wrong for the operands of WrongSign, and for
\* no others (multi.sv, div.sv, divu.sv, alu.sv).
THEOREM AnswersCorrect == Spec => []AnswersRight
BY InvariantHolds, InvariantAnswers, PTL
=============================================================================
