-------------------------- MODULE ValueAlgebra_proofs --------------------------
(***************************************************************************)
(* The laws of the SQL values hold for every width of the integer types,   *)
(* those of the code included, and for every value that can be computed.   *)
(***************************************************************************)
EXTENDS ValueAlgebra, WellFoundedInduction, TLAPS

\* Leaves that name no prover are tried with these, in this order.
USE SMT, Zenon, SMTT(30), ZenonT(30)

-----------------------------------------------------------------------------
(* Induction over the naturals, and functions defined by it. *)

\* A set that holds every natural whose predecessors it holds is all of them.
LEMMA StrongInduction ==
  ASSUME NEW S, \A n \in Nat : (\A m \in Nat : m < n => m \in S) => n \in S
  PROVE  Nat \subseteq S
<1> SUFFICES ASSUME Nat \ S # {} PROVE FALSE
  OBVIOUS
<1>1. PICK m \in Nat \ S : \A y \in Nat \ S : ~ (<<y, m>> \in OpToRel(<, Nat))
  BY WFMin, NatLessThanWellFounded, Zenon
<1>2. ASSUME NEW y \in Nat, y < m PROVE y \in S
  BY <1>1, <1>2, Zenon DEF OpToRel
<1> QED BY <1>1, <1>2, Zenon

LEMMA SetInduction ==
  ASSUME NEW S, 0 \in S, \A n \in Nat : n \in S => n + 1 \in S
  PROVE  Nat \subseteq S
<1>1. ASSUME NEW n \in Nat, \A m \in Nat : m < n => m \in S PROVE n \in S
  <2>1. CASE n = 0
    BY <2>1
  <2>2. CASE n # 0
    <3>1. n - 1 \in Nat /\ n - 1 < n /\ (n - 1) + 1 = n
      BY <2>2
    <3> QED BY <1>1, <3>1
  <2> QED BY <2>1, <2>2
<1> QED BY <1>1, StrongInduction

\* f is defined at n from what it is at an earlier place.
Recurs(f, n, B, base, step, prev) == f[n] = IF n \in B THEN base[n] ELSE step[n][f[prev[n]]]

\* A definition that goes back to earlier places has a solution.
LEMMA Recursion ==
  ASSUME NEW X, NEW B, NEW base \in [Nat -> X], NEW step \in [Nat -> [X -> X]],
         NEW prev \in [Nat -> Nat], \A n \in Nat \ B : prev[n] < n
  PROVE  \E f \in [Nat -> X] : \A n \in Nat : Recurs(f, n, B, base, step, prev)
<1> DEFINE Solves(g, n) == g \in [0 .. n -> X] /\ \A m \in 0 .. n : Recurs(g, m, B, base, step, prev)
           S == {n \in Nat : \E g : Solves(g, n)}
           next(g, n) == IF n \in B THEN base[n] ELSE step[n][g[prev[n]]]
<1>1. ASSUME NEW n \in Nat, NEW g, n = 0 \/ Solves(g, n - 1) PROVE n \in S
  <2> DEFINE h == [m \in 0 .. n |-> IF m = n THEN next(g, n) ELSE g[m]]
  <2>1. next(g, n) \in X
    <3>1. CASE n \in B
      BY <3>1
    <3>2. CASE n \notin B
      <4>1. prev[n] \in 0 .. n - 1 /\ n # 0
        BY <3>2
      <4>2. g[prev[n]] \in X
        BY <1>1, <4>1
      <4> QED BY <3>2, <4>2
    <3> QED BY <3>1, <3>2
  <2> HIDE DEF next
  <2>2. h \in [0 .. n -> X]
    <3>1. ASSUME NEW m \in 0 .. n, m # n PROVE g[m] \in X
      <4>1. m \in 0 .. n - 1 /\ n # 0
        BY <3>1
      <4> QED BY <1>1, <4>1
    <3> QED BY <2>1, <3>1
  <2>3. ASSUME NEW m \in 0 .. n PROVE Recurs(h, m, B, base, step, prev)
    <3>1. m \notin B => prev[m] \in 0 .. n /\ prev[m] # n /\ prev[m] < m /\ h[prev[m]] = g[prev[m]]
      OBVIOUS
    <3>2. CASE m = n
      <4>1. h[m] = next(g, n)
        BY <3>2
      <4> HIDE DEF h
      <4> QED BY <3>1, <3>2, <4>1 DEF next, Recurs
    <3>3. CASE m # n
      <4>1. m \in 0 .. n - 1 /\ n # 0
        BY <3>3
      <4>2. h[m] = g[m] /\ Recurs(g, m, B, base, step, prev)
        BY <1>1, <3>3, <4>1
      <4> HIDE DEF h
      <4> QED BY <3>1, <4>2 DEF Recurs
    <3> QED BY <3>2, <3>3
  <2> HIDE DEF h
  <2> QED BY <2>2, <2>3
<1>2. \A n \in Nat : n \in S
  <2>1. 0 \in S
    BY <1>1, Zenon
  <2>2. ASSUME NEW n \in Nat, n \in S PROVE n + 1 \in S
    <3>1. PICK g : Solves(g, n)
      BY <2>2, Zenon
    <3> HIDE DEF Solves, S
    <3>2. Solves(g, (n + 1) - 1)
      BY <3>1
    <3> QED BY <1>1, <3>2
  <2> HIDE DEF S
  <2> QED BY <2>1, <2>2, SetInduction
<1>3. ASSUME NEW m \in Nat, NEW n \in Nat, NEW g, NEW h, Solves(g, m), Solves(h, n)
      PROVE  \A i \in Nat : i <= m /\ i <= n => g[i] = h[i]
  <2> DEFINE T == {i \in Nat : i <= m /\ i <= n => g[i] = h[i]}
  <2>1. ASSUME NEW i \in Nat, \A j \in Nat : j < i => j \in T PROVE i \in T
    <3> SUFFICES ASSUME i <= m, i <= n PROVE g[i] = h[i]
      OBVIOUS
    <3>1. i \in 0 .. m /\ i \in 0 .. n
      OBVIOUS
    <3>2. Recurs(g, i, B, base, step, prev) /\ Recurs(h, i, B, base, step, prev)
      BY <1>3, <3>1
    <3>3. i \notin B => g[prev[i]] = h[prev[i]]
      <4> SUFFICES ASSUME i \notin B PROVE g[prev[i]] = h[prev[i]]
        OBVIOUS
      <4>1. prev[i] \in Nat /\ prev[i] < i
        OBVIOUS
      <4> QED BY <2>1, <4>1
    <3> QED BY <3>2, <3>3 DEF Recurs
  <2>2. Nat \subseteq T
    <3> HIDE DEF T
    <3> QED BY <2>1, StrongInduction
  <2> QED BY <2>2
<1> DEFINE sol == [n \in Nat |-> CHOOSE g : Solves(g, n)]
           f == [n \in Nat |-> sol[n][n]]
<1>4. ASSUME NEW n \in Nat PROVE Solves(sol[n], n)
  BY <1>2, Zenon
<1> HIDE DEF sol
<1>5. ASSUME NEW n \in Nat PROVE f[n] \in X
  <2>1. n \in 0 .. n
    OBVIOUS
  <2> QED BY <1>4, <2>1
<1>6. ASSUME NEW n \in Nat PROVE Recurs(f, n, B, base, step, prev)
  <2>1. Recurs(sol[n], n, B, base, step, prev)
    BY <1>4
  <2>2. n \notin B => sol[n][prev[n]] = f[prev[n]]
    <3> SUFFICES ASSUME n \notin B PROVE sol[n][prev[n]] = sol[prev[n]][prev[n]]
      OBVIOUS
    <3>1. prev[n] \in Nat /\ prev[n] <= n /\ prev[n] <= prev[n]
      OBVIOUS
    <3> HIDE DEF Solves
    <3>2. Solves(sol[n], n) /\ Solves(sol[prev[n]], prev[n])
      BY <1>4, <3>1
    <3> QED BY <1>3, <3>1, <3>2
  <2>3. f[n] = sol[n][n]
    OBVIOUS
  <2> HIDE DEF f
  <2> QED BY <2>1, <2>2, <2>3 DEF Recurs
<1>7. f \in [Nat -> X]
  BY <1>5
<1> HIDE DEF f
<1> QED BY <1>6, <1>7

-----------------------------------------------------------------------------
(* Powers of two, and the limits of the integer types. *)

LEMMA Powers ==
  /\ Pow2 \in [Nat -> Nat \ {0}]
  /\ Pow2[0] = 1
  /\ \A n \in Nat : Pow2[n + 1] = 2 * Pow2[n]
<1> DEFINE X == Nat \ {0}
           base == [n \in Nat |-> 1]
           step == [n \in Nat |-> [x \in X |-> 2 * x]]
           prev == [n \in Nat |-> IF n = 0 THEN 0 ELSE n - 1]
           Rec(f) == f = [n \in Nat |-> IF n = 0 THEN 1 ELSE 2 * f[n - 1]]
           pow == CHOOSE f : Rec(f)
<1>1. PICK f \in [Nat -> X] : \A n \in Nat : Recurs(f, n, {0}, base, step, prev)
  <2>1. base \in [Nat -> X] /\ step \in [Nat -> [X -> X]] /\ prev \in [Nat -> Nat]
    OBVIOUS
  <2>2. \A n \in Nat \ {0} : prev[n] < n
    OBVIOUS
  <2> HIDE DEF X, base, step, prev
  <2> QED BY <2>1, <2>2, Recursion, Zenon
<1>2. Rec(f)
  <2>1. ASSUME NEW n \in Nat PROVE f[n] = IF n = 0 THEN 1 ELSE 2 * f[n - 1]
    <3>1. CASE n = 0
      BY <1>1, <3>1, Zenon DEF Recurs
    <3>2. CASE n # 0
      <4>1. n - 1 \in Nat /\ prev[n] = n - 1 /\ f[n - 1] \in X
        BY <3>2
      <4>2. f[n] = step[n][f[n - 1]]
        BY <1>1, <3>2, <4>1, Zenon DEF Recurs
      <4> QED BY <3>2, <4>1, <4>2
    <3> QED BY <3>1, <3>2
  <2> QED BY <2>1
<1>3. Rec(pow)
  BY <1>2, Zenon
<1>4. Pow2 = pow
  BY Zenon DEF Pow2
<1> HIDE DEF pow
<1>5. pow[0] = 1 /\ \A n \in Nat : pow[n + 1] = 2 * pow[n]
  BY <1>3
<1> DEFINE T == {n \in Nat : pow[n] \in X}
<1>6. Nat \subseteq T
  <2>1. 0 \in T /\ \A n \in Nat : n \in T => n + 1 \in T
    BY <1>5
  <2> HIDE DEF T
  <2> QED BY <2>1, SetInduction
<1>7. pow \in [Nat -> X]
  BY <1>3, <1>6
<1> QED BY <1>4, <1>5, <1>7

LEMMA PowersAdd == \A m, n \in Nat : Pow2[m + n] = Pow2[m] * Pow2[n]
<1> TAKE m \in Nat
<1> DEFINE T == {n \in Nat : Pow2[m + n] = Pow2[m] * Pow2[n]}
<1>1. 0 \in T
  BY Powers
<1>2. ASSUME NEW n \in Nat, n \in T PROVE n + 1 \in T
  <2>1. Pow2[m + (n + 1)] = 2 * Pow2[m + n]
    <3>1. m + n \in Nat /\ m + (n + 1) = (m + n) + 1
      OBVIOUS
    <3> QED BY <3>1, Powers
  <2>2. Pow2[n + 1] = 2 * Pow2[n] /\ Pow2[m] \in Nat /\ Pow2[n] \in Nat
    BY Powers
  <2>3. Pow2[m + n] = Pow2[m] * Pow2[n]
    BY <1>2
  <2>4. ASSUME NEW a \in Nat, NEW b \in Nat PROVE 2 * (a * b) = a * (2 * b)
    OBVIOUS
  <2>5. Pow2[m] * Pow2[n + 1] = 2 * (Pow2[m] * Pow2[n])
    BY <2>2, <2>4
  <2> QED BY <2>1, <2>3, <2>5
<1>3. Nat \subseteq T
  <2> HIDE DEF T
  <2> QED BY <1>1, <1>2, SetInduction
<1> QED BY <1>3

LEMMA PowersGrow == \A m, n \in Nat : m <= n => Pow2[m] <= Pow2[n]
<1> TAKE m, n \in Nat
<1> HAVE m <= n
<1>1. n - m \in Nat /\ m + (n - m) = n
  OBVIOUS
<1>2. Pow2[n] = Pow2[m] * Pow2[n - m]
  BY <1>1, PowersAdd
<1>3. Pow2[m] \in Nat /\ Pow2[n - m] \in Nat \ {0}
  BY <1>1, Powers
<1>4. \A a \in Nat, b \in Nat \ {0} : a <= a * b
  OBVIOUS
<1> QED BY <1>2, <1>3, <1>4

\* Half the numbers of an integer type.
Half(t) == Pow2[Bits[t] - 1]

LEMMA Limits ==
  ASSUME NEW t \in Integers4
  PROVE  /\ Bits[t] \in Nat /\ Half(t) \in Nat /\ Half(t) >= 2
         /\ IntMax(t) = Half(t) - 1 /\ IntNull(t) = -Half(t) /\ IntMin(t) = 1 - Half(t)
         /\ Pow2[Bits[t]] = 2 * Half(t)
<1>1. Bits[t] \in Nat /\ Bits[t] - 1 \in Nat /\ Bits[t] - 2 \in Nat
  BY BitsAssumption
<1>2. Half(t) = 2 * Pow2[Bits[t] - 2] /\ Pow2[Bits[t] - 2] \in Nat \ {0} /\ Pow2[Bits[t]] = 2 * Half(t)
  <2>1. (Bits[t] - 2) + 1 = Bits[t] - 1 /\ (Bits[t] - 1) + 1 = Bits[t]
    BY <1>1
  <2> QED BY <1>1, <2>1, Powers DEF Half
<1> QED BY <1>1, <1>2 DEF Half, IntMax, IntNull, IntMin

\* How the widths of the types compare.
LEMMA Widths ==
  /\ "TINYINT" \in Integers4 /\ "SMALLINT" \in Integers4
  /\ "INTEGER" \in Integers4 /\ "BIGINT" \in Integers4
  /\ Bits["TINYINT"] < Bits["SMALLINT"] /\ Bits["SMALLINT"] < Bits["INTEGER"]
  /\ Bits["INTEGER"] < Bits["BIGINT"]
  /\ 2 * Half("TINYINT") <= Half("SMALLINT")
  /\ 2 * (Half("SMALLINT") * Half("SMALLINT")) <= Half("INTEGER")
  /\ 2 * Half("SMALLINT") <= Half("INTEGER")
  /\ 2 * Half("INTEGER") <= Half("BIGINT")
  /\ 2 * Pow2[Bits["BIGINT"] - 2] = Half("BIGINT")
<1> DEFINE T == Bits["TINYINT"]
           S == Bits["SMALLINT"]
           I == Bits["INTEGER"]
           B == Bits["BIGINT"]
<1>1. /\ "TINYINT" \in Integers4 /\ "SMALLINT" \in Integers4
      /\ "INTEGER" \in Integers4 /\ "BIGINT" \in Integers4
  BY DEF Integers4
<1>2. /\ T \in Nat /\ S \in Nat /\ I \in Nat /\ B \in Nat
      /\ T >= 2 /\ T < S /\ S < I /\ I < B /\ S + S <= I
  BY <1>1, BitsAssumption
<1> HIDE DEF T, S, I, B
<1>3. \A n \in Nat : n > 0 => Pow2[n] = 2 * Pow2[n - 1]
  <2> TAKE n \in Nat
  <2> HAVE n > 0
  <2>1. n - 1 \in Nat /\ (n - 1) + 1 = n
    OBVIOUS
  <2> QED BY <2>1, Powers
<1>4. Pow2[T] = 2 * Pow2[T - 1] /\ Pow2[S] = 2 * Pow2[S - 1] /\ Pow2[I] = 2 * Pow2[I - 1]
  BY <1>2, <1>3
<1>5. Pow2[T] <= Pow2[S - 1] /\ Pow2[I] <= Pow2[B - 1] /\ Pow2[S] <= Pow2[I - 1]
  BY <1>2, PowersGrow
<1>6. 2 * (Pow2[S - 1] * Pow2[S - 1]) <= Pow2[I - 1]
  <2>1. S - 1 \in Nat /\ (S - 1) + (S - 1) \in Nat /\ ((S - 1) + (S - 1)) + 1 \in Nat /\ I - 1 \in Nat
        /\ ((S - 1) + (S - 1)) + 1 <= I - 1
    BY <1>2
  <2>2. Pow2[(S - 1) + (S - 1)] = Pow2[S - 1] * Pow2[S - 1]
    BY <2>1, PowersAdd, Zenon
  <2>3. Pow2[((S - 1) + (S - 1)) + 1] = 2 * Pow2[(S - 1) + (S - 1)]
    BY <2>1, Powers
  <2>4. Pow2[((S - 1) + (S - 1)) + 1] <= Pow2[I - 1]
    BY <2>1, PowersGrow
  <2> QED BY <2>2, <2>3, <2>4
<1>7. Pow2[B - 1] = 2 * Pow2[B - 2]
  <2>1. B - 1 \in Nat /\ B - 1 > 0 /\ (B - 1) - 1 = B - 2
    BY <1>2
  <2> QED BY <1>3, <2>1
<1> QED BY <1>1, <1>2, <1>4, <1>5, <1>6, <1>7 DEF Half, T, S, I, B

LEMMA Remainder ==
  ASSUME NEW a \in Int, NEW m \in Nat \ {0}
  PROVE  /\ a % m \in 0 .. m - 1
         /\ a \div m \in Int /\ a = (m * (a \div m)) + (a % m)
         /\ a \in 0 .. m - 1 => a % m = a
OBVIOUS

\* Wrap keeps the numbers of the type and brings the others into its range.
LEMMA Wraps ==
  ASSUME NEW t \in Integers4, NEW i \in Int
  PROVE  /\ Wrap(t, i) \in IntNull(t) .. IntMax(t)
         /\ i \in IntNull(t) .. IntMax(t) => Wrap(t, i) = i
         /\ \E k \in Int : Wrap(t, i) = i + (2 * Half(t)) * k
<1> DEFINE h == Half(t)
           m == 2 * h
           a == i + h
<1>1. h \in Nat /\ h >= 2 /\ IntMax(t) = h - 1 /\ IntNull(t) = -h /\ Pow2[Bits[t]] = m
  BY Limits
<1>2. Wrap(t, i) = (a % m) - h
  <2>1. i - IntNull(t) = a
    BY <1>1
  <2>2. Wrap(t, i) = (a % m) + (-h)
    BY <1>1, <2>1 DEF Wrap
  <2>3. a % m \in Int
    BY <1>1
  <2> QED BY <1>1, <2>2, <2>3
<1>3. m \in Nat \ {0} /\ a \in Int
  BY <1>1
<1> HIDE DEF h
<1>4. /\ a % m \in 0 .. m - 1
      /\ a \div m \in Int /\ a = (m * (a \div m)) + (a % m)
      /\ a \in 0 .. m - 1 => a % m = a
  <2> HIDE DEF a, m
  <2> QED BY <1>3, Remainder, Zenon
<1>5. Wrap(t, i) \in IntNull(t) .. IntMax(t)
  BY <1>1, <1>2, <1>3, <1>4
<1>6. i \in IntNull(t) .. IntMax(t) => Wrap(t, i) = i
  BY <1>1, <1>2, <1>3, <1>4
<1>7. \E k \in Int : Wrap(t, i) = i + (2 * Half(t)) * k
  <2> DEFINE q == a \div m
  <2>1. q \in Int /\ i + h = (m * q) + (a % m) /\ a % m \in Int
    BY <1>4
  <2>2. Wrap(t, i) = (a % m) - h
    BY <1>2
  <2> HIDE DEF q, a
  <2>3. m * (-q) = -(m * q)
    BY <1>3, <2>1
  <2>4. (a % m) - h = i + m * (-q)
    <3> DEFINE r == a % m
               p == m * q
    <3>1. r \in Int /\ p \in Int /\ h \in Int /\ i + h = p + r /\ m * (-q) = -p
      BY <1>1, <1>3, <2>1, <2>3
    <3> HIDE DEF r, p
    <3>2. r - h = i + (-p)
      BY <3>1
    <3> QED BY <3>1, <3>2 DEF r
  <2>5. -q \in Int
    BY <2>1
  <2> QED BY <2>2, <2>4, <2>5 DEF h
<1> QED BY <1>5, <1>6, <1>7

-----------------------------------------------------------------------------
(* The values. *)

\* The type whose width a type has.
WidthOf(t) == IF t = "BOOLEAN" THEN "TINYINT" ELSE t

IsInteger(x) == \E t \in Integers4 : \E v \in IntNull(t) .. IntMax(t) : x = Holding(t, v)
IsDecimal(x) == \E d \in Int : x = Holding("DECIMAL", d)
IsBoolean(x) == \E v \in IntNull("TINYINT") .. IntMax("TINYINT") : x = Holding("BOOLEAN", v)
IsVarchar(x) == x = VarcharNull \/ \E s \in Seq(Nat) : x = VarcharValue(s)

\* Everything that a Value object can be.
IsValue(x) == IsInteger(x) \/ IsDecimal(x) \/ IsBoolean(x) \/ IsVarchar(x)

LEMMA IntegerFacts ==
  ASSUME NEW x, IsInteger(x)
  PROVE  /\ x.type \in Integers4 /\ x.type # "DECIMAL" /\ x.type # "BOOLEAN" /\ x.type # "VARCHAR"
         /\ x.v \in Int /\ x.v \in IntNull(x.type) .. IntMax(x.type)
         /\ x = Holding(x.type, x.v) /\ ~IsError(x)
         /\ x.null <=> x.v = IntNull(x.type)
<1>0. PICK t \in Integers4 : \E v \in IntNull(t) .. IntMax(t) : x = Holding(t, v)
  BY DEF IsInteger
<1>1. PICK v \in IntNull(t) .. IntMax(t) : x = Holding(t, v)
  BY <1>0
<1>2. x.type = t /\ x.v = v /\ x.null = (v = NullOf(t)) /\ ~IsError(x)
  BY <1>1 DEF Holding, IsError
<1>3. NullOf(t) = IntNull(t) /\ t # "DECIMAL" /\ t # "BOOLEAN" /\ t # "VARCHAR"
  BY DEF NullOf, Integers4
<1>4. v \in Int
  BY Limits
<1> QED BY <1>1, <1>2, <1>3, <1>4, Zenon

LEMMA DecimalFacts ==
  ASSUME NEW x, IsDecimal(x)
  PROVE  /\ x.type = "DECIMAL" /\ x.type \notin Integers4 /\ x.v \in Int
         /\ x = Holding("DECIMAL", x.v) /\ ~IsError(x)
         /\ x.null <=> x.v = DecimalNull
<1>1. PICK d \in Int : x = Holding("DECIMAL", d)
  BY DEF IsDecimal
<1>2. NullOf("DECIMAL") = DecimalNull
  BY DEF NullOf
<1>3. x.type = "DECIMAL" /\ x.v = d /\ x.null = (d = DecimalNull) /\ ~IsError(x)
  BY <1>1, <1>2 DEF Holding, IsError
<1> QED BY <1>1, <1>3, Zenon DEF Integers4

LEMMA BooleanFacts ==
  ASSUME NEW x, IsBoolean(x)
  PROVE  /\ x.type = "BOOLEAN" /\ x.type \notin Integers4 /\ x.v \in Int
         /\ x.v \in IntNull("TINYINT") .. IntMax("TINYINT")
         /\ x = Holding("BOOLEAN", x.v) /\ ~IsError(x)
<1>1. PICK v \in IntNull("TINYINT") .. IntMax("TINYINT") : x = Holding("BOOLEAN", v)
  BY DEF IsBoolean
<1>2. v \in Int
  BY Limits, Widths
<1> QED BY <1>1, <1>2 DEF Holding, NullOf, Integers4, IsError

LEMMA VarcharFacts ==
  ASSUME NEW x, IsVarchar(x)
  PROVE  /\ x.type = "VARCHAR" /\ x.type \notin Integers4 /\ x.text \in Seq(Nat) /\ ~IsError(x)
         /\ x.null \in BOOLEAN
         /\ x = [type |-> "VARCHAR", null |-> x.null, text |-> x.text]
<1>1. PICK n \in BOOLEAN, s \in Seq(Nat) : x = [type |-> "VARCHAR", null |-> n, text |-> s]
  <2>1. <<>> \in Seq(Nat)
    OBVIOUS
  <2> QED BY <2>1, Zenon DEF IsVarchar, VarcharNull, VarcharValue
<1> QED BY <1>1 DEF Integers4, IsError

\* A constructor makes a value.
LEMMA ValueMakes ==
  ASSUME NEW t \in Integers4, NEW i \in Int
  PROVE  /\ IsInteger(Value(t, i)) /\ Value(t, i).type = t /\ Value(t, i).v = Wrap(t, i)
         /\ i \in IntNull(t) .. IntMax(t) => Value(t, i) = Holding(t, i)
<1>1. Value(t, i) = Holding(t, Wrap(t, i))
  BY DEF Value, Integers4
<1> QED BY <1>1, Wraps DEF IsInteger, Holding

\* Both operands are values, which is all that most of the laws need.
ValuesInv == IsValue(left) /\ IsValue(right)

-----------------------------------------------------------------------------
(* Rows: the columns of a tuple do not overlap. *)

StepsBack(f, k, m, b, step) == f[k] = IF k = m THEN b ELSE step[k][f[k - 1]]

\* A definition that goes back by one over a range has a solution.
LEMMA RangeRecursion ==
  ASSUME NEW X, NEW m \in Nat, NEW n \in Nat, NEW b \in X, NEW step \in [Nat -> [X -> X]]
  PROVE  \E f \in [m .. n -> X] : \A k \in m .. n : StepsBack(f, k, m, b, step)
<1> DEFINE B == 0 .. m
           base == [k \in Nat |-> b]
           prev == [k \in Nat |-> IF k = 0 THEN 0 ELSE k - 1]
<1>1. PICK g \in [Nat -> X] : \A k \in Nat : Recurs(g, k, B, base, step, prev)
  <2>1. base \in [Nat -> X] /\ prev \in [Nat -> Nat] /\ \A k \in Nat \ B : prev[k] < k
    OBVIOUS
  <2> HIDE DEF B, base, prev
  <2> QED BY <2>1, Recursion, Zenon
<1> DEFINE f == [k \in m .. n |-> g[k]]
<1>2. f \in [m .. n -> X]
  OBVIOUS
<1>3. ASSUME NEW k \in m .. n PROVE StepsBack(f, k, m, b, step)
  <2>0. k \in Nat /\ f[k] = g[k]
    OBVIOUS
  <2>1. k \in Nat /\ f[k] = g[k] /\ Recurs(g, k, B, base, step, prev)
    <3> HIDE DEF f, B, base, prev
    <3> QED BY <1>1, <2>0
  <2>2. CASE k = m
    <3>1. k \in B /\ base[k] = b
      BY <2>1, <2>2
    <3> HIDE DEF f, B, base, prev
    <3> QED BY <2>1, <2>2, <3>1 DEF Recurs, StepsBack
  <2>3. CASE k # m
    <3>1. k \notin B /\ prev[k] = k - 1 /\ f[k - 1] = g[k - 1]
      BY <2>1, <2>3
    <3> HIDE DEF f, B, base, prev
    <3> QED BY <2>1, <2>3, <3>1 DEF Recurs, StepsBack
  <2> QED BY <2>2, <2>3
<1> HIDE DEF f
<1> QED BY <1>2, <1>3

\* The values of a row and the types of its columns.
Row(values, schema) ==
  /\ schema \in Seq(TypeIds) /\ Len(schema) >= 1
  /\ \A k \in 1 .. Len(schema) : IsValue(values[k]) /\ values[k].type = schema[k]

LEMMA LengthFacts ==
  ASSUME NEW t \in TypeIds
  PROVE  FixedLength(t) \in Nat /\ FixedLength(t) >= 1 /\ (~IsInlined(t) => FixedLength(t) >= SizeOfUint32)
BY DEF FixedLength, IsInlined, TypeIds, Numeric, Integers4, SizeOfUint32

LEMMA RowFacts ==
  ASSUME NEW values, NEW schema, Row(values, schema)
  PROVE  /\ Len(schema) \in Nat /\ Len(schema) >= 1
         /\ \A k \in 1 .. Len(schema) :
              /\ schema[k] \in TypeIds /\ FixedLength(schema[k]) \in Nat /\ FixedLength(schema[k]) >= 1
              /\ ~IsInlined(schema[k]) => /\ VarlenLength(values[k]) \in Nat
                                          /\ FixedLength(schema[k]) >= SizeOfUint32
<1>1. Len(schema) \in Nat /\ Len(schema) >= 1 /\ \A k \in 1 .. Len(schema) : schema[k] \in TypeIds
  BY DEF Row
<1>2. ASSUME NEW k \in 1 .. Len(schema), ~IsInlined(schema[k]) PROVE VarlenLength(values[k]) \in Nat
  <2>1. IsValue(values[k]) /\ values[k].type = "VARCHAR"
    BY <1>2 DEF Row, IsInlined
  <2>2. IsVarchar(values[k])
    BY <2>1, IntegerFacts, DecimalFacts, BooleanFacts DEF IsValue
  <2>3. values[k].text \in Seq(Nat)
    BY <2>2, VarcharFacts
  <2>4. Len(values[k].text) + 1 \in Nat
    BY <2>3
  <2> QED BY <2>4 DEF VarlenLength
<1> QED BY <1>1, <1>2, LengthFacts

LEMMA OffsetIs ==
  ASSUME NEW values, NEW schema, Row(values, schema)
  PROVE  /\ Offset(schema, 1) = 0
         /\ \A k \in 2 .. Len(schema) :
              Offset(schema, k) = Offset(schema, k - 1) + FixedLength(schema[k - 1])
<1> DEFINE n == Len(schema)
           FL(k) == IF k \in 2 .. n THEN FixedLength(schema[k - 1]) ELSE 0
           step == [k \in Nat |-> [x \in Nat |-> x + FL(k)]]
           Rec(f) == f = [k \in 1 .. n |-> IF k = 1 THEN 0 ELSE f[k - 1] + FixedLength(schema[k - 1])]
           off == CHOOSE f : Rec(f)
<1>1. n \in Nat /\ n >= 1 /\ \A k \in 2 .. n : FixedLength(schema[k - 1]) \in Nat
  <2>1. n \in Nat /\ n >= 1
    BY RowFacts
  <2>2. ASSUME NEW k \in 2 .. n PROVE FixedLength(schema[k - 1]) \in Nat
    <3>1. k - 1 \in 1 .. n
      BY <2>1
    <3> QED BY <3>1, RowFacts
  <2> QED BY <2>1, <2>2
<1> HIDE DEF n
<1>2. step \in [Nat -> [Nat -> Nat]]
  BY <1>1
<1>3. PICK f \in [1 .. n -> Nat] : \A k \in 1 .. n : f[k] = IF k = 1 THEN 0 ELSE step[k][f[k - 1]]
  <2> DEFINE X == Nat
             m == 1
             b == 0
  <2>1. m \in Nat /\ n \in Nat /\ b \in X /\ step \in [Nat -> [X -> X]]
    BY <1>1, <1>2
  <2> HIDE DEF step, X, m, b
  <2>2. \E f \in [m .. n -> X] : \A k \in m .. n : StepsBack(f, k, m, b, step)
    BY <2>1, RangeRecursion, Zenon
  <2> QED BY <2>2, Zenon DEF X, m, b, StepsBack
<1>4. ASSUME NEW k \in 1 .. n PROVE f[k] = IF k = 1 THEN 0 ELSE f[k - 1] + FixedLength(schema[k - 1])
  <2>1. CASE k = 1
    BY <1>3, <2>1, Zenon
  <2>2. CASE k # 1
    <3>1. k \in 2 .. n /\ k - 1 \in 1 .. n /\ k \in Nat
      BY <1>1, <2>2
    <3>2. f[k - 1] \in Nat /\ FL(k) = FixedLength(schema[k - 1])
      BY <1>3, <3>1
    <3> HIDE DEF FL
    <3>3. step[k][f[k - 1]] = f[k - 1] + FL(k)
      BY <3>1, <3>2
    <3> HIDE DEF step
    <3> QED BY <1>3, <2>2, <3>2, <3>3
  <2> QED BY <2>1, <2>2
<1>5. Rec(f)
  <2>1. f = [k \in 1 .. n |-> f[k]]
    BY <1>3
  <2>2. [k \in 1 .. n |-> f[k]]
         = [k \in 1 .. n |-> IF k = 1 THEN 0 ELSE f[k - 1] + FixedLength(schema[k - 1])]
    BY <1>4, Zenon
  <2> QED BY <2>1, <2>2, Zenon
<1>6. Rec(off)
  BY <1>5, Zenon
<1>7. \A k : Offset(schema, k) = off[k]
  BY Zenon DEF Offset, n
<1> HIDE DEF off
<1>8. \A k \in 1 .. n : off[k] = IF k = 1 THEN 0 ELSE off[k - 1] + FixedLength(schema[k - 1])
  BY <1>6, Zenon
<1>9. 1 \in 1 .. n /\ \A k \in 2 .. n : k \in 1 .. n /\ k # 1
  BY <1>1
<1>10. off[1] = 0 /\ \A k \in 2 .. n : off[k] = off[k - 1] + FixedLength(schema[k - 1])
  BY <1>8, <1>9, Zenon
<1> QED BY <1>7, <1>10, Zenon DEF n

\* What column k adds to the payloads.
Payload(values, schema, k) ==
  IF IsInlined(schema[k]) THEN 0 ELSE SizeOfUint32 + VarlenLength(values[k])

LEMMA PayloadIs ==
  ASSUME NEW values, NEW schema, Row(values, schema), SchemaLength(schema) \in Nat
  PROVE  /\ PayloadAt(values, schema, 1) = SchemaLength(schema)
         /\ \A k \in 1 .. Len(schema) :
              PayloadAt(values, schema, k + 1) = PayloadAt(values, schema, k) + Payload(values, schema, k)
<1> DEFINE n == Len(schema)
           L == SchemaLength(schema)
           ext(k) == IF k \in 2 .. n + 1 THEN Payload(values, schema, k - 1) ELSE 0
           step == [k \in Nat |-> [x \in Nat |-> x + ext(k)]]
           Rec(f) == f = [k \in 1 .. n + 1 |->
                            IF k = 1 THEN L
                            ELSE f[k - 1] + (IF IsInlined(schema[k - 1]) THEN 0
                                             ELSE SizeOfUint32 + VarlenLength(values[k - 1]))]
           pay == CHOOSE f : Rec(f)
<1>1. n \in Nat /\ n >= 1 /\ \A k \in 2 .. n + 1 : Payload(values, schema, k - 1) \in Nat
  <2>1. n \in Nat /\ n >= 1
    BY RowFacts
  <2>2. ASSUME NEW k \in 2 .. n + 1 PROVE Payload(values, schema, k - 1) \in Nat
    <3>1. k - 1 \in 1 .. n
      BY <2>1
    <3>2. ~IsInlined(schema[k - 1]) => VarlenLength(values[k - 1]) \in Nat
      BY <3>1, RowFacts
    <3> QED BY <3>2 DEF Payload, SizeOfUint32
  <2> QED BY <2>1, <2>2
<1> HIDE DEF n
<1>2. step \in [Nat -> [Nat -> Nat]]
  BY <1>1
<1>3. PICK f \in [1 .. n + 1 -> Nat] : \A k \in 1 .. n + 1 : f[k] = IF k = 1 THEN L ELSE step[k][f[k - 1]]
  <2> DEFINE X == Nat
             m == 1
             n1 == n + 1
  <2>1. m \in Nat /\ n1 \in Nat /\ L \in X /\ step \in [Nat -> [X -> X]]
    BY <1>1, <1>2
  <2> HIDE DEF step, X, m, n1, L
  <2>2. \E f \in [m .. n1 -> X] : \A k \in m .. n1 : StepsBack(f, k, m, L, step)
    BY <2>1, RangeRecursion, Zenon
  <2> QED BY <2>2, Zenon DEF X, m, n1, StepsBack
<1> HIDE DEF L
<1>4. ASSUME NEW k \in 1 .. n + 1 PROVE f[k] = IF k = 1 THEN L ELSE f[k - 1] + Payload(values, schema, k - 1)
  <2>1. CASE k = 1
    BY <1>3, <2>1, Zenon
  <2>2. CASE k # 1
    <3>1. k \in 2 .. n + 1 /\ k - 1 \in 1 .. n + 1 /\ k \in Nat
      BY <1>1, <2>2
    <3>2. f[k - 1] \in Nat /\ ext(k) = Payload(values, schema, k - 1)
      BY <1>3, <3>1
    <3> HIDE DEF ext
    <3>3. step[k][f[k - 1]] = f[k - 1] + ext(k)
      BY <3>1, <3>2
    <3> HIDE DEF step
    <3> QED BY <1>3, <2>2, <3>2, <3>3
  <2> QED BY <2>1, <2>2
<1>5. Rec(f)
  <2>1. f = [k \in 1 .. n + 1 |-> f[k]]
    BY <1>3
  <2>2. [k \in 1 .. n + 1 |-> f[k]]
         = [k \in 1 .. n + 1 |-> IF k = 1 THEN L ELSE f[k - 1] + Payload(values, schema, k - 1)]
    BY <1>4, Zenon
  <2> QED BY <2>1, <2>2, Zenon DEF Payload
<1>6. Rec(pay)
  BY <1>5, Zenon
<1>7. \A k : PayloadAt(values, schema, k) = pay[k]
  BY Zenon DEF PayloadAt, n, L
<1> HIDE DEF pay
<1>8. \A k \in 1 .. n + 1 : pay[k] = IF k = 1 THEN L ELSE pay[k - 1] + Payload(values, schema, k - 1)
  BY <1>6, Zenon DEF Payload
<1>9. 1 \in 1 .. n + 1 /\ \A k \in 1 .. n : k + 1 \in 1 .. n + 1 /\ k + 1 # 1 /\ (k + 1) - 1 = k
  BY <1>1
<1>10. pay[1] = L
  BY <1>8, <1>9, Zenon
<1>11. ASSUME NEW k \in 1 .. n PROVE pay[k + 1] = pay[k] + Payload(values, schema, k)
  <2>1. k + 1 \in 1 .. n + 1 /\ k + 1 # 1 /\ (k + 1) - 1 = k
    BY <1>9
  <2>2. pay[k + 1] = pay[(k + 1) - 1] + Payload(values, schema, (k + 1) - 1)
    BY <1>8, <2>1, Zenon
  <2> QED BY <2>1, <2>2
<1> QED BY <1>7, <1>10, <1>11, Zenon DEF n, L

\* Extents that are laid out one after the other do not overlap.
LEMMA Growing ==
  ASSUME NEW n \in Nat, NEW a, NEW w, a[1] \in Nat,
         \A k \in 1 .. n : w[k] \in Nat /\ a[k + 1] = a[k] + w[k]
  PROVE  \A k \in 1 .. n + 1 : a[k] \in Nat /\ a[1] <= a[k] /\ \A j \in 1 .. n : j < k => a[j] + w[j] <= a[k]
<1>0. \A k \in 1 .. n + 1 : a[k] \in Nat
  <2> DEFINE T == {k \in Nat : k \in 1 .. n + 1 => a[k] \in Nat}
  <2>1. 0 \in T
    OBVIOUS
  <2>2. ASSUME NEW k \in Nat, k \in T PROVE k + 1 \in T
    <3>1. CASE k = 0
      BY <3>1
    <3>2. CASE k # 0 /\ k + 1 \in 1 .. n + 1
      <4>1. k \in 1 .. n /\ k \in 1 .. n + 1
        BY <3>2
      <4> QED BY <4>1, <2>2
    <3> QED BY <3>1, <3>2
  <2>3. Nat \subseteq T
    <3> HIDE DEF T
    <3> QED BY <2>1, <2>2, SetInduction
  <2> QED BY <2>3
<1> DEFINE Ok(k) == a[k] \in Nat /\ a[1] <= a[k] /\ \A j \in 1 .. n : j < k => a[j] + w[j] <= a[k]
           S == {k \in Nat : k \in 1 .. n + 1 => Ok(k)}
<1>1. 0 \in S
  OBVIOUS
<1>2. ASSUME NEW k \in Nat, k \in S PROVE k + 1 \in S
  <2> SUFFICES ASSUME k + 1 \in 1 .. n + 1 PROVE Ok(k + 1)
    OBVIOUS
  <2>1. CASE k = 0
    <3>1. \A j \in 1 .. n : ~ j < k + 1
      BY <2>1
    <3>2. k + 1 = 1
      BY <2>1
    <3> QED BY <3>1, <3>2
  <2>2. CASE k # 0
    <3>1. k \in 1 .. n /\ k \in 1 .. n + 1
      BY <2>2
    <3>2. Ok(k) /\ w[k] \in Nat /\ a[k + 1] = a[k] + w[k]
      BY <1>2, <3>1
    <3>3. a[k + 1] \in Nat /\ a[1] <= a[k + 1]
      BY <3>2
    <3>4. ASSUME NEW j \in 1 .. n, j < k + 1 PROVE a[j] + w[j] <= a[k + 1]
      <4>1. CASE j = k
        BY <4>1, <3>2
      <4>2. CASE j # k
        <5>1. j < k /\ w[j] \in Nat
          BY <3>4, <4>2
        <5>2. PICK x : x = a[j] + w[j]
          OBVIOUS
        <5>3. x <= a[k] /\ a[k] <= a[k + 1]
          BY <5>1, <5>2, <3>2
        <5>4. j \in 1 .. n + 1 /\ j \in Nat
          OBVIOUS
        <5>5. x \in Int
          BY <5>2, <5>1, <5>4, <1>0
        <5> QED BY <5>2, <5>3, <5>5, <3>2, <3>3
      <4> QED BY <4>1, <4>2
    <3> QED BY <3>3, <3>4
  <2> QED BY <2>1, <2>2
<1> HIDE DEF Ok
<1>3. Nat \subseteq S
  <2> HIDE DEF S
  <2> QED BY <1>1, <1>2, SetInduction
<1>4. ASSUME NEW k \in 1 .. n + 1 PROVE Ok(k)
  BY <1>3
<1> QED BY <1>4 DEF Ok

LEMMA OffsetsGrow ==
  ASSUME NEW values, NEW schema, Row(values, schema)
  PROVE  /\ SchemaLength(schema) \in Nat
         /\ \A k \in 1 .. Len(schema) :
              /\ Offset(schema, k) \in Nat
              /\ Offset(schema, k) + FixedLength(schema[k]) <= SchemaLength(schema)
              /\ \A j \in 1 .. Len(schema) : j < k => Offset(schema, j) + FixedLength(schema[j]) <= Offset(schema, k)
<1> DEFINE n == Len(schema)
           L == SchemaLength(schema)
           a == [k \in 1 .. n + 1 |-> IF k = n + 1 THEN L ELSE Offset(schema, k)]
           w == [k \in 1 .. n |-> FixedLength(schema[k])]
<1>1. n \in Nat /\ n >= 1
  BY RowFacts
<1>2. L = Offset(schema, n) + FixedLength(schema[n])
  BY DEF SchemaLength
<1>3. \A k \in 1 .. n : w[k] \in Nat /\ w[k] = FixedLength(schema[k])
  BY RowFacts
<1>4. Offset(schema, 1) = 0 /\ \A k \in 2 .. n : Offset(schema, k) = Offset(schema, k - 1) + FixedLength(schema[k - 1])
  BY OffsetIs
<1> HIDE DEF n, L, w
<1>5. \A k \in 1 .. n : a[k] = Offset(schema, k) /\ k \in 1 .. n + 1
  BY <1>1
<1>6. a[n + 1] = L
  BY <1>1
<1> HIDE DEF a
<1>7. a[1] \in Nat
  <2>1. 1 \in 1 .. n
    BY <1>1
  <2> QED BY <2>1, <1>4, <1>5
<1>8. ASSUME NEW k \in 1 .. n PROVE a[k + 1] = a[k] + w[k]
  <2>1. CASE k = n
    BY <2>1, <1>2, <1>3, <1>5, <1>6
  <2>2. CASE k # n
    <3>1. k + 1 \in 1 .. n /\ k + 1 \in 2 .. n /\ (k + 1) - 1 = k
      BY <1>1, <2>2
    <3>2. Offset(schema, k + 1) = Offset(schema, (k + 1) - 1) + FixedLength(schema[(k + 1) - 1])
      BY <1>4, <3>1, Zenon
    <3>3. Offset(schema, k + 1) = Offset(schema, k) + FixedLength(schema[k])
      BY <3>1, <3>2
    <3>4. a[k + 1] = Offset(schema, k + 1) /\ a[k] = Offset(schema, k) /\ w[k] = FixedLength(schema[k])
      BY <3>1, <1>3, <1>5, Zenon
    <3> QED BY <3>3, <3>4, Zenon
  <2> QED BY <2>1, <2>2
<1>9. \A k \in 1 .. n + 1 : a[k] \in Nat /\ a[1] <= a[k] /\ \A j \in 1 .. n : j < k => a[j] + w[j] <= a[k]
  BY <1>1, <1>3, <1>7, <1>8, Growing, Zenon
<1>10. L \in Nat
  <2>1. n + 1 \in 1 .. n + 1
    BY <1>1
  <2> QED BY <2>1, <1>6, <1>9
<1>11. ASSUME NEW k \in 1 .. n
       PROVE  /\ Offset(schema, k) \in Nat
              /\ Offset(schema, k) + FixedLength(schema[k]) <= L
              /\ \A j \in 1 .. n : j < k => Offset(schema, j) + FixedLength(schema[j]) <= Offset(schema, k)
  <2>1. n + 1 \in 1 .. n + 1 /\ k < n + 1 /\ k \in 1 .. n + 1
    BY <1>1
  <2>2. a[k] \in Nat /\ a[k] + w[k] <= a[n + 1] /\ \A j \in 1 .. n : j < k => a[j] + w[j] <= a[k]
    BY <2>1, <1>9
  <2> QED BY <2>2, <1>3, <1>5, <1>6
<1> QED BY <1>10, <1>11 DEF n, L

LEMMA PayloadsGrow ==
  ASSUME NEW values, NEW schema, Row(values, schema)
  PROVE  \A k \in 1 .. Len(schema) + 1 :
           /\ PayloadAt(values, schema, k) \in Nat
           /\ SchemaLength(schema) <= PayloadAt(values, schema, k)
           /\ \A j \in 1 .. Len(schema) :
                j < k => PayloadAt(values, schema, j) + Payload(values, schema, j) <= PayloadAt(values, schema, k)
<1> DEFINE n == Len(schema)
           a == [k \in 1 .. n + 1 |-> PayloadAt(values, schema, k)]
           w == [k \in 1 .. n |-> Payload(values, schema, k)]
<1>1. n \in Nat /\ n >= 1
  BY RowFacts
<1>2. SchemaLength(schema) \in Nat
  BY OffsetsGrow
<1>3. PayloadAt(values, schema, 1) = SchemaLength(schema)
  BY <1>2, PayloadIs
<1>4. \A k \in 1 .. n : PayloadAt(values, schema, k + 1) = PayloadAt(values, schema, k) + Payload(values, schema, k)
  BY <1>2, PayloadIs
<1>5. ASSUME NEW k \in 1 .. n PROVE Payload(values, schema, k) \in Nat
  <2>1. ~IsInlined(schema[k]) => VarlenLength(values[k]) \in Nat
    BY RowFacts
  <2> QED BY <2>1 DEF Payload, SizeOfUint32
<1> HIDE DEF n
<1>6. 1 \in 1 .. n + 1 /\ \A k \in 1 .. n : k \in 1 .. n + 1 /\ k + 1 \in 1 .. n + 1
  BY <1>1
<1>7. \A k \in 1 .. n + 1 : a[k] = PayloadAt(values, schema, k)
  BY Zenon
<1>8. \A k \in 1 .. n : w[k] = Payload(values, schema, k)
  BY Zenon
<1> HIDE DEF a, w
<1>9. a[1] \in Nat /\ a[1] = SchemaLength(schema)
  BY <1>2, <1>3, <1>6, <1>7
<1>10. \A k \in 1 .. n : w[k] \in Nat /\ a[k + 1] = a[k] + w[k]
  BY <1>4, <1>5, <1>6, <1>7, <1>8
<1>11. \A k \in 1 .. n + 1 : a[k] \in Nat /\ a[1] <= a[k] /\ \A j \in 1 .. n : j < k => a[j] + w[j] <= a[k]
  BY <1>1, <1>9, <1>10, Growing, Zenon
<1> QED BY <1>6, <1>7, <1>8, <1>9, <1>11 DEF n

-----------------------------------------------------------------------------
(* The bytes of a row. *)

\* The size cells from at are the bytes of what, in order.
Carries(d, at, what, size) == \A o \in at .. (at + size - 1) : o \in DOMAIN d /\ d[o] = <<what, o - at>>

Room(d, at, size) == at .. (at + size - 1) \subseteq DOMAIN d

LEMMA WriteHolds ==
  ASSUME NEW d, NEW at, NEW what, NEW size, Room(d, at, size)
  PROVE  /\ DOMAIN WriteCells(d, at, what, size) = DOMAIN d
         /\ Carries(WriteCells(d, at, what, size), at, what, size)
BY DEF WriteCells, Carries, Room

LEMMA WriteKeeps ==
  ASSUME NEW d, NEW at \in Int, NEW what, NEW size \in Int, NEW at2 \in Int, NEW what2, NEW size2 \in Int,
         Carries(d, at, what, size), at + size <= at2 \/ at2 + size2 <= at
  PROVE  Carries(WriteCells(d, at2, what2, size2), at, what, size)
<1> DEFINE e == WriteCells(d, at2, what2, size2)
<1>1. ASSUME NEW o \in at .. (at + size - 1) PROVE o \in DOMAIN e /\ e[o] = <<what, o - at>>
  <2>1. o \in DOMAIN d /\ d[o] = <<what, o - at>>
    BY DEF Carries
  <2>2. o \notin at2 .. (at2 + size2 - 1)
    OBVIOUS
  <2> QED BY <2>1, <2>2, Zenon DEF WriteCells
<1> HIDE DEF e
<1> QED BY <1>1 DEF Carries, e

LEMMA WriteType ==
  ASSUME NEW D \in SUBSET Int, NEW W, NEW d \in [D -> W \X Int], NEW at \in Int, NEW what \in W, NEW size
  PROVE  WriteCells(d, at, what, size) \in [D -> W \X Int]
BY DEF WriteCells

\* Column k of the row is in the cells: its value, or where its payload is and
\* the payload.
Intact(d, values, schema, k) ==
  IF IsInlined(schema[k]) THEN Carries(d, Offset(schema, k), values[k], FixedLength(schema[k]))
  ELSE /\ Carries(d, Offset(schema, k), PayloadAt(values, schema, k), SizeOfUint32)
       /\ Carries(d, PayloadAt(values, schema, k), values[k], SizeOfUint32 + VarlenLength(values[k]))

TupleSize(values, schema) == PayloadAt(values, schema, Len(schema) + 1)

\* What the layout says of one column of a row.
LEMMA ColumnFacts ==
  ASSUME NEW values, NEW schema, Row(values, schema), NEW k \in 1 .. Len(schema)
  PROVE  /\ Offset(schema, k) \in Nat /\ PayloadAt(values, schema, k) \in Nat
         /\ SchemaLength(schema) \in Nat /\ TupleSize(values, schema) \in Nat
         /\ FixedLength(schema[k]) \in Nat /\ FixedLength(schema[k]) >= 1
         /\ Offset(schema, k) + FixedLength(schema[k]) <= SchemaLength(schema)
         /\ SchemaLength(schema) <= PayloadAt(values, schema, k)
         /\ SchemaLength(schema) <= TupleSize(values, schema)
         /\ ~IsInlined(schema[k]) =>
              /\ VarlenLength(values[k]) \in Nat /\ FixedLength(schema[k]) >= SizeOfUint32
              /\ PayloadAt(values, schema, k) + (SizeOfUint32 + VarlenLength(values[k])) <= TupleSize(values, schema)
<1>1. Len(schema) \in Nat /\ k \in 1 .. Len(schema) + 1 /\ Len(schema) + 1 \in 1 .. Len(schema) + 1 /\ k < Len(schema) + 1
  <2>1. Len(schema) \in Nat
    BY RowFacts
  <2> QED BY <2>1
<1>2. Offset(schema, k) \in Nat /\ Offset(schema, k) + FixedLength(schema[k]) <= SchemaLength(schema)
  BY OffsetsGrow
<1>3. SchemaLength(schema) \in Nat
  BY OffsetsGrow
<1>4. PayloadAt(values, schema, k) \in Nat /\ SchemaLength(schema) <= PayloadAt(values, schema, k)
  BY <1>1, PayloadsGrow
<1>5. /\ TupleSize(values, schema) \in Nat
      /\ SchemaLength(schema) <= TupleSize(values, schema)
      /\ PayloadAt(values, schema, k) + Payload(values, schema, k) <= TupleSize(values, schema)
  BY <1>1, PayloadsGrow DEF TupleSize
<1>6. /\ FixedLength(schema[k]) \in Nat /\ FixedLength(schema[k]) >= 1
      /\ ~IsInlined(schema[k]) => VarlenLength(values[k]) \in Nat /\ FixedLength(schema[k]) >= SizeOfUint32
  BY RowFacts
<1>7. ~IsInlined(schema[k]) => Payload(values, schema, k) = SizeOfUint32 + VarlenLength(values[k])
  BY DEF Payload
<1> QED BY <1>2, <1>3, <1>4, <1>5, <1>6, <1>7

\* Writing a column puts it into the cells and disturbs none before it.
LEMMA SerializeKeeps ==
  ASSUME NEW values, NEW schema, Row(values, schema), NEW k \in 1 .. Len(schema), NEW d,
         DOMAIN d = 0 .. (TupleSize(values, schema) - 1)
  PROVE  /\ DOMAIN SerializeColumn(d, values, schema, k) = DOMAIN d
         /\ Intact(SerializeColumn(d, values, schema, k), values, schema, k)
         /\ \A j \in 1 .. Len(schema) :
              j < k /\ Intact(d, values, schema, j) => Intact(SerializeColumn(d, values, schema, k), values, schema, j)
<1> DEFINE e == SerializeColumn(d, values, schema, k)
           off == Offset(schema, k)
           pay == PayloadAt(values, schema, k)
           size == TupleSize(values, schema)
           L == SchemaLength(schema)
           fl == FixedLength(schema[k])
           vl == VarlenLength(values[k])
           d1 == WriteCells(d, off, pay, SizeOfUint32)
<1>1. /\ off \in Nat /\ pay \in Nat /\ L \in Nat /\ size \in Nat /\ fl \in Nat /\ fl >= 1
      /\ off + fl <= L /\ L <= pay /\ L <= size
      /\ ~IsInlined(schema[k]) => vl \in Nat /\ fl >= 4 /\ pay + (4 + vl) <= size
  BY ColumnFacts DEF SizeOfUint32
<1>2. IsInlined(schema[k]) => e = WriteCells(d, off, values[k], fl)
  BY Zenon DEF SerializeColumn
<1>3. ~IsInlined(schema[k]) => e = WriteCells(d1, pay, values[k], SizeOfUint32 + vl)
  BY Zenon DEF SerializeColumn
<1>4. DOMAIN d = 0 .. (size - 1)
  OBVIOUS
<1> HIDE DEF e, off, pay, size, L, fl, vl, d1
<1>5. ASSUME NEW j \in 1 .. Len(schema), j < k, Intact(d, values, schema, j) PROVE Intact(e, values, schema, j)
  <2> DEFINE offj == Offset(schema, j)
             payj == PayloadAt(values, schema, j)
             flj == FixedLength(schema[j])
             vlj == VarlenLength(values[j])
  <2>1. /\ offj \in Nat /\ payj \in Nat /\ flj \in Nat /\ offj + flj <= L /\ L <= payj
        /\ ~IsInlined(schema[j]) => vlj \in Nat /\ flj >= 4
    BY ColumnFacts DEF SizeOfUint32, L
  <2>2. offj + flj <= off
    BY <1>5, OffsetsGrow DEF off
  <2>3. ~IsInlined(schema[j]) => payj + (4 + vlj) <= pay
    <3>1. k \in 1 .. Len(schema) + 1
      <4>1. Len(schema) \in Nat
        BY RowFacts
      <4> QED BY <4>1
    <3>2. payj + Payload(values, schema, j) <= pay
      BY <3>1, <1>5, PayloadsGrow DEF pay
    <3> QED BY <3>2 DEF Payload, SizeOfUint32
  <2> HIDE DEF offj, payj, flj, vlj
  <2>4. ASSUME NEW at \in Int, NEW what, NEW s \in Int, Carries(d, at, what, s),
               at + s <= off \/ (L <= at /\ at + s <= pay), s >= 0
        PROVE  Carries(e, at, what, s)
    <3>1. CASE IsInlined(schema[k])
      <4>1. at + s <= off \/ off + fl <= at
        BY <2>4, <1>1
      <4>2. Carries(WriteCells(d, off, values[k], fl), at, what, s)
        BY <4>1, <2>4, <1>1, WriteKeeps
      <4> QED BY <4>2, <3>1, <1>2
    <3>2. CASE ~IsInlined(schema[k])
      <4>1. at + s <= off \/ off + SizeOfUint32 <= at
        BY <2>4, <1>1, <3>2 DEF SizeOfUint32
      <4>2. SizeOfUint32 \in Int /\ SizeOfUint32 + vl \in Int /\ off \in Int /\ pay \in Int
        BY <1>1, <3>2 DEF SizeOfUint32
      <4>3. Carries(d1, at, what, s)
        BY <4>1, <4>2, <2>4, WriteKeeps DEF d1
      <4>4. at + s <= pay
        BY <2>4, <1>1
      <4>5. Carries(WriteCells(d1, pay, values[k], SizeOfUint32 + vl), at, what, s)
        BY <4>2, <4>3, <4>4, WriteKeeps
      <4> QED BY <4>5, <3>2, <1>3
    <3> QED BY <3>1, <3>2
  <2>5. CASE IsInlined(schema[j])
    <3>1. Carries(d, offj, values[j], flj)
      BY <1>5, <2>5 DEF Intact, offj, flj
    <3>2. Carries(e, offj, values[j], flj)
      BY <3>1, <2>1, <2>2, <2>4
    <3> QED BY <3>2, <2>5 DEF Intact, offj, flj
  <2>6. CASE ~IsInlined(schema[j])
    <3>1. Carries(d, offj, payj, SizeOfUint32) /\ Carries(d, payj, values[j], SizeOfUint32 + vlj)
      BY <1>5, <2>6 DEF Intact, offj, payj, vlj
    <3>2. SizeOfUint32 \in Int /\ SizeOfUint32 >= 0 /\ offj + SizeOfUint32 <= off /\ offj \in Int
      BY <2>1, <2>2, <2>6, <1>1 DEF SizeOfUint32
    <3>3. /\ SizeOfUint32 + vlj \in Int /\ SizeOfUint32 + vlj >= 0 /\ payj \in Int
          /\ L <= payj /\ payj + (SizeOfUint32 + vlj) <= pay
      BY <2>1, <2>3, <2>6 DEF SizeOfUint32
    <3>4. Carries(e, offj, payj, SizeOfUint32)
      BY <3>1, <3>2, <2>4
    <3>5. Carries(e, payj, values[j], SizeOfUint32 + vlj)
      BY <3>1, <3>3, <2>4
    <3> QED BY <3>4, <3>5, <2>6 DEF Intact, offj, payj, vlj
  <2> QED BY <2>5, <2>6
<1>6. DOMAIN e = DOMAIN d /\ Intact(e, values, schema, k)
  <2>1. CASE IsInlined(schema[k])
    <3>1. Room(d, off, fl)
      BY <1>1, <1>4 DEF Room
    <3>2. DOMAIN e = DOMAIN d /\ Carries(e, off, values[k], fl)
      BY <3>1, <2>1, <1>2, WriteHolds
    <3> QED BY <3>2, <2>1 DEF Intact, off, fl
  <2>2. CASE ~IsInlined(schema[k])
    <3>1. Room(d, off, SizeOfUint32) /\ Room(d, pay, SizeOfUint32 + vl)
      <4>1. Room(d, off, 4)
        <5>1. off + 4 <= size
          BY <1>1, <2>2
        <5> QED BY <5>1, <1>1, <1>4 DEF Room
      <4>2. PICK s \in Nat : s = SizeOfUint32 + vl
        BY <1>1, <2>2 DEF SizeOfUint32
      <4>3. pay + s <= size
        BY <4>2, <1>1, <2>2 DEF SizeOfUint32
      <4>4. Room(d, pay, s)
        BY <4>3, <1>1, <1>4 DEF Room
      <4> QED BY <4>1, <4>2, <4>4 DEF SizeOfUint32
    <3>2. /\ DOMAIN d1 = DOMAIN d /\ Carries(d1, off, pay, SizeOfUint32)
          /\ Room(d1, pay, SizeOfUint32 + vl)
      <4>1. DOMAIN d1 = DOMAIN d /\ Carries(d1, off, pay, SizeOfUint32)
        BY <3>1, WriteHolds DEF d1
      <4> QED BY <3>1, <4>1 DEF Room
    <3>3. DOMAIN e = DOMAIN d /\ Carries(e, pay, values[k], SizeOfUint32 + vl)
      BY <3>1, <3>2, <2>2, <1>3, WriteHolds
    <3>4. off + SizeOfUint32 <= pay /\ SizeOfUint32 \in Int /\ SizeOfUint32 + vl \in Int /\ off \in Int /\ pay \in Int
      BY <1>1, <2>2 DEF SizeOfUint32
    <3>5. Carries(WriteCells(d1, pay, values[k], SizeOfUint32 + vl), off, pay, SizeOfUint32)
      BY <3>2, <3>4, WriteKeeps
    <3> QED BY <3>3, <3>5, <2>2, <1>3 DEF Intact, off, pay, vl
  <2> QED BY <2>1, <2>2
<1> QED BY <1>5, <1>6 DEF e

LEMMA SerializeType ==
  ASSUME NEW values, NEW schema, Row(values, schema), NEW k \in 1 .. Len(schema),
         NEW D \in SUBSET Int, NEW W, Nat \subseteq W, values[k] \in W, NEW d \in [D -> W \X Int]
  PROVE  SerializeColumn(d, values, schema, k) \in [D -> W \X Int]
<1> DEFINE off == Offset(schema, k)
           pay == PayloadAt(values, schema, k)
           fl == FixedLength(schema[k])
           s == SizeOfUint32 + VarlenLength(values[k])
           d1 == WriteCells(d, off, pay, SizeOfUint32)
<1>1. off \in Int /\ pay \in Int /\ pay \in W
  BY ColumnFacts
<1>2. \/ SerializeColumn(d, values, schema, k) = WriteCells(d, off, values[k], fl)
      \/ SerializeColumn(d, values, schema, k) = WriteCells(d1, pay, values[k], s)
  BY Zenon DEF SerializeColumn
<1> HIDE DEF off, pay, fl, s
<1>3. d1 \in [D -> W \X Int]
  BY <1>1, WriteType
<1> HIDE DEF d1
<1>4. WriteCells(d1, pay, values[k], s) \in [D -> W \X Int]
  BY <1>1, <1>3, WriteType, Zenon
<1>5. WriteCells(d, off, values[k], fl) \in [D -> W \X Int]
  BY <1>1, WriteType, Zenon
<1> QED BY <1>2, <1>4, <1>5

\* Every column of a row is in the cells of its tuple.
LEMMA TupleIntact ==
  ASSUME NEW values, NEW schema, Row(values, schema)
  PROVE  \A k \in 1 .. Len(schema) : Intact(Tuple(values, schema), values, schema, k)
<1> DEFINE n == Len(schema)
           D == 0 .. (TupleSize(values, schema) - 1)
           W == Nat \union {values[k] : k \in 1 .. n}
           X == [D -> W \X Int]
           zeros == [o \in D |-> <<0, 0>>]
           step == [k \in Nat |-> [d \in X |-> IF k \in 1 .. n THEN SerializeColumn(d, values, schema, k) ELSE d]]
           Rec(f) == f = [k \in 0 .. n |-> IF k = 0 THEN zeros ELSE SerializeColumn(f[k - 1], values, schema, k)]
           data == CHOOSE f : Rec(f)
<1>1. n \in Nat /\ n >= 1
  BY RowFacts
<1>2. TupleSize(values, schema) \in Nat
  <2>1. 1 \in 1 .. Len(schema)
    BY <1>1
  <2> QED BY <2>1, ColumnFacts
<1> HIDE DEF n
<1>3. D \in SUBSET Int /\ Nat \subseteq W /\ \A k \in 1 .. n : values[k] \in W
  BY <1>2
<1>4. zeros \in X
  <2>1. <<0, 0>> \in W \X Int
    OBVIOUS
  <2> HIDE DEF W, D
  <2> QED BY <2>1
<1> HIDE DEF D, W, zeros
<1>5. ASSUME NEW k \in 1 .. n, NEW d \in X PROVE SerializeColumn(d, values, schema, k) \in X
  BY <1>3, SerializeType, Zenon DEF n
<1> HIDE DEF X
<1>6. step \in [Nat -> [X -> X]]
  BY <1>5
<1>7. PICK f \in [0 .. n -> X] : \A k \in 0 .. n : f[k] = IF k = 0 THEN zeros ELSE step[k][f[k - 1]]
  <2> DEFINE m == 0
  <2>1. m \in Nat
    OBVIOUS
  <2> HIDE DEF m, step
  <2>2. \E f \in [m .. n -> X] : \A k \in m .. n : StepsBack(f, k, m, zeros, step)
    BY <2>1, <1>1, <1>4, <1>6, RangeRecursion, Zenon
  <2> QED BY <2>2, Zenon DEF m, StepsBack
<1>8. ASSUME NEW k \in 0 .. n PROVE f[k] = IF k = 0 THEN zeros ELSE SerializeColumn(f[k - 1], values, schema, k)
  <2>1. CASE k = 0
    BY <1>7, <2>1, Zenon
  <2>2. CASE k # 0
    <3>1. k \in 1 .. n /\ k - 1 \in 0 .. n /\ k \in Nat
      BY <1>1, <2>2
    <3>2. f[k - 1] \in X
      BY <1>7, <3>1
    <3>3. step[k][f[k - 1]] = SerializeColumn(f[k - 1], values, schema, k)
      BY <3>1, <3>2, Zenon
    <3> HIDE DEF step
    <3> QED BY <1>7, <2>2, <3>3
  <2> QED BY <2>1, <2>2
<1>9. Rec(f)
  <2>1. f = [k \in 0 .. n |-> f[k]]
    BY <1>7
  <2>2. [k \in 0 .. n |-> f[k]]
         = [k \in 0 .. n |-> IF k = 0 THEN zeros ELSE SerializeColumn(f[k - 1], values, schema, k)]
    BY <1>8, Zenon
  <2> QED BY <2>1, <2>2, Zenon
<1>10. Rec(data)
  BY <1>9, Zenon
<1>11. Tuple(values, schema) = data[n]
  BY Zenon DEF Tuple, n, zeros, D, TupleSize
<1> HIDE DEF data
<1>12. \A k \in 0 .. n : data[k] = IF k = 0 THEN zeros ELSE SerializeColumn(data[k - 1], values, schema, k)
  BY <1>10, Zenon
<1> DEFINE Ok(k) == DOMAIN data[k] = D /\ \A j \in 1 .. n : j <= k => Intact(data[k], values, schema, j)
           S == {k \in Nat : k <= n => Ok(k)}
<1>13. 0 \in S
  <2>1. 0 \in 0 .. n /\ \A j \in 1 .. n : ~ j <= 0
    BY <1>1
  <2>2. data[0] = zeros
    BY <2>1, <1>12, Zenon
  <2>3. DOMAIN zeros = D
    BY DEF zeros
  <2>4. Ok(0)
    BY <2>1, <2>2, <2>3
  <2> QED BY <2>4
<1>14. ASSUME NEW k \in Nat, k \in S PROVE k + 1 \in S
  <2> SUFFICES ASSUME k + 1 <= n PROVE Ok(k + 1)
    OBVIOUS
  <2>1. k + 1 \in 0 .. n /\ k + 1 \in 1 .. n /\ k + 1 # 0 /\ (k + 1) - 1 = k /\ k <= n
    BY <1>1
  <2>2. data[k + 1] = SerializeColumn(data[(k + 1) - 1], values, schema, k + 1)
    BY <1>12, <2>1, Zenon
  <2>3. data[k + 1] = SerializeColumn(data[k], values, schema, k + 1)
    BY <2>1, <2>2
  <2>4. DOMAIN data[k] = D /\ \A j \in 1 .. n : j <= k => Intact(data[k], values, schema, j)
    BY <1>14, <2>1
  <2>5. /\ DOMAIN data[k + 1] = D
        /\ Intact(data[k + 1], values, schema, k + 1)
        /\ \A j \in 1 .. n : j < k + 1 /\ Intact(data[k], values, schema, j) => Intact(data[k + 1], values, schema, j)
    <3>1. k + 1 \in 1 .. Len(schema) /\ DOMAIN data[k] = 0 .. (TupleSize(values, schema) - 1)
      BY <2>1, <2>4 DEF n, D
    <3> DEFINE k1 == k + 1
               d == data[k]
    <3> HIDE DEF k1, d
    <3>2. k1 \in 1 .. Len(schema) /\ DOMAIN d = 0 .. (TupleSize(values, schema) - 1) /\ data[k1] = SerializeColumn(d, values, schema, k1)
      BY <3>1, <2>3 DEF k1, d
    <3>3. /\ DOMAIN data[k1] = DOMAIN d
          /\ Intact(data[k1], values, schema, k1)
          /\ \A j \in 1 .. Len(schema) : j < k1 /\ Intact(d, values, schema, j) => Intact(data[k1], values, schema, j)
      BY <3>2, SerializeKeeps
    <3> QED BY <3>3, <2>4 DEF k1, d, n
  <2>6. ASSUME NEW j \in 1 .. n, j <= k + 1 PROVE Intact(data[k + 1], values, schema, j)
    <3>1. CASE j = k + 1
      BY <3>1, <2>5
    <3>2. CASE j # k + 1
      <4>1. j <= k /\ j < k + 1
        BY <2>6, <3>2, <1>1
      <4> QED BY <4>1, <2>4, <2>5
    <3> QED BY <3>1, <3>2
  <2> QED BY <2>5, <2>6
<1> HIDE DEF Ok
<1>15. Nat \subseteq S
  <2> HIDE DEF S
  <2> QED BY <1>13, <1>14, SetInduction
<1>16. Ok(n) /\ \A j \in 1 .. n : j <= n
  BY <1>1, <1>15
<1> QED BY <1>11, <1>16 DEF Ok, n

(* Whatever the schema and the values of a row, GetValue on the tuple built from
   it gives every value back (Tuple::Tuple and Tuple::GetValue, tuple.cpp:24-62
   and 98-130). *)
THEOREM GetsValue ==
  ASSUME NEW values, NEW schema, Row(values, schema), NEW k \in 1 .. Len(schema)
  PROVE  GetValue(Tuple(values, schema), schema, k) = values[k]
<1> DEFINE t == Tuple(values, schema)
           off == Offset(schema, k)
           pay == PayloadAt(values, schema, k)
           fl == FixedLength(schema[k])
           vl == VarlenLength(values[k])
<1>1. off \in Nat /\ pay \in Nat /\ fl \in Nat /\ fl >= 1 /\ (~IsInlined(schema[k]) => vl \in Nat)
  BY ColumnFacts
<1>2. Intact(t, values, schema, k)
  BY TupleIntact
<1> HIDE DEF t
<1>3. ASSUME NEW at \in Nat, NEW what, NEW s \in Nat, s >= 1, Carries(t, at, what, s)
      PROVE  t[at][1] = what /\ ReadCells(t, at, s)
  <2>1. at \in at .. (at + s - 1) /\ at + s - 1 \in at .. (at + s - 1)
    BY <1>3
  <2>2. t[at] = <<what, at - at>> /\ at + s - 1 \in DOMAIN t
    BY <1>3, <2>1 DEF Carries
  <2>3. t[at][1] = what
    BY <2>2
  <2>4. \A o \in at .. (at + s - 1) : t[o] = <<t[at][1], o - at>>
    BY <1>3, <2>3 DEF Carries
  <2> QED BY <2>2, <2>3, <2>4, Zenon DEF ReadCells
<1>4. CASE IsInlined(schema[k])
  <2>1. Carries(t, off, values[k], fl)
    BY <1>2, <1>4 DEF Intact
  <2> HIDE DEF off, fl
  <2>2. t[off][1] = values[k] /\ ReadCells(t, off, fl)
    BY <2>1, <1>1, <1>3
  <2>3. GetDataPtr(t, schema, k) = off
    BY <1>4, Zenon DEF GetDataPtr, off
  <2>4. GetValue(t, schema, k) = IF ReadCells(t, off, fl) THEN t[off][1] ELSE Error("overlap")
    BY <1>4, <2>3, Zenon DEF GetValue, fl
  <2> QED BY <2>2, <2>4, Zenon DEF t
<1>5. CASE ~IsInlined(schema[k])
  <2>1. Carries(t, off, pay, SizeOfUint32) /\ Carries(t, pay, values[k], SizeOfUint32 + vl)
    BY <1>2, <1>5 DEF Intact
  <2> HIDE DEF off, pay, vl
  <2>2. SizeOfUint32 \in Nat /\ SizeOfUint32 >= 1 /\ SizeOfUint32 + vl \in Nat /\ SizeOfUint32 + vl >= 1
    BY <1>1, <1>5 DEF SizeOfUint32
  <2>3. t[off][1] = pay
    BY <2>1, <2>2, <1>1, <1>3
  <2>4. t[pay][1] = values[k] /\ ReadCells(t, pay, SizeOfUint32 + vl)
    BY <2>1, <2>2, <1>1, <1>3
  <2>5. GetDataPtr(t, schema, k) = pay
    BY <1>5, <2>3, Zenon DEF GetDataPtr, off
  <2>6. GetValue(t, schema, k)
          = IF ReadCells(t, pay, SizeOfUint32 + VarlenLength(t[pay][1])) THEN t[pay][1] ELSE Error("overlap")
    BY <1>5, <2>5, Zenon DEF GetValue
  <2> QED BY <2>4, <2>6, Zenon DEF t, vl
<1> QED BY <1>4, <1>5 DEF t

LEMMA FunctionIsSeq ==
  ASSUME NEW S, NEW n \in Nat, NEW f \in [1 .. n -> S]
  PROVE  f \in Seq(S) /\ Len(f) = n
OBVIOUS

\* The rows of the law, and the keys cut out of them.
LEMMA InvTupleRoundTrip == ValuesInv => TupleRoundTrip
<1> SUFFICES ASSUME ValuesInv,
                    NEW values \in {<<left, right>>, <<right, left, right>>}
             PROVE  LET schema == [k \in DOMAIN values |-> values[k].type]
                        tuple == Tuple(values, schema)
                    IN  /\ \A k \in DOMAIN values : GetValue(tuple, schema, k) = values[k]
                        /\ LET attrs == <<2, 1>>
                               key == KeyFromTuple(tuple, schema, attrs)
                           IN  \A k \in 1 .. 2 : GetValue(key, CopySchema(schema, attrs), k) = values[attrs[k]]
  BY Zenon DEF TupleRoundTrip
<1> DEFINE schema == [k \in DOMAIN values |-> values[k].type]
           tuple == Tuple(values, schema)
           attrs == <<2, 1>>
           keyValues == [k \in DOMAIN attrs |-> GetValue(tuple, schema, attrs[k])]
           keySchema == CopySchema(schema, attrs)
           key == KeyFromTuple(tuple, schema, attrs)
<1>1. PICK n \in {2, 3} : DOMAIN values = 1 .. n /\ \A k \in 1 .. n : values[k] \in {left, right}
  <2>1. CASE values = <<left, right>>
    <3>1. DOMAIN values = 1 .. 2 /\ \A k \in 1 .. 2 : values[k] \in {left, right}
      BY <2>1
    <3> QED BY <3>1
  <2>2. CASE values = <<right, left, right>>
    <3>1. DOMAIN values = 1 .. 3 /\ \A k \in 1 .. 3 : values[k] \in {left, right}
      BY <2>2
    <3> QED BY <3>1
  <2> QED BY <2>1, <2>2
<1>2. \A k \in 1 .. n : IsValue(values[k]) /\ values[k].type \in TypeIds /\ schema[k] = values[k].type
  <2>1. IsValue(left) /\ IsValue(right)
    BY DEF ValuesInv
  <2>2. left.type \in TypeIds /\ right.type \in TypeIds
    BY <2>1, IntegerFacts, DecimalFacts, BooleanFacts, VarcharFacts DEF IsValue, TypeIds, Numeric, Integers4
  <2> QED BY <1>1, <2>1, <2>2
<1>3. schema \in Seq(TypeIds) /\ Len(schema) = n
  <2>1. schema \in [1 .. n -> TypeIds]
    BY <1>1, <1>2
  <2> QED BY <2>1
<1> HIDE DEF schema
<1>4. Row(values, schema)
  BY <1>2, <1>3 DEF Row
<1>5. \A k \in 1 .. n : GetValue(tuple, schema, k) = values[k]
  BY <1>3, <1>4, GetsValue
<1>6. attrs \in [1 .. 2 -> 1 .. n] /\ DOMAIN attrs = 1 .. 2
  OBVIOUS
<1> HIDE DEF tuple, attrs
<1>7. \A k \in 1 .. 2 : keyValues[k] = values[attrs[k]] /\ keySchema[k] = schema[attrs[k]] /\ attrs[k] \in 1 .. n
  BY <1>5, <1>6 DEF CopySchema
<1>8. keySchema \in Seq(TypeIds) /\ Len(keySchema) = 2
  <2>1. \A k \in 1 .. 2 : schema[attrs[k]] \in TypeIds
    BY <1>2, <1>6
  <2>2. keySchema \in [1 .. 2 -> TypeIds]
    BY <2>1, <1>6 DEF CopySchema
  <2> HIDE DEF keySchema
  <2> QED BY <2>2, FunctionIsSeq, Zenon
<1>9. key = Tuple(keyValues, keySchema)
  BY Zenon DEF KeyFromTuple
<1> HIDE DEF keyValues, keySchema, key
<1>10. Row(keyValues, keySchema)
  BY <1>2, <1>7, <1>8 DEF Row
<1>11. ASSUME NEW k \in 1 .. 2 PROVE GetValue(key, keySchema, k) = values[attrs[k]]
  <2>1. k \in 1 .. Len(keySchema) /\ keyValues[k] = values[attrs[k]]
    BY <1>7, <1>8
  <2>2. GetValue(Tuple(keyValues, keySchema), keySchema, k) = keyValues[k]
    BY <2>1, <1>10, GetsValue
  <2> QED BY <2>1, <2>2, <1>9
<1> QED BY <1>1, <1>5, <1>11, Zenon DEF schema, tuple, attrs, keySchema, key

-----------------------------------------------------------------------------
(* Comparison and hashing. *)

IsNumber(x) == IsInteger(x) \/ IsDecimal(x)

LEMMA NumberFacts ==
  ASSUME NEW x, IsNumber(x)
  PROVE  /\ x.type \in Numeric /\ x.type # "BOOLEAN" /\ x.type # "VARCHAR" /\ x.v \in Int
         /\ (x.type \in Integers4 <=> x.type # "DECIMAL")
         /\ (IsInteger(x) <=> x.type # "DECIMAL")
         /\ x.null \in BOOLEAN /\ ~IsError(x)
<1>1. CASE IsInteger(x)
  <2>1. x.null \in BOOLEAN
    BY <1>1 DEF IsInteger, Holding
  <2> QED BY <1>1, <2>1, IntegerFacts DEF Numeric
<1>2. CASE IsDecimal(x)
  <2>1. x.null \in BOOLEAN
    BY <1>2 DEF IsDecimal, Holding
  <2> QED BY <1>2, <2>1, DecimalFacts, IntegerFacts DEF Numeric
<1> QED BY <1>1, <1>2 DEF IsNumber

\* The numeric values are those whose type is numeric.
LEMMA NumericValues ==
  ASSUME NEW x, IsValue(x)
  PROVE  /\ (x.type \in Integers4 <=> IsInteger(x))
         /\ (x.type \in Numeric <=> IsNumber(x))
<1>1. CASE IsInteger(x)
  BY <1>1, IntegerFacts DEF IsNumber, Numeric
<1>2. CASE IsDecimal(x)
  BY <1>2, DecimalFacts, IntegerFacts DEF IsNumber, Numeric
<1>3. CASE IsBoolean(x)
  BY <1>3, BooleanFacts, IntegerFacts, DecimalFacts DEF IsNumber, Numeric
<1>4. CASE IsVarchar(x)
  BY <1>4, VarcharFacts, IntegerFacts, DecimalFacts DEF IsNumber, Numeric
<1> QED BY <1>1, <1>2, <1>3, <1>4 DEF IsValue

LEMMA DoubleType == \A i \in Int : Double(i) \in Int
<1> TAKE i \in Int
<1>1. (i + 1) \div 4 \in Int
  OBVIOUS
<1> QED BY <1>1 DEF Double

\* The number that x is compared as.
ComparedAs(x, other) == IF other.type = "DECIMAL" THEN AsDouble(x) ELSE x.v

LEMMA ComparedInt ==
  ASSUME NEW x, IsNumber(x), NEW y
  PROVE  ComparedAs(x, y) \in Int
BY NumberFacts, DoubleType DEF ComparedAs, AsDouble

\* All six comparisons of two numbers are made on the same two integers.
LEMMA CompareNumbers ==
  ASSUME NEW l, NEW r, IsNumber(l), IsNumber(r), NEW op
  PROVE  Compare(op, l, r) = IF l.null \/ r.null THEN "CmpNull"
                             ELSE GetCmpBool(Holds(op, ComparedAs(l, r), ComparedAs(r, l)))
<1>1. /\ l.type \in Numeric /\ l.type # "BOOLEAN" /\ l.type # "VARCHAR"
      /\ r.type \in Numeric /\ r.type # "BOOLEAN" /\ r.type # "VARCHAR" /\ ~IsError(r)
  BY NumberFacts
<1>2. Compare(op, l, r) = CompareWith(op, l, r, r)
  BY <1>1 DEF Compare, RightOperand
<1>3. CheckComparable(l, r)
  BY <1>1 DEF CheckComparable
<1>4. CASE l.type = "DECIMAL"
  <2>1. CompareWith(op, l, r, r) = DecimalCompare(op, l, r, r)
    BY <1>4 DEF CompareWith
  <2>2. ComparedAs(l, r) = l.v /\ ComparedAs(r, l) = AsDouble(r)
    BY <1>4 DEF ComparedAs, AsDouble
  <2> QED BY <1>1, <1>2, <1>3, <2>1, <2>2 DEF DecimalCompare
<1>5. CASE l.type # "DECIMAL"
  <2>1. CompareWith(op, l, r, r) = IntegerCompare(op, l, r, r)
    BY <1>1, <1>5 DEF CompareWith, Numeric, Integers4, TinyintCompare, SmallintCompare,
                      IntegerTypeCompare, BigintCompare
  <2>2. ComparedAs(r, l) = r.v
    BY <1>5 DEF ComparedAs
  <2>3. ComparedAs(l, r) = IF r.type = "DECIMAL" THEN Double(l.v) ELSE l.v
    BY <1>5 DEF ComparedAs, AsDouble
  <2> QED BY <1>1, <1>2, <1>3, <2>1, <2>2, <2>3 DEF IntegerCompare, HoldsUnlessError
<1> QED BY <1>4, <1>5

LEMMA HoldsIs ==
  ASSUME NEW x \in Int, NEW y \in Int
  PROVE  /\ Holds("=", x, y) = (x = y) /\ Holds("#", x, y) = (x # y)
         /\ Holds("<", x, y) = (x < y) /\ Holds("<=", x, y) = (x <= y)
         /\ Holds(">", x, y) = (x > y) /\ Holds(">=", x, y) = (x >= y)
BY DEF Holds

LEMMA InvComparisonLaws == ValuesInv => ComparisonLaws
<1> SUFFICES ASSUME ValuesInv, BothNumeric
             PROVE  LET cmp == [op \in Comparisons |-> Compare(op, left, right)]
                        swapped == Compare("<", right, left)
                    IN  IF NoNull THEN OneOrder(cmp, swapped)
                        ELSE \A op \in Comparisons : cmp[op] = "CmpNull"
  BY DEF ComparisonLaws
<1> DEFINE cmp == [op \in Comparisons |-> Compare(op, left, right)]
           swapped == Compare("<", right, left)
           x == ComparedAs(left, right)
           y == ComparedAs(right, left)
<1>1. IsNumber(left) /\ IsNumber(right) /\ x \in Int /\ y \in Int
  BY NumericValues, ComparedInt DEF ValuesInv, BothNumeric
<1>2. CASE ~NoNull
  BY <1>1, <1>2, CompareNumbers DEF NoNull
<1>3. CASE NoNull
  <2>1. \A op \in Comparisons : cmp[op] = GetCmpBool(Holds(op, x, y))
    BY <1>1, <1>3, CompareNumbers DEF NoNull
  <2>2. swapped = GetCmpBool(y < x)
    BY <1>1, <1>3, CompareNumbers, HoldsIs DEF NoNull
  <2>3. /\ cmp["="] = GetCmpBool(x = y) /\ cmp["#"] = GetCmpBool(x # y)
        /\ cmp["<"] = GetCmpBool(x < y) /\ cmp["<="] = GetCmpBool(x <= y)
        /\ cmp[">"] = GetCmpBool(x > y) /\ cmp[">="] = GetCmpBool(x >= y)
    <3> HIDE DEF cmp, x, y
    <3>1. "=" \in Comparisons /\ "#" \in Comparisons /\ "<" \in Comparisons
          /\ "<=" \in Comparisons /\ ">" \in Comparisons /\ ">=" \in Comparisons
      BY DEF Comparisons
    <3> QED BY <1>1, <2>1, <3>1, HoldsIs
  <2>4. BothIntegers => cmp["<"] = GetCmpBool(left.v < right.v)
    <3> SUFFICES ASSUME BothIntegers PROVE cmp["<"] = GetCmpBool(left.v < right.v)
      OBVIOUS
    <3>1. x = left.v /\ y = right.v
      BY <1>1, NumberFacts DEF BothIntegers, ComparedAs
    <3> HIDE DEF cmp, x, y
    <3> QED BY <2>3, <3>1
  <2> HIDE DEF cmp, swapped, x, y
  <2>5. OneOrder(cmp, swapped)
    BY <1>1, <2>2, <2>3, <2>4 DEF OneOrder, GetCmpBool
  <2> QED BY <1>3, <2>5 DEF cmp, swapped
<1> QED BY <1>2, <1>3

LEMMA InvEqualHashesAlike == ValuesInv => EqualHashesAlike
<1> SUFFICES ASSUME ValuesInv, BothIntegers, Compare("=", left, right) = "CmpTrue"
             PROVE  HashValue(left) = HashValue(right)
  BY DEF EqualHashesAlike
<1>1. IsInteger(left) /\ IsInteger(right)
  BY NumericValues DEF ValuesInv, BothIntegers
<1>2. /\ left.v \in Int /\ right.v \in Int /\ left.type # "DECIMAL" /\ right.type # "DECIMAL"
      /\ left.type \in Integers4 /\ right.type \in Integers4
  BY <1>1, IntegerFacts
<1>3. ComparedAs(left, right) = left.v /\ ComparedAs(right, left) = right.v
  BY <1>2 DEF ComparedAs
<1>4. GetCmpBool(Holds("=", left.v, right.v)) = "CmpTrue"
  BY <1>1, <1>3, CompareNumbers DEF IsNumber
<1>5. left.v = right.v
  BY <1>2, <1>4, HoldsIs, Zenon DEF GetCmpBool
<1>6. ASSUME NEW x, x.type \in Integers4 PROVE HashValue(x) = <<"int64_t", x.v>>
  <2>1. x.type # "BOOLEAN" /\ x.type # "DECIMAL" /\ x.type # "VARCHAR"
    BY <1>6 DEF Integers4
  <2> QED BY <1>6, <2>1 DEF HashValue
<1> QED BY <1>2, <1>5, <1>6

-----------------------------------------------------------------------------
(* Integer arithmetic. *)

LEMMA Products ==
  ASSUME NEW a \in Int, NEW b \in Int
  PROVE  /\ a * b \in Int /\ (-a) * b = -(a * b) /\ a * (-b) = -(a * b) /\ (-a) * (-b) = a * b
         /\ a * b = b * a
OBVIOUS

\* An integer division goes towards zero.
LEMMA TruncFacts ==
  ASSUME NEW x \in Int, NEW y \in Int, y # 0
  PROVE  /\ Trunc(x, y) \in Int /\ -Abs(x) <= Trunc(x, y) /\ Trunc(x, y) <= Abs(x)
         /\ \E d \in Nat : /\ d < Abs(y) /\ d <= Abs(x)
                           /\ x - Trunc(x, y) * y = IF x < 0 THEN -d ELSE d
<1> DEFINE X == Abs(x)
           Y == Abs(y)
           Q == X \div Y
           d == X % Y
           q == Trunc(x, y)
<1>1. X \in Nat /\ Y \in Nat \ {0} /\ x = (IF x < 0 THEN -X ELSE X) /\ y = (IF y < 0 THEN -Y ELSE Y)
  BY DEF Abs
<1>2. q = IF (x < 0) = (y < 0) THEN Q ELSE -Q
  BY DEF Trunc
<1> HIDE DEF X, Y, q
<1>3. d \in 0 .. Y - 1 /\ Q \in Int /\ X = (Y * Q) + d
  BY <1>1, Remainder
<1>4. Q \in Nat /\ Q <= X /\ d <= X
  <2>1. Q \in Nat
    BY <1>1
  <2> HIDE DEF Q, d
  <2>2. \A a \in Nat \ {0}, b \in Nat : b <= a * b /\ a * b \in Nat
    OBVIOUS
  <2>3. Q <= Y * Q /\ Y * Q \in Nat
    BY <1>1, <2>1, <2>2
  <2> DEFINE p == Y * Q
  <2> HIDE DEF p
  <2>4. Q <= p /\ p \in Nat /\ X = p + d
    BY <1>3, <2>3 DEF p
  <2> QED BY <1>1, <1>3, <2>1, <2>4
<1> HIDE DEF Q, d
<1>5. q * y = IF x < 0 THEN -(Y * Q) ELSE Y * Q
  <2>1. Q * Y = Y * Q /\ (-Q) * Y = -(Y * Q) /\ Q * (-Y) = -(Y * Q) /\ (-Q) * (-Y) = Y * Q
    BY <1>1, <1>4, Products
  <2> QED BY <1>1, <1>2, <2>1
<1>6. x - q * y = IF x < 0 THEN -d ELSE d
  <2> DEFINE p == Y * Q
             qy == q * y
  <2> HIDE DEF p, qy
  <2>1. p \in Int /\ X = p + d /\ qy = IF x < 0 THEN -p ELSE p
    BY <1>1, <1>3, <1>4, <1>5, Products DEF p, qy
  <2>2. x - qy = IF x < 0 THEN -d ELSE d
    BY <1>1, <1>3, <2>1
  <2> QED BY <2>2 DEF qy
<1>7. q \in Int /\ -X <= q /\ q <= X
  BY <1>1, <1>2, <1>4
<1>8. d \in Nat /\ d < Y /\ d <= X
  BY <1>1, <1>3, <1>4
<1> QED BY <1>6, <1>7, <1>8 DEF X, Y, q

\* What was multiplied can be divided again.
LEMMA TruncOfProduct ==
  ASSUME NEW a \in Int, NEW y \in Int, y # 0
  PROVE  Trunc(a * y, y) = a
<1> DEFINE p == a * y
           q == Trunc(p, y)
<1>1. p \in Int
  OBVIOUS
<1> HIDE DEF p
<1>2. q \in Int
  BY <1>1, TruncFacts
<1>3. PICK d \in Nat : d < Abs(y) /\ p - q * y = IF p < 0 THEN -d ELSE d
  BY <1>1, TruncFacts, Zenon
<1> HIDE DEF q
<1> DEFINE e == a - q
<1>4. e \in Int /\ e * y = p - q * y
  BY <1>2 DEF p
<1> HIDE DEF e
<1>5. e = 0
  <2>1. \A m, n \in Int : n # 0 /\ m # 0 => Abs(m * n) >= Abs(n)
    <3> TAKE m, n \in Int
    <3> HAVE n # 0 /\ m # 0
    <3> DEFINE M == Abs(m)
               N == Abs(n)
    <3>1. M \in Nat \ {0} /\ N \in Nat /\ (m = M \/ m = -M) /\ (n = N \/ n = -N)
      BY DEF Abs
    <3> HIDE DEF M, N
    <3>2. M * N >= N /\ M * N \in Nat
      BY <3>1
    <3>3. m * n = M * N \/ m * n = -(M * N)
      BY <3>1, Products
    <3> DEFINE MN == M * N
               mn == m * n
    <3> HIDE DEF MN, mn
    <3>4. MN \in Nat /\ MN >= N /\ (mn = MN \/ mn = -MN)
      BY <3>2, <3>3 DEF MN, mn
    <3>5. Abs(mn) >= N
      BY <3>1, <3>4 DEF Abs
    <3> QED BY <3>5 DEF mn, N
  <2>2. e # 0 => Abs(e * y) >= Abs(y)
    BY <1>4, <2>1
  <2>3. Abs(e * y) = d
    BY <1>3, <1>4 DEF Abs
  <2> QED BY <1>3, <2>2, <2>3 DEF Abs
<1>6. a = q
  BY <1>2, <1>5 DEF e
<1> QED BY <1>6 DEF p, q

\* The type that an expression of two integers is computed in.
ExpressionType(l, r) == IF "BIGINT" \in {l.type, r.type} THEN "BIGINT" ELSE "INTEGER"

LEMMA WiderFacts ==
  ASSUME NEW l, NEW r, l.type \in Integers4, r.type \in Integers4
  PROVE  /\ Wider(l, r) \in {l.type, r.type} /\ Wider(l, r) \in Integers4
         /\ ExpressionType(l, r) \in Integers4
         /\ Half(l.type) <= Half(Wider(l, r)) /\ Half(r.type) <= Half(Wider(l, r))
         /\ \/ ExpressionType(l, r) = Wider(l, r)
            \/ Wider(l, r) \in {"TINYINT", "SMALLINT"} /\ ExpressionType(l, r) = "INTEGER"
<1>1. \A s, t \in Integers4 : Bits[s] <= Bits[t] => Half(s) <= Half(t)
  <2> TAKE s, t \in Integers4
  <2> HAVE Bits[s] <= Bits[t]
  <2>1. Bits[s] - 1 \in Nat /\ Bits[t] - 1 \in Nat /\ Bits[s] - 1 <= Bits[t] - 1
    BY BitsAssumption
  <2> QED BY <2>1, PowersGrow DEF Half
<1>2. Wider(l, r) \in {l.type, r.type} /\ Wider(l, r) \in Integers4
  BY DEF Wider
<1>3. Bits[l.type] <= Bits[Wider(l, r)] /\ Bits[r.type] <= Bits[Wider(l, r)]
  BY Limits DEF Wider
<1>4. \/ ExpressionType(l, r) = Wider(l, r)
      \/ Wider(l, r) \in {"TINYINT", "SMALLINT"} /\ ExpressionType(l, r) = "INTEGER"
  BY Limits, Widths DEF Wider, ExpressionType, Integers4
<1>5. ExpressionType(l, r) \in Integers4
  BY DEF ExpressionType, Integers4
<1> QED BY <1>1, <1>2, <1>3, <1>4, <1>5

\* A product of two numbers of a narrow type fits an int.
LEMMA NarrowFits ==
  ASSUME NEW t \in {"TINYINT", "SMALLINT"}
  PROVE  2 * (Half(t) * Half(t)) <= Half("INTEGER") /\ 2 * Half(t) <= Half("INTEGER")
<1>1. CASE t = "SMALLINT"
  BY <1>1, Widths
<1>2. CASE t = "TINYINT"
  <2> DEFINE a == Half("TINYINT")
             b == Half("SMALLINT")
             c == Half("INTEGER")
  <2>1. /\ a \in Nat /\ b \in Nat /\ c \in Nat /\ 2 * a <= b
        /\ 2 * (b * b) <= c /\ 2 * b <= c
    BY Limits, Widths
  <2> HIDE DEF a, b, c
  <2>2. a * a <= b * b /\ a * a \in Nat /\ b * b \in Nat
    BY <2>1
  <2>3. 2 * (a * a) <= c /\ 2 * a <= c
    <3> DEFINE aa == a * a
               bb == b * b
    <3> HIDE DEF aa, bb
    <3>1. aa <= bb /\ 2 * bb <= c /\ aa \in Nat /\ bb \in Nat
      BY <2>1, <2>2 DEF aa, bb
    <3>2. 2 * aa <= c
      BY <2>1, <3>1
    <3> QED BY <2>1, <3>2 DEF aa
  <2> QED BY <1>2, <2>3 DEF a, c
<1> QED BY <1>1, <1>2

\* What the two tests of AddValue, SubtractValue and MultiplyValue see of the
\* exact number i: the first one finds what does not fit a narrow type; in the
\* type of the expression itself the number has wrapped.
LEMMA Overflow ==
  ASSUME NEW l, NEW r, l.type \in Integers4, r.type \in Integers4, NEW i \in Int,
         \/ ExpressionType(l, r) = Wider(l, r)
         \/ i \in IntNull(ExpressionType(l, r)) .. IntMax(ExpressionType(l, r))
  PROVE  LET t == Wider(l, r)
             w == Expression(l, r, i)
             res == Value(t, w)
         IN  /\ IsInteger(res) /\ ~IsError(res) /\ res.type = t
             /\ i \in IntNull(t) .. IntMax(t) => ~FitsNeither(l, r, w) /\ res.v = i
             /\ i \notin IntNull(t) .. IntMax(t) =>
                  \/ FitsNeither(l, r, w)
                  \/ \E k \in Int : k # 0 /\ res.v = i + (2 * Half(t)) * k
<1> DEFINE t == Wider(l, r)
           E == ExpressionType(l, r)
           w == Expression(l, r, i)
           res == Value(t, w)
<1>1. t \in {l.type, r.type} /\ t \in Integers4 /\ E \in Integers4
      /\ Half(l.type) <= Half(t) /\ Half(r.type) <= Half(t)
  BY WiderFacts
<1>2. w = Wrap(E, i)
  BY DEF Expression, ExpressionType
<1>3. E = t \/ i \in IntNull(E) .. IntMax(E)
  OBVIOUS
<1> HIDE DEF t, E, w
<1>4. w \in IntNull(E) .. IntMax(E) /\ w \in Int
  BY <1>1, <1>2, Wraps, Limits
<1>5. IsInteger(res) /\ res.type = t /\ res.v = Wrap(t, w)
  BY <1>1, <1>4, ValueMakes
<1>6. ~IsError(res)
  BY <1>5, IntegerFacts
<1>7. ASSUME i \in IntNull(t) .. IntMax(t) PROVE ~FitsNeither(l, r, w) /\ res.v = i
  <2>1. w = i
    BY <1>1, <1>2, <1>3, <1>7, Wraps
  <2>2. Wrap(t, w) = w
    BY <1>1, <1>7, <2>1, Wraps
  <2> QED BY <1>1, <1>5, <2>1, <2>2 DEF FitsNeither
<1>8. ASSUME i \notin IntNull(t) .. IntMax(t), ~FitsNeither(l, r, w)
      PROVE  \E k \in Int : k # 0 /\ res.v = i + (2 * Half(t)) * k
  <2>1. ASSUME NEW s \in {l.type, r.type}, w = Wrap(s, w) PROVE w \in IntNull(t) .. IntMax(t)
    <3>1. s \in Integers4 /\ Half(s) <= Half(t)
      BY <1>1
    <3>2. w \in IntNull(s) .. IntMax(s)
      BY <1>4, <2>1, <3>1, Wraps
    <3>3. IntMax(s) = Half(s) - 1 /\ IntNull(s) = -Half(s) /\ IntMax(t) = Half(t) - 1
          /\ IntNull(t) = -Half(t) /\ Half(s) \in Nat /\ Half(t) \in Nat
      BY <1>1, <3>1, Limits
    <3> QED BY <3>1, <3>2, <3>3
  <2>2. w \in IntNull(t) .. IntMax(t)
    BY <1>8, <2>1 DEF FitsNeither
  <2>3. w # i
    BY <1>8, <2>2
  <2>4. E = t
    BY <1>1, <1>2, <1>3, <2>3, Wraps
  <2>5. res.v = w
    BY <1>1, <1>4, <1>5, <2>2, Wraps
  <2>6. PICK k \in Int : w = i + (2 * Half(t)) * k
    BY <1>1, <1>2, <2>4, Wraps
  <2>7. k # 0
    <3> SUFFICES ASSUME k = 0 PROVE FALSE
      OBVIOUS
    <3>1. (2 * Half(t)) * 0 = 0
      BY <1>1, Limits
    <3> QED BY <2>3, <2>6, <3>1
  <2> QED BY <2>5, <2>6, <2>7
<1> QED BY <1>5, <1>6, <1>7, <1>8 DEF t, w

\* res is the number x in type t, or the exception that t cannot hold it.
ExactIn(res, t, x) ==
  IF x \in IntNull(t) .. IntMax(t) THEN ~IsError(res) /\ res.type = t /\ res.v = x
  ELSE res = Error("OUT_OF_RANGE")

\* Two integers that are not NULL.
IntegerPair(l, r) == IsInteger(l) /\ IsInteger(r) /\ ~l.null /\ ~r.null

LEMMA PairFacts ==
  ASSUME NEW l, NEW r, IntegerPair(l, r)
  PROVE  LET h == Half(Wider(l, r))
         IN  /\ l.type \in Integers4 /\ r.type \in Integers4 /\ Wider(l, r) \in Integers4
             /\ h \in Nat /\ h >= 2
             /\ IntMax(Wider(l, r)) = h - 1 /\ IntNull(Wider(l, r)) = -h
             /\ l.v \in Int /\ r.v \in Int
             /\ 1 - h <= l.v /\ l.v <= h - 1 /\ 1 - h <= r.v /\ r.v <= h - 1
<1> DEFINE h == Half(Wider(l, r))
<1>1. /\ l.type \in Integers4 /\ l.v \in IntNull(l.type) .. IntMax(l.type) /\ l.v # IntNull(l.type)
      /\ r.type \in Integers4 /\ r.v \in IntNull(r.type) .. IntMax(r.type) /\ r.v # IntNull(r.type)
      /\ l.v \in Int /\ r.v \in Int
  BY IntegerFacts DEF IntegerPair
<1>2. Wider(l, r) \in Integers4 /\ Half(l.type) <= h /\ Half(r.type) <= h
  BY <1>1, WiderFacts
<1>3. /\ h \in Nat /\ h >= 2 /\ IntMax(Wider(l, r)) = h - 1 /\ IntNull(Wider(l, r)) = -h
      /\ IntNull(l.type) = -Half(l.type) /\ IntMax(l.type) = Half(l.type) - 1 /\ Half(l.type) \in Nat
      /\ IntNull(r.type) = -Half(r.type) /\ IntMax(r.type) = Half(r.type) - 1 /\ Half(r.type) \in Nat
  BY <1>1, <1>2, Limits
<1> HIDE DEF h
<1>4. 1 - h <= l.v /\ l.v <= h - 1 /\ 1 - h <= r.v /\ r.v <= h - 1
  BY <1>1, <1>2, <1>3
<1> QED BY <1>1, <1>2, <1>3, <1>4 DEF h

\* A number below the square of Half either is computed in its own type or
\* fits the type of the expression.
LEMMA ExpressionFits ==
  ASSUME NEW l, NEW r, IntegerPair(l, r), NEW i \in Int,
         LET h == Half(Wider(l, r))
         IN  (-(2 * h) <= i /\ i <= 2 * h - 1) \/ (-(h * h) <= i /\ i <= h * h)
  PROVE  \/ ExpressionType(l, r) = Wider(l, r)
         \/ i \in IntNull(ExpressionType(l, r)) .. IntMax(ExpressionType(l, r))
<1> SUFFICES ASSUME ExpressionType(l, r) # Wider(l, r)
             PROVE  i \in IntNull(ExpressionType(l, r)) .. IntMax(ExpressionType(l, r))
  OBVIOUS
<1> DEFINE t == Wider(l, r)
           h == Half(t)
           c == Half("INTEGER")
           hh == h * h
<1>1. t \in {"TINYINT", "SMALLINT"} /\ ExpressionType(l, r) = "INTEGER" /\ h \in Nat /\ h >= 2
  BY PairFacts, WiderFacts
<1>2. 2 * hh <= c /\ 2 * h <= c
  BY <1>1, NarrowFits
<1>3. c \in Nat /\ IntNull("INTEGER") = -c /\ IntMax("INTEGER") = c - 1
  BY Widths, Limits
<1>4. (-(2 * h) <= i /\ i <= 2 * h - 1) \/ (-hh <= i /\ i <= hh)
  OBVIOUS
<1>5. hh \in Nat /\ hh >= 1
  BY <1>1
<1> HIDE DEF h, c, hh, t
<1>6. -c <= i /\ i <= c - 1
  BY <1>1, <1>2, <1>3, <1>4, <1>5
<1> QED BY <1>1, <1>3, <1>6

\* A number less than two ranges away wraps once, to the other side.
LEMMA WrapsOnce ==
  ASSUME NEW h \in Nat, h >= 2, NEW i \in Int, -(2 * h) < i, i < 2 * h, i < -h \/ i > h - 1,
         NEW w \in Int, -h <= w, w <= h - 1, NEW k \in Int, w = i + (2 * h) * k
  PROVE  (i < 0 => w > 0) /\ (i > 0 => w < 0)
<1> DEFINE m == 2 * h
           mk == m * k
<1>1. m \in Nat /\ (k >= 1 => mk >= m) /\ (k <= -1 => mk <= -m) /\ (k = 0 => mk = 0) /\ mk \in Int
  <2>1. \A n \in Nat : k >= 1 => n * k >= n
    OBVIOUS
  <2>2. \A n \in Nat : k <= -1 => n * k <= -n
    OBVIOUS
  <2> QED BY <2>1, <2>2
<1>2. (k >= 2 => mk >= 2 * m) /\ (k <= -2 => mk <= -(2 * m)) /\ (k = 1 => mk = m) /\ (k = -1 => mk = -m)
  <2>1. \A n \in Nat : k >= 2 => n * k >= 2 * n
    OBVIOUS
  <2>2. \A n \in Nat : k <= -2 => n * k <= -(2 * n)
    OBVIOUS
  <2> QED BY <1>1, <2>1, <2>2
<1>3. w = i + mk
  OBVIOUS
<1> HIDE DEF mk
<1> QED BY <1>1, <1>2, <1>3

LEMMA AddExact ==
  ASSUME NEW l, NEW r, IntegerPair(l, r)
  PROVE  ExactIn(AddValue(l, r), Wider(l, r), l.v + r.v)
<1> DEFINE t == Wider(l, r)
           h == Half(t)
           i == l.v + r.v
           w == Expression(l, r, i)
           res == Value(t, w)
           bad == \/ FitsNeither(l, r, w)
                  \/ l.v > 0 /\ r.v > 0 /\ res.v < 0
                  \/ l.v < 0 /\ r.v < 0 /\ res.v > 0
<1>1. AddValue(l, r) = IF bad THEN Error("OUT_OF_RANGE") ELSE res
  BY DEF AddValue
<1>2. /\ l.type \in Integers4 /\ r.type \in Integers4 /\ t \in Integers4
      /\ h \in Nat /\ h >= 2 /\ IntMax(t) = h - 1 /\ IntNull(t) = -h
      /\ l.v \in Int /\ r.v \in Int
      /\ 1 - h <= l.v /\ l.v <= h - 1 /\ 1 - h <= r.v /\ r.v <= h - 1
  BY PairFacts
<1>3. i \in Int /\ -(2 * h) <= i /\ i <= 2 * h - 1 /\ -(2 * h) < i /\ i < 2 * h
  <2> HIDE DEF h
  <2> QED BY <1>2
<1> HIDE DEF i
<1>4. ExpressionType(l, r) = t \/ i \in IntNull(ExpressionType(l, r)) .. IntMax(ExpressionType(l, r))
  BY <1>3, ExpressionFits
<1>5. /\ IsInteger(res) /\ ~IsError(res) /\ res.type = t
      /\ i \in IntNull(t) .. IntMax(t) => ~FitsNeither(l, r, w) /\ res.v = i
      /\ i \notin IntNull(t) .. IntMax(t) =>
            \/ FitsNeither(l, r, w)
            \/ \E k \in Int : k # 0 /\ res.v = i + (2 * h) * k
  BY <1>2, <1>3, <1>4, Overflow, Zenon, ZenonT(30)
<1>6. res.v \in Int /\ -h <= res.v /\ res.v <= h - 1
  BY <1>2, <1>5, IntegerFacts
<1> HIDE DEF res, h, w
<1>7. CASE i \in IntNull(t) .. IntMax(t)
  <2>1. ~bad
    <3>1. (l.v > 0 /\ r.v > 0 => i > 0) /\ (l.v < 0 /\ r.v < 0 => i < 0)
      BY <1>2 DEF i
    <3>2. res.v = i /\ ~FitsNeither(l, r, w)
      BY <1>5, <1>7, Zenon
    <3> QED BY <1>3, <3>1, <3>2
  <2> QED BY <1>1, <1>5, <1>7, <2>1 DEF ExactIn, i
<1>8. CASE i \notin IntNull(t) .. IntMax(t)
  <2>1. bad
    <3> SUFFICES ASSUME ~FitsNeither(l, r, w) PROVE bad
      OBVIOUS
    <3>1. PICK k \in Int : res.v = i + (2 * h) * k
      BY <1>5, <1>8
    <3>2. i < -h \/ i > h - 1
      BY <1>2, <1>3, <1>8
    <3>3. (i < 0 => res.v > 0) /\ (i > 0 => res.v < 0)
      BY <1>2, <1>3, <1>6, <3>1, <3>2, WrapsOnce
    <3>4. (i < -h => l.v < 0 /\ r.v < 0) /\ (i > h - 1 => l.v > 0 /\ r.v > 0)
      BY <1>2 DEF i
    <3> QED BY <1>2, <1>3, <3>2, <3>3, <3>4
  <2> QED BY <1>1, <1>8, <2>1 DEF ExactIn, i
<1> QED BY <1>7, <1>8

LEMMA SubtractExact ==
  ASSUME NEW l, NEW r, IntegerPair(l, r)
  PROVE  ExactIn(SubtractValue(l, r), Wider(l, r), l.v - r.v)
<1> DEFINE t == Wider(l, r)
           h == Half(t)
           i == l.v - r.v
           w == Expression(l, r, i)
           res == Value(t, w)
           bad == \/ FitsNeither(l, r, w)
                  \/ l.v > 0 /\ r.v < 0 /\ res.v < 0
                  \/ l.v < 0 /\ r.v > 0 /\ res.v > 0
<1>1. SubtractValue(l, r) = IF bad THEN Error("OUT_OF_RANGE") ELSE res
  BY DEF SubtractValue
<1>2. /\ l.type \in Integers4 /\ r.type \in Integers4 /\ t \in Integers4
      /\ h \in Nat /\ h >= 2 /\ IntMax(t) = h - 1 /\ IntNull(t) = -h
      /\ l.v \in Int /\ r.v \in Int
      /\ 1 - h <= l.v /\ l.v <= h - 1 /\ 1 - h <= r.v /\ r.v <= h - 1
  BY PairFacts
<1>3. i \in Int /\ -(2 * h) <= i /\ i <= 2 * h - 1 /\ -(2 * h) < i /\ i < 2 * h
  <2> HIDE DEF h
  <2> QED BY <1>2
<1> HIDE DEF i
<1>4. ExpressionType(l, r) = t \/ i \in IntNull(ExpressionType(l, r)) .. IntMax(ExpressionType(l, r))
  BY <1>3, ExpressionFits
<1>5. /\ IsInteger(res) /\ ~IsError(res) /\ res.type = t
      /\ i \in IntNull(t) .. IntMax(t) => ~FitsNeither(l, r, w) /\ res.v = i
      /\ i \notin IntNull(t) .. IntMax(t) =>
            \/ FitsNeither(l, r, w)
            \/ \E k \in Int : k # 0 /\ res.v = i + (2 * h) * k
  BY <1>2, <1>3, <1>4, Overflow
<1>6. res.v \in Int /\ -h <= res.v /\ res.v <= h - 1
  BY <1>2, <1>5, IntegerFacts
<1> HIDE DEF res, h, w
<1>7. CASE i \in IntNull(t) .. IntMax(t)
  <2>1. ~bad
    <3>1. (l.v > 0 /\ r.v < 0 => i > 0) /\ (l.v < 0 /\ r.v > 0 => i < 0)
      BY <1>2 DEF i
    <3>2. res.v = i /\ ~FitsNeither(l, r, w)
      BY <1>5, <1>7, Zenon
    <3> QED BY <1>3, <3>1, <3>2
  <2> QED BY <1>1, <1>5, <1>7, <2>1 DEF ExactIn, i
<1>8. CASE i \notin IntNull(t) .. IntMax(t)
  <2>1. bad
    <3> SUFFICES ASSUME ~FitsNeither(l, r, w) PROVE bad
      OBVIOUS
    <3>1. PICK k \in Int : res.v = i + (2 * h) * k
      BY <1>5, <1>8
    <3>2. i < -h \/ i > h - 1
      BY <1>2, <1>3, <1>8
    <3>3. (i < 0 => res.v > 0) /\ (i > 0 => res.v < 0)
      BY <1>2, <1>3, <1>6, <3>1, <3>2, WrapsOnce
    <3>4. (i < -h => l.v < 0 /\ r.v > 0) /\ (i > h - 1 => l.v > 0 /\ r.v < 0)
      BY <1>2 DEF i
    <3> QED BY <1>2, <1>3, <3>2, <3>3, <3>4
  <2> QED BY <1>1, <1>8, <2>1 DEF ExactIn, i
<1> QED BY <1>7, <1>8

LEMMA MultiplyExact ==
  ASSUME NEW l, NEW r, IntegerPair(l, r)
  PROVE  ExactIn(MultiplyValue(l, r), Wider(l, r), l.v * r.v)
<1> DEFINE t == Wider(l, r)
           h == Half(t)
           i == l.v * r.v
           w == Expression(l, r, i)
           res == Value(t, w)
           bad == FitsNeither(l, r, w) \/ (r.v # 0 /\ Trunc(res.v, r.v) # l.v)
<1>1. MultiplyValue(l, r) = IF bad THEN Error("OUT_OF_RANGE") ELSE res
  BY DEF MultiplyValue
<1>2. /\ l.type \in Integers4 /\ r.type \in Integers4 /\ t \in Integers4
      /\ h \in Nat /\ h >= 2 /\ IntMax(t) = h - 1 /\ IntNull(t) = -h
      /\ l.v \in Int /\ r.v \in Int
      /\ 1 - h <= l.v /\ l.v <= h - 1 /\ 1 - h <= r.v /\ r.v <= h - 1
  BY PairFacts
<1>3. i \in Int /\ -(h * h) <= i /\ i <= h * h
  <2>1. ASSUME NEW a \in Int, NEW b \in Int, NEW n \in Nat, -n <= a, a <= n, -n <= b, b <= n
        PROVE  -(n * n) <= a * b /\ a * b <= n * n
    <3> DEFINE A == Abs(a)
               B == Abs(b)
    <3>1. A \in Nat /\ B \in Nat /\ A <= n /\ B <= n /\ (a = A \/ a = -A) /\ (b = B \/ b = -B)
      BY <2>1 DEF Abs
    <3> HIDE DEF A, B
    <3>2. A * B <= n * n /\ A * B \in Nat /\ n * n \in Nat
      <4>1. A * B <= n * B
        BY <3>1
      <4>2. n * B <= n * n
        BY <3>1
      <4> QED BY <3>1, <4>1, <4>2
    <3>3. a * b = A * B \/ a * b = -(A * B)
      BY <3>1, Products
    <3> DEFINE p == A * B
               q == a * b
               nn == n * n
    <3> HIDE DEF p, q, nn
    <3>4. p \in Nat /\ nn \in Nat /\ p <= nn /\ (q = p \/ q = -p)
      BY <3>2, <3>3 DEF p, q, nn
    <3>5. -nn <= q /\ q <= nn
      BY <3>4
    <3> QED BY <3>5 DEF q, nn
  <2>2. -h <= l.v /\ l.v <= h /\ -h <= r.v /\ r.v <= h
    <3> HIDE DEF h
    <3> QED BY <1>2
  <2> HIDE DEF h
  <2> QED BY <1>2, <2>1, <2>2
<1> HIDE DEF i
<1>4. ExpressionType(l, r) = t \/ i \in IntNull(ExpressionType(l, r)) .. IntMax(ExpressionType(l, r))
  BY <1>3, ExpressionFits
<1>5. /\ IsInteger(res) /\ ~IsError(res) /\ res.type = t
      /\ i \in IntNull(t) .. IntMax(t) => ~FitsNeither(l, r, w) /\ res.v = i
      /\ i \notin IntNull(t) .. IntMax(t) =>
            \/ FitsNeither(l, r, w)
            \/ \E k \in Int : k # 0 /\ res.v = i + (2 * h) * k
  BY <1>2, <1>3, <1>4, Overflow, Zenon, ZenonT(30)
<1>6. res.v \in Int
  BY <1>5, IntegerFacts
<1> HIDE DEF res, h, w
<1>7. CASE i \in IntNull(t) .. IntMax(t)
  <2>1. ~bad
    <3>1. r.v # 0 => Trunc(i, r.v) = l.v
      BY <1>2, TruncOfProduct, Zenon, ZenonT(30) DEF i
    <3> QED BY <1>5, <1>7, <3>1
  <2> QED BY <1>1, <1>5, <1>7, <2>1 DEF ExactIn, i
<1>8. CASE i \notin IntNull(t) .. IntMax(t)
  <2>1. bad
    <3> SUFFICES ASSUME ~FitsNeither(l, r, w) PROVE r.v # 0 /\ Trunc(res.v, r.v) # l.v
      OBVIOUS
    <3>1. PICK k \in Int : k # 0 /\ res.v = i + (2 * h) * k
      BY <1>5, <1>8
    <3>2. r.v # 0
      <4> SUFFICES ASSUME r.v = 0 PROVE FALSE
        OBVIOUS
      <4>1. i = 0
        BY <1>2 DEF i
      <4> QED BY <1>2, <1>8, <4>1
    <3>3. PICK d \in Nat : /\ d < Abs(r.v)
                           /\ res.v - Trunc(res.v, r.v) * r.v = IF res.v < 0 THEN -d ELSE d
      BY <1>2, <1>6, <3>2, TruncFacts, Zenon, ZenonT(30)
    <3>4. Abs(r.v) <= h - 1 /\ Abs(r.v) \in Nat
      BY <1>2 DEF Abs
    <3> DEFINE mk == (2 * h) * k
    <3>5. mk \in Int /\ (mk >= 2 * h \/ mk <= -(2 * h))
      <4>1. \A n \in Nat : (k >= 1 => n * k >= n) /\ (k <= -1 => n * k <= -n)
        OBVIOUS
      <4>2. 2 * h \in Nat /\ (k >= 1 \/ k <= -1)
        BY <1>2, <3>1
      <4> QED BY <4>1, <4>2
    <3>6. res.v = i + mk
      BY <3>1
    <3> HIDE DEF mk
    <3> SUFFICES ASSUME Trunc(res.v, r.v) = l.v PROVE FALSE
      BY <3>2
    <3>7. res.v - i = IF res.v < 0 THEN -d ELSE d
      BY <3>3 DEF i
    <3> QED BY <1>2, <1>3, <1>6, <3>3, <3>4, <3>5, <3>6, <3>7
  <2> QED BY <1>1, <1>8, <2>1 DEF ExactIn, i
<1> QED BY <1>7, <1>8

\* A quotient and a remainder are never larger than what is divided.
LEMMA DivideExact ==
  ASSUME NEW l, NEW r, IntegerPair(l, r), r.v # 0
  PROVE  /\ ExactIn(DivideValue(l, r), Wider(l, r), Trunc(l.v, r.v))
         /\ ExactIn(ModuloValue(l, r), Wider(l, r), l.v - Trunc(l.v, r.v) * r.v)
<1> DEFINE t == Wider(l, r)
           h == Half(t)
<1>1. /\ l.type \in Integers4 /\ r.type \in Integers4 /\ t \in Integers4
      /\ h \in Nat /\ h >= 2 /\ IntMax(t) = h - 1 /\ IntNull(t) = -h
      /\ l.v \in Int /\ r.v \in Int
      /\ 1 - h <= l.v /\ l.v <= h - 1 /\ 1 - h <= r.v /\ r.v <= h - 1
  BY PairFacts
<1> HIDE DEF h, t
<1>2. Abs(l.v) \in Nat /\ Abs(l.v) <= h - 1
  BY <1>1 DEF Abs
<1>3. ASSUME NEW i \in Int, -Abs(l.v) <= i, i <= Abs(l.v) PROVE ExactIn(Value(t, i), t, i)
  <2>1. i \in IntNull(t) .. IntMax(t)
    BY <1>1, <1>2, <1>3
  <2>2. IsInteger(Value(t, i)) /\ Value(t, i).type = t /\ Value(t, i).v = i
    BY <1>1, <2>1, ValueMakes, Wraps, Zenon, ZenonT(30)
  <2> QED BY <2>1, <2>2, IntegerFacts DEF ExactIn
<1>4. Trunc(l.v, r.v) \in Int /\ -Abs(l.v) <= Trunc(l.v, r.v) /\ Trunc(l.v, r.v) <= Abs(l.v)
  BY <1>1, TruncFacts, Zenon
<1>5. PICK d \in Nat : d <= Abs(l.v) /\ l.v - Trunc(l.v, r.v) * r.v = IF l.v < 0 THEN -d ELSE d
  BY <1>1, TruncFacts, Zenon
<1> DEFINE m == l.v - Trunc(l.v, r.v) * r.v
<1>6. m \in Int /\ -Abs(l.v) <= m /\ m <= Abs(l.v)
  BY <1>2, <1>5
<1>7. DivideValue(l, r) = Value(t, Trunc(l.v, r.v)) /\ ModuloValue(l, r) = Value(t, m)
  BY DEF DivideValue, ModuloValue, t
<1> HIDE DEF m
<1>8. ExactIn(DivideValue(l, r), t, Trunc(l.v, r.v)) /\ ExactIn(ModuloValue(l, r), t, m)
  BY <1>3, <1>4, <1>6, <1>7
<1> QED BY <1>8 DEF m, t

\* The NULL of the type that an operation on two integer types has.
NullResult(l, r) ==
  CASE l.type = "TINYINT" -> TinyintOperateNull(r)
    [] l.type = "SMALLINT" -> SmallintOperateNull(r)
    [] l.type = "INTEGER" -> IntegerTypeOperateNull(r)
    [] l.type = "BIGINT" -> BigintOperateNull(r)

LEMMA ArithmeticOfNumbers ==
  ASSUME NEW l, NEW r, IsNumber(l), IsNumber(r), NEW op
  PROVE  /\ CheckComparable(l, r)
         /\ l.type \in Integers4 => Arithmetic(op, l, r) = IntegerArithmetic(op, l, r, r, NullResult(l, r))
         /\ l.type = "DECIMAL" => Arithmetic(op, l, r) = DecimalArithmetic(op, l, r, r)
<1>1. /\ l.type \in Numeric /\ l.type # "BOOLEAN" /\ l.type # "VARCHAR"
      /\ r.type \in Numeric /\ r.type # "BOOLEAN" /\ r.type # "VARCHAR"
  BY NumberFacts
<1>2. Arithmetic(op, l, r) = ArithmeticWith(op, l, r, r)
  BY <1>1 DEF Arithmetic, RightOperand
<1>3. CheckComparable(l, r)
  BY <1>1 DEF CheckComparable
<1>4. CASE l.type = "DECIMAL"
  BY <1>2, <1>3, <1>4 DEF ArithmeticWith, Integers4
<1>5. CASE l.type \in Integers4
  BY <1>2, <1>3, <1>5, Zenon, ZenonT(30) DEF ArithmeticWith, Integers4, NullResult, TinyintArithmetic,
     SmallintArithmetic, IntegerTypeArithmetic, BigintArithmetic
<1> QED BY <1>1, <1>3, <1>4, <1>5 DEF Numeric

LEMMA ArithmeticOfIntegers ==
  ASSUME NEW l, NEW r, IntegerPair(l, r), NEW op
  PROVE  Arithmetic(op, l, r) = IF op \in {"/", "%"} /\ r.v = 0 THEN Error("DIVIDE_BY_ZERO")
                                ELSE Method(op, l, r)
<1>1. IsNumber(l) /\ IsNumber(r) /\ l.type \in Integers4 /\ r.type # "DECIMAL" /\ r.type # "VARCHAR" /\ ~IsError(r)
  BY IntegerFacts DEF IntegerPair, IsNumber
<1>2. Arithmetic(op, l, r) = IntegerArithmetic(op, l, r, r, NullResult(l, r)) /\ CheckComparable(l, r)
  BY <1>1, ArithmeticOfNumbers
<1> QED BY <1>1, <1>2 DEF IntegerArithmetic, IntegerPair, ZeroDivisor

LEMMA MethodExact ==
  ASSUME NEW l, NEW r, IntegerPair(l, r), NEW op \in Operators, op \in {"/", "%"} => r.v # 0
  PROVE  ExactIn(Method(op, l, r), Wider(l, r), Exact(op, l.v, r.v))
<1>1. CASE op = "+"
  <2>1. Method(op, l, r) = AddValue(l, r) /\ Exact(op, l.v, r.v) = l.v + r.v
    BY <1>1 DEF Method, Exact
  <2> QED BY <2>1, AddExact
<1>2. CASE op = "-"
  <2>1. Method(op, l, r) = SubtractValue(l, r) /\ Exact(op, l.v, r.v) = l.v - r.v
    BY <1>2 DEF Method, Exact
  <2> QED BY <2>1, SubtractExact
<1>3. CASE op = "*"
  <2>1. Method(op, l, r) = MultiplyValue(l, r) /\ Exact(op, l.v, r.v) = l.v * r.v
    BY <1>3 DEF Method, Exact
  <2> QED BY <2>1, MultiplyExact
<1>4. CASE op = "/"
  <2>1. Method(op, l, r) = DivideValue(l, r) /\ Exact(op, l.v, r.v) = Trunc(l.v, r.v)
    BY <1>4 DEF Method, Exact
  <2> QED BY <1>4, <2>1, DivideExact
<1>5. CASE op = "%"
  <2>1. Method(op, l, r) = ModuloValue(l, r) /\ Exact(op, l.v, r.v) = l.v - Trunc(l.v, r.v) * r.v
    BY <1>5 DEF Method, Exact
  <2> QED BY <1>5, <2>1, DivideExact
<1> QED BY <1>1, <1>2, <1>3, <1>4, <1>5 DEF Operators

LEMMA InvArithmeticExact == ValuesInv => ArithmeticExact
<1> SUFFICES ASSUME ValuesInv, BothIntegers, NoNull, NEW op \in Operators
             PROVE  LET res == Arithmetic(op, left, right)
                        t == Wider(left, right)
                    IN  IF op \in {"/", "%"} /\ right.v = 0 THEN res = Error("DIVIDE_BY_ZERO")
                        ELSE LET x == Exact(op, left.v, right.v)
                             IN  /\ x \in IntMin(t)..IntMax(t) => ~IsError(res) /\ res.type = t /\ res.v = x
                                 /\ x \notin IntNull(t)..IntMax(t) => res = Error("OUT_OF_RANGE")
  BY DEF ArithmeticExact
<1>1. IntegerPair(left, right)
  BY NumericValues DEF ValuesInv, BothIntegers, NoNull, IntegerPair
<1>2. CASE op \in {"/", "%"} /\ right.v = 0
  BY <1>1, <1>2, ArithmeticOfIntegers
<1>3. CASE ~(op \in {"/", "%"} /\ right.v = 0)
  <2>1. Arithmetic(op, left, right) = Method(op, left, right)
    BY <1>1, <1>3, ArithmeticOfIntegers
  <2>2. ExactIn(Method(op, left, right), Wider(left, right), Exact(op, left.v, right.v))
    BY <1>1, <1>3, MethodExact
  <2>3. Wider(left, right) \in Integers4
    BY DEF BothIntegers, Wider
  <2>4. IntMin(Wider(left, right))..IntMax(Wider(left, right))
          \subseteq IntNull(Wider(left, right))..IntMax(Wider(left, right))
    BY <2>3, Limits
  <2> QED BY <1>3, <2>1, <2>2, <2>4 DEF ExactIn
<1> QED BY <1>2, <1>3

\* The type of an operation follows from the types of its operands.
ResultType(l, r) ==
  IF "DECIMAL" \in {l.type, r.type} THEN "DECIMAL" ELSE Wider(l, r)

LEMMA NullValues ==
  ASSUME NEW t \in Numeric
  PROVE  /\ IsNumber(GetNullValueByType(t)) /\ ~IsError(GetNullValueByType(t))
         /\ GetNullValueByType(t).null = TRUE /\ GetNullValueByType(t).type = t
<1>1. GetNullValueByType(t) = Holding(t, NullOf(t))
  BY DEF GetNullValueByType, Numeric, Integers4
<1>2. IsNumber(Holding(t, NullOf(t)))
  <2>1. CASE t \in Integers4
    <3>1. NullOf(t) \in IntNull(t) .. IntMax(t)
      BY <2>1, Limits DEF NullOf, Integers4
    <3> QED BY <2>1, <3>1 DEF IsNumber, IsInteger
  <2>2. CASE t = "DECIMAL"
    <3>1. NullOf("DECIMAL") \in Int
      BY Limits, Widths DEF NullOf, DecimalNull
    <3> QED BY <2>2, <3>1 DEF IsNumber, IsDecimal
  <2> QED BY <2>1, <2>2 DEF Numeric
<1>3. Holding(t, NullOf(t)).null = TRUE /\ Holding(t, NullOf(t)).type = t
  BY Zenon DEF Holding
<1> QED BY <1>1, <1>2, <1>3, NumberFacts

LEMMA OperateNullTypes ==
  ASSUME NEW l, NEW r, l.type \in Integers4, r.type \in Numeric
  PROVE  NullResult(l, r) = GetNullValueByType(ResultType(l, r))
<1> DEFINE T == Bits["TINYINT"]
           S == Bits["SMALLINT"]
           I == Bits["INTEGER"]
           B == Bits["BIGINT"]
<1>1. T \in Nat /\ S \in Nat /\ I \in Nat /\ B \in Nat /\ T < S /\ S < I /\ I < B
  BY Limits, Widths
<1>2. CASE l.type = "TINYINT"
  <2>1. NullResult(l, r) = GetNullValueByType(r.type)
    BY <1>2, Zenon DEF NullResult, TinyintOperateNull, OperateNull
  <2>2. ResultType(l, r) = r.type
    BY <1>1, <1>2 DEF ResultType, Wider, Numeric, Integers4
  <2> QED BY <2>1, <2>2
<1>3. ASSUME NEW K, NEW t \in K, t # "DECIMAL", K \subseteq Numeric, r.type \notin K, r.type \in Integers4,
             \A s \in K \ {"DECIMAL"} : s = t \/ Bits[t] < Bits[s], l.type = t, Bits[r.type] < Bits[t]
      PROVE  OperateNull(r, K) = GetNullValueByType(ResultType(l, r))
  <2> DEFINE C == CHOOSE c \in K \ {"DECIMAL"} : \A s \in K \ {"DECIMAL"} : Bits[c] <= Bits[s]
  <2>1. \A s \in K \ {"DECIMAL"} : Bits[s] \in Nat
    BY <1>3, Limits DEF Numeric
  <2>2. \A s \in K \ {"DECIMAL"} : Bits[t] <= Bits[s]
    BY <1>3, <2>1
  <2>3. C \in K \ {"DECIMAL"} /\ \A s \in K \ {"DECIMAL"} : Bits[C] <= Bits[s]
    BY <1>3, <2>2, Zenon
  <2>4. C = t
    <3> HIDE DEF C
    <3> QED BY <1>3, <2>1, <2>3
  <2>5. OperateNull(r, K) = GetNullValueByType(C)
    BY <1>3, Zenon, ZenonT(30) DEF OperateNull
  <2>6. ResultType(l, r) = t
    BY <1>3, Limits DEF ResultType, Wider, Integers4
  <2> HIDE DEF C
  <2> QED BY <2>4, <2>5, <2>6
<1>4. ASSUME NEW K, r.type \in K, r.type = "DECIMAL" \/ r.type = l.type \/ Bits[l.type] < Bits[r.type]
      PROVE  OperateNull(r, K) = GetNullValueByType(ResultType(l, r))
  <2>1. OperateNull(r, K) = GetNullValueByType(r.type)
    BY <1>4, Zenon DEF OperateNull
  <2>2. l.type # "DECIMAL"
    BY DEF Integers4
  <2>3. r.type # "DECIMAL" => Bits[l.type] \in Nat /\ Bits[r.type] \in Nat
    BY Limits DEF Numeric
  <2>4. ResultType(l, r) = r.type
    BY <1>4, <2>2, <2>3 DEF ResultType, Wider
  <2> QED BY <2>1, <2>4
<1>5. CASE l.type = "SMALLINT"
  <2> DEFINE K == Numeric \ {"TINYINT"}
  <2>1. NullResult(l, r) = OperateNull(r, K)
    BY <1>5 DEF NullResult, SmallintOperateNull
  <2>2. CASE r.type = "TINYINT"
    <3>1. /\ "SMALLINT" \in K /\ "SMALLINT" # "DECIMAL" /\ K \subseteq Numeric /\ r.type \notin K
          /\ r.type \in Integers4 /\ Bits[r.type] < Bits["SMALLINT"]
          /\ \A s \in K \ {"DECIMAL"} : s = "SMALLINT" \/ Bits["SMALLINT"] < Bits[s]
      BY <1>1, <2>2 DEF Numeric, Integers4
    <3> HIDE DEF K
    <3>2. OperateNull(r, K) = GetNullValueByType(ResultType(l, r))
      BY <1>3, <1>5, <3>1
    <3> QED BY <2>1, <3>2
  <2>3. CASE r.type # "TINYINT"
    <3>1. r.type \in K /\ (r.type = "DECIMAL" \/ r.type = l.type \/ Bits[l.type] < Bits[r.type])
      BY <1>1, <1>5, <2>3 DEF Numeric, Integers4
    <3> HIDE DEF K
    <3>2. OperateNull(r, K) = GetNullValueByType(ResultType(l, r))
      BY <1>4, <3>1
    <3> QED BY <2>1, <3>2
  <2> QED BY <2>2, <2>3
<1>6. CASE l.type = "INTEGER"
  <2> DEFINE K == {"INTEGER", "BIGINT", "DECIMAL"}
  <2>1. NullResult(l, r) = OperateNull(r, K)
    BY <1>6 DEF NullResult, IntegerTypeOperateNull
  <2>2. CASE r.type \in {"TINYINT", "SMALLINT"}
    <3>1. /\ "INTEGER" \in K /\ "INTEGER" # "DECIMAL" /\ K \subseteq Numeric /\ r.type \notin K
          /\ r.type \in Integers4 /\ Bits[r.type] < Bits["INTEGER"]
          /\ \A s \in K \ {"DECIMAL"} : s = "INTEGER" \/ Bits["INTEGER"] < Bits[s]
      BY <1>1, <2>2 DEF Numeric, Integers4
    <3> HIDE DEF K
    <3>2. OperateNull(r, K) = GetNullValueByType(ResultType(l, r))
      BY <1>3, <1>6, <3>1
    <3> QED BY <2>1, <3>2
  <2>3. CASE r.type \notin {"TINYINT", "SMALLINT"}
    <3>1. r.type \in K /\ (r.type = "DECIMAL" \/ r.type = l.type \/ Bits[l.type] < Bits[r.type])
      BY <1>1, <1>6, <2>3 DEF Numeric, Integers4
    <3> HIDE DEF K
    <3>2. OperateNull(r, K) = GetNullValueByType(ResultType(l, r))
      BY <1>4, <3>1
    <3> QED BY <2>1, <3>2
  <2> QED BY <2>2, <2>3
<1>7. CASE l.type = "BIGINT"
  <2> DEFINE K == {"BIGINT", "DECIMAL"}
  <2>1. NullResult(l, r) = OperateNull(r, K)
    BY <1>7 DEF NullResult, BigintOperateNull
  <2>2. CASE r.type \in {"TINYINT", "SMALLINT", "INTEGER"}
    <3>1. /\ "BIGINT" \in K /\ "BIGINT" # "DECIMAL" /\ K \subseteq Numeric /\ r.type \notin K
          /\ r.type \in Integers4 /\ Bits[r.type] < Bits["BIGINT"]
          /\ \A s \in K \ {"DECIMAL"} : s = "BIGINT" \/ Bits["BIGINT"] < Bits[s]
      BY <1>1, <2>2 DEF Numeric, Integers4
    <3> HIDE DEF K
    <3>2. OperateNull(r, K) = GetNullValueByType(ResultType(l, r))
      BY <1>3, <1>7, <3>1
    <3> QED BY <2>1, <3>2
  <2>3. CASE r.type \notin {"TINYINT", "SMALLINT", "INTEGER"}
    <3>1. r.type \in K /\ (r.type = "DECIMAL" \/ r.type = l.type \/ Bits[l.type] < Bits[r.type])
      BY <1>1, <1>7, <2>3 DEF Numeric, Integers4
    <3> HIDE DEF K
    <3>2. OperateNull(r, K) = GetNullValueByType(ResultType(l, r))
      BY <1>4, <3>1
    <3> QED BY <2>1, <3>2
  <2> QED BY <2>2, <2>3
<1> QED BY <1>2, <1>5, <1>6, <1>7 DEF Integers4

LEMMA ResultTypeNumeric ==
  ASSUME NEW l, NEW r, l.type \in Numeric, r.type \in Numeric
  PROVE  ResultType(l, r) \in Numeric
BY DEF ResultType, Wider, Numeric

\* An operation with a NULL gives the NULL of the type of its result.
LEMMA ArithmeticOfNull ==
  ASSUME NEW l, NEW r, IsNumber(l), IsNumber(r), l.null \/ r.null, NEW op
  PROVE  Arithmetic(op, l, r) = GetNullValueByType(ResultType(l, r))
<1>1. l.type \in Numeric /\ r.type \in Numeric /\ (l.type \in Integers4 <=> l.type # "DECIMAL")
  BY NumberFacts
<1>2. CASE l.type = "DECIMAL"
  BY <1>2, ArithmeticOfNumbers DEF DecimalArithmetic, ResultType
<1>3. CASE l.type # "DECIMAL"
  <2>1. NullResult(l, r) = GetNullValueByType(ResultType(l, r))
    BY <1>1, <1>3, OperateNullTypes
  <2> QED BY <1>1, <1>3, <2>1, ArithmeticOfNumbers DEF IntegerArithmetic
<1> QED BY <1>2, <1>3

\* Zero minus zero has the type that any operation on two types has.
LEMMA DifferenceOfZeros ==
  ASSUME NEW l, NEW r, IsNumber(l), IsNumber(r),
         l = IF l.type = "DECIMAL" THEN DecimalValue(0) ELSE Value(l.type, 0),
         r = IF r.type = "DECIMAL" THEN DecimalValue(0) ELSE Value(r.type, 0)
  PROVE  Arithmetic("-", l, r).type = ResultType(l, r)
<1>1. /\ l.type \in Numeric /\ (l.type \in Integers4 <=> l.type # "DECIMAL") /\ ~IsError(l)
      /\ r.type \in Numeric /\ (r.type \in Integers4 <=> r.type # "DECIMAL") /\ ~IsError(r)
  BY NumberFacts
<1>2. ASSUME NEW x, IsNumber(x), x = IF x.type = "DECIMAL" THEN DecimalValue(0) ELSE Value(x.type, 0)
      PROVE  ~x.null /\ x.v = 0
  <2>1. CASE x.type = "DECIMAL"
    <3>1. x = Holding("DECIMAL", 0) /\ NullOf("DECIMAL") # 0
      BY <1>2, <2>1, Limits, Widths DEF DecimalValue, NullOf, DecimalNull
    <3> QED BY <3>1, Zenon, ZenonT(30) DEF Holding
  <2>2. CASE x.type # "DECIMAL"
    <3>1. x.type \in Integers4 /\ IsInteger(x)
      BY <1>2, <2>2, NumberFacts
    <3>2. 0 \in IntNull(x.type) .. IntMax(x.type) /\ 0 # IntNull(x.type)
      BY <3>1, Limits
    <3>3. x.v = 0
      BY <1>2, <2>2, <3>1, <3>2, ValueMakes, Wraps
    <3> QED BY <3>1, <3>2, <3>3, IntegerFacts
  <2> QED BY <2>1, <2>2
<1>3. ~l.null /\ ~r.null /\ l.v = 0 /\ r.v = 0
  BY <1>2
<1>4. CASE l.type = "DECIMAL"
  <2>1. Arithmetic("-", l, r) = DecimalArithmetic("-", l, r, r) /\ CheckComparable(l, r)
    BY <1>4, ArithmeticOfNumbers
  <2>2. Arithmetic("-", l, r) = DecimalValue(DoubleOp("-", l.v, AsDouble(r)))
    BY <1>1, <1>3, <2>1 DEF DecimalArithmetic, ZeroDivisor
  <2> QED BY <1>4, <2>2 DEF DecimalValue, Holding, ResultType
<1>5. CASE l.type # "DECIMAL" /\ r.type = "DECIMAL"
  <2>1. Arithmetic("-", l, r) = IntegerArithmetic("-", l, r, r, NullResult(l, r)) /\ CheckComparable(l, r)
    BY <1>1, <1>5, ArithmeticOfNumbers
  <2>2. Arithmetic("-", l, r) = DecimalValue(DoubleOp("-", Double(l.v), r.v))
    BY <1>1, <1>3, <1>5, <2>1 DEF IntegerArithmetic, ZeroDivisor
  <2> QED BY <1>5, <2>2 DEF DecimalValue, Holding, ResultType
<1>6. CASE l.type # "DECIMAL" /\ r.type # "DECIMAL"
  <2>1. IntegerPair(l, r)
    BY <1>3, <1>6, NumberFacts DEF IntegerPair
  <2>2. Arithmetic("-", l, r) = SubtractValue(l, r)
    BY <2>1, ArithmeticOfIntegers DEF Method
  <2>3. 0 \in IntNull(Wider(l, r)) .. IntMax(Wider(l, r)) /\ l.v - r.v = 0
    BY <1>3, <2>1, PairFacts
  <2> QED BY <1>6, <2>1, <2>2, <2>3, SubtractExact DEF ExactIn, ResultType
<1> QED BY <1>4, <1>5, <1>6

LEMMA InvNullKeepsType == ValuesInv => NullKeepsType
<1> DEFINE zero(x) == IF x.type = "DECIMAL" THEN DecimalValue(0) ELSE Value(x.type, 0)
<1> SUFFICES ASSUME ValuesInv, BothNumeric, ~NoNull, NEW op \in Operators
             PROVE  LET res == Arithmetic(op, left, right)
                        other == Arithmetic("-", zero(left), zero(right))
                    IN  ~IsError(res) /\ res.null /\ res.type = other.type
  BY DEF NullKeepsType
<1>1. IsNumber(left) /\ IsNumber(right) /\ left.type \in Numeric /\ right.type \in Numeric
  BY NumericValues DEF ValuesInv, BothNumeric
<1>2. ASSUME NEW x, IsNumber(x) PROVE IsNumber(zero(x)) /\ zero(x).type = x.type
  <2>1. CASE x.type = "DECIMAL"
    BY <2>1 DEF IsNumber, IsDecimal, DecimalValue, Holding
  <2>2. CASE x.type # "DECIMAL"
    <3>1. x.type \in Integers4
      BY <1>2, <2>2, NumberFacts
    <3>2. IsInteger(zero(x)) /\ zero(x).type = x.type
      BY <2>2, <3>1, ValueMakes
    <3> HIDE DEF zero
    <3> QED BY <3>2 DEF IsNumber
  <2> QED BY <2>1, <2>2
<1> DEFINE l == zero(left)
           r == zero(right)
<1>3. /\ IsNumber(l) /\ l.type = left.type /\ l = zero(l)
      /\ IsNumber(r) /\ r.type = right.type /\ r = zero(r)
  <2>1. IsNumber(l) /\ l.type = left.type /\ IsNumber(r) /\ r.type = right.type
    BY <1>1, <1>2
  <2>2. \A x, y : x.type = y.type => zero(x) = zero(y)
    OBVIOUS
  <2> HIDE DEF zero
  <2>3. zero(left) = zero(l) /\ zero(right) = zero(r)
    BY <2>1, <2>2
  <2> QED BY <2>1, <2>3
<1>4. ResultType(l, r) = ResultType(left, right)
  BY <1>3 DEF ResultType, Wider
<1>5. Arithmetic("-", l, r).type = ResultType(left, right)
  <2> HIDE DEF l, r
  <2> QED BY <1>3, <1>4, DifferenceOfZeros
<1>6. Arithmetic(op, left, right) = GetNullValueByType(ResultType(left, right))
  BY <1>1, ArithmeticOfNull DEF NoNull
<1> QED BY <1>1, <1>5, <1>6, NullValues, ResultTypeNumeric, Zenon, ZenonT(30)

-----------------------------------------------------------------------------
(* Texts: what is printed and what is read. *)

DigitCodes == 2 .. 11

LEMMA LargerSeq ==
  ASSUME NEW S, NEW T, S \subseteq T, NEW s \in Seq(S)
  PROVE  s \in Seq(T)
<1>1. Len(s) \in Nat /\ \A k \in 1 .. Len(s) : s[k] \in T
  OBVIOUS
<1>2. s = [k \in 1 .. Len(s) |-> s[k]]
  OBVIOUS
<1> QED BY <1>1, <1>2

LEMMA EqualSeqs ==
  ASSUME NEW S, NEW s \in Seq(S), NEW t \in Seq(S), Len(s) = Len(t), \A k \in 1 .. Len(s) : s[k] = t[k]
  PROVE  s = t
<1>1. s = [k \in 1 .. Len(s) |-> s[k]] /\ t = [k \in 1 .. Len(t) |-> t[k]]
  OBVIOUS
<1> QED BY <1>1, Zenon

LEMMA Singleton ==
  ASSUME NEW S, NEW c \in S
  PROVE  <<c>> \in Seq(S) /\ Len(<<c>>) = 1
OBVIOUS

LEMMA Appended ==
  ASSUME NEW S, NEW s \in Seq(S), NEW c \in S
  PROVE  s \o <<c>> \in Seq(S) /\ Len(s \o <<c>>) = Len(s) + 1 /\ Len(s) \in Nat
OBVIOUS

LEMMA DigitsFacts ==
  /\ \A n \in Nat : Digits[n] = IF n < 10 THEN <<2 + n>> ELSE Digits[n \div 10] \o <<2 + (n % 10)>>
  /\ \A n \in Nat : Digits[n] \in Seq(DigitCodes) /\ Len(Digits[n]) >= 1
<1> DEFINE X == Seq(DigitCodes)
           B == 0 .. 9
           base == [n \in Nat |-> IF n < 10 THEN <<2 + n>> ELSE <<2>>]
           step == [n \in Nat |-> [x \in X |-> x \o <<2 + (n % 10)>>]]
           prev == [n \in Nat |-> n \div 10]
           Rec(f) == f = [n \in Nat |-> IF n < 10 THEN <<2 + n>> ELSE f[n \div 10] \o <<2 + (n % 10)>>]
           dig == CHOOSE f : Rec(f)
<1>1. \A n \in Nat : n \div 10 \in Nat /\ n % 10 \in 0 .. 9 /\ n = 10 * (n \div 10) + (n % 10)
      /\ (n >= 10 => n \div 10 < n)
  OBVIOUS
<1>2. PICK f \in [Nat -> X] : \A n \in Nat : Recurs(f, n, B, base, step, prev)
  <2>1. base \in [Nat -> X]
    <3>1. ASSUME NEW n \in Nat PROVE base[n] \in X
      <4>1. CASE n < 10
        <5>1. 2 + n \in DigitCodes
          BY <4>1 DEF DigitCodes
        <5> QED BY <4>1, <5>1
      <4>2. CASE ~(n < 10)
        <5>1. 2 \in DigitCodes
          BY DEF DigitCodes
        <5> QED BY <4>2, <5>1
      <4> QED BY <4>1, <4>2
    <3> QED BY <3>1
  <2>2. step \in [Nat -> [X -> X]]
    <3>1. ASSUME NEW n \in Nat, NEW x \in X PROVE x \o <<2 + (n % 10)>> \in X
      <4>1. 2 + (n % 10) \in DigitCodes
        BY <1>1 DEF DigitCodes
      <4> QED BY <4>1
    <3> QED BY <3>1
  <2>3. prev \in [Nat -> Nat] /\ \A n \in Nat \ B : prev[n] < n
    BY <1>1
  <2> HIDE DEF X, B, base, step, prev
  <2> QED BY <2>1, <2>2, <2>3, Recursion, Zenon
<1>3. Rec(f)
  <2>1. ASSUME NEW n \in Nat PROVE f[n] = IF n < 10 THEN <<2 + n>> ELSE f[n \div 10] \o <<2 + (n % 10)>>
    <3>1. Recurs(f, n, B, base, step, prev)
      BY <1>2, Zenon
    <3>2. CASE n < 10
      <4>1. n \in B /\ base[n] = <<2 + n>>
        BY <3>2
      <4> HIDE DEF B, base, step, prev, X
      <4> QED BY <3>1, <3>2, <4>1 DEF Recurs
    <3>3. CASE ~(n < 10)
      <4>1. n \notin B /\ prev[n] = n \div 10 /\ f[n \div 10] \in X
        BY <1>1, <1>2, <3>3
      <4>2. step[n][f[n \div 10]] = f[n \div 10] \o <<2 + (n % 10)>>
        BY <4>1, Zenon
      <4> HIDE DEF B, base, step, prev, X
      <4> QED BY <3>1, <3>3, <4>1, <4>2 DEF Recurs
    <3> QED BY <3>2, <3>3, Zenon
  <2> QED BY <1>2, <2>1, Zenon
<1>4. Rec(dig)
  BY <1>3, Zenon
<1>5. Digits = dig
  BY Zenon DEF Digits, Digit
<1> HIDE DEF dig
<1>6. \A n \in Nat : dig[n] = IF n < 10 THEN <<2 + n>> ELSE dig[n \div 10] \o <<2 + (n % 10)>>
  BY <1>4, Zenon
<1> DEFINE T == {n \in Nat : dig[n] \in X /\ Len(dig[n]) >= 1}
<1>7. ASSUME NEW n \in Nat, \A m \in Nat : m < n => m \in T PROVE n \in T
  <2>1. CASE n < 10
    <3>1. dig[n] = <<2 + n>>
      BY <1>6, <2>1, Zenon
    <3>2. 2 + n \in DigitCodes
      BY <2>1 DEF DigitCodes
    <3>3. <<2 + n>> \in X /\ Len(<<2 + n>>) = 1
      BY <3>2, Singleton
    <3>4. dig[n] \in X /\ Len(dig[n]) = 1
      BY <3>1, <3>3, Zenon
    <3>5. 1 >= 1
      OBVIOUS
    <3> QED BY <3>4, <3>5, Zenon
  <2>2. CASE ~(n < 10)
    <3>1. n \div 10 \in T /\ 2 + (n % 10) \in DigitCodes
      BY <1>1, <1>7, <2>2 DEF DigitCodes
    <3>2. dig[n] = dig[n \div 10] \o <<2 + (n % 10)>>
      BY <1>6, <2>2, Zenon
    <3>3. dig[n \div 10] \in X
      BY <3>1
    <3> DEFINE c == 2 + (n % 10)
               d == dig[n \div 10]
    <3> HIDE DEF c, d
    <3>4. d \in Seq(DigitCodes) /\ c \in DigitCodes /\ dig[n] = d \o <<c>> /\ Len(d) >= 1
      BY <3>1, <3>2, <3>3, Zenon DEF c, d
    <3>5. d \o <<c>> \in Seq(DigitCodes) /\ Len(d \o <<c>>) = Len(d) + 1 /\ Len(d) \in Nat
      BY <3>4, Appended
    <3>6. dig[n] \in Seq(DigitCodes) /\ Len(dig[n]) = Len(d) + 1
      BY <3>4, <3>5, Zenon
    <3>7. Len(d) + 1 >= 1
      BY <3>5
    <3> QED BY <3>6, <3>7, Zenon
  <2> QED BY <2>1, <2>2
<1>8. Nat \subseteq T
  <2> HIDE DEF T
  <2> QED BY <1>7, StrongInduction
<1> QED BY <1>5, <1>6, <1>8, Zenon

\* u gives the number that the first k digits of s are.
Reads(u, s) == u[0] = 0 /\ \A k \in 1 .. Len(s) : u[k] = 10 * u[k - 1] + (s[k] - 2)

LEMMA NumberIs ==
  ASSUME NEW s \in Seq(Int)
  PROVE  /\ \E u \in [0 .. Len(s) -> Int] : Reads(u, s)
         /\ \A u : Reads(u, s) => Number(s) = u[Len(s)]
<1> DEFINE n == Len(s)
           base == [k \in Nat |-> 0]
           digit(k) == IF k \in 1 .. n THEN s[k] - 2 ELSE 0
           step == [k \in Nat |-> [x \in Int |-> 10 * x + digit(k)]]
           prev == [k \in Nat |-> IF k = 0 THEN 0 ELSE k - 1]
           Rec(f) == f = [k \in 0 .. n |-> IF k = 0 THEN 0 ELSE 10 * f[k - 1] + (s[k] - Digit(0))]
           num == CHOOSE f : Rec(f)
<1>0. n \in Nat /\ Digit(0) = 2 /\ \A k \in 1 .. n : s[k] \in Int
  BY DEF Digit
<1>1. PICK f \in [Nat -> Int] : \A k \in Nat : Recurs(f, k, {0}, base, step, prev)
  <2>1. base \in [Nat -> Int] /\ step \in [Nat -> [Int -> Int]] /\ prev \in [Nat -> Nat]
        /\ \A k \in Nat \ {0} : prev[k] < k
    BY <1>0
  <2> HIDE DEF base, step, prev
  <2> QED BY <2>1, Recursion, Zenon
<1> DEFINE u == [k \in 0 .. n |-> f[k]]
<1>2. u \in [0 .. n -> Int]
  BY <1>0
<1>3. f[0] = 0 /\ \A k \in 1 .. n : f[k] = 10 * f[k - 1] + (s[k] - 2)
  <2>1. f[0] = 0
    BY <1>1, Zenon DEF Recurs
  <2>2. ASSUME NEW k \in 1 .. n PROVE f[k] = 10 * f[k - 1] + (s[k] - 2)
    <3>1. k \in Nat /\ k # 0 /\ k - 1 \in Nat /\ prev[k] = k - 1 /\ digit(k) = s[k] - 2
      BY <1>0
    <3>2. Recurs(f, k, {0}, base, step, prev)
      BY <1>1, <3>1, Zenon
    <3>3. f[k] = step[k][f[k - 1]]
      BY <3>1, <3>2 DEF Recurs
    <3> HIDE DEF digit
    <3>4. step[k][f[k - 1]] = 10 * f[k - 1] + digit(k)
      BY <3>1, Zenon
    <3> QED BY <3>1, <3>3, <3>4
  <2> QED BY <2>1, <2>2
<1>4. Reads(u, s)
  BY <1>0, <1>3 DEF Reads
<1>5. Rec(u)
  <2>1. ASSUME NEW k \in 0 .. n
        PROVE  u[k] = IF k = 0 THEN 0 ELSE 10 * u[k - 1] + (s[k] - Digit(0))
    <3>1. CASE k = 0
      BY <1>3, <3>1
    <3>2. CASE k # 0
      <4>1. k \in 1 .. n /\ k - 1 \in 0 .. n
        BY <1>0, <3>2
      <4>2. u[k] = f[k] /\ u[k - 1] = f[k - 1]
        BY <4>1
      <4> QED BY <1>0, <1>3, <3>2, <4>1, <4>2
    <3> QED BY <3>1, <3>2
  <2>2. u = [k \in 0 .. n |-> u[k]]
    OBVIOUS
  <2> HIDE DEF u
  <2>3. [k \in 0 .. n |-> u[k]] = [k \in 0 .. n |-> IF k = 0 THEN 0 ELSE 10 * u[k - 1] + (s[k] - Digit(0))]
    BY <2>1, Zenon
  <2> QED BY <2>2, <2>3, Zenon
<1> HIDE DEF u
<1>6. Rec(num)
  BY <1>5, Zenon
<1>7. Number(s) = num[n]
  BY Zenon DEF Number
<1> HIDE DEF num
<1>9. num[0] = 0 /\ \A k \in 1 .. n : num[k] = 10 * num[k - 1] + (s[k] - 2)
  <2>1. \A k \in 0 .. n : num[k] = IF k = 0 THEN 0 ELSE 10 * num[k - 1] + (s[k] - Digit(0))
    BY <1>6, Zenon
  <2>2. 0 \in 0 .. n /\ \A k \in 1 .. n : k \in 0 .. n /\ k # 0
    BY <1>0
  <2> QED BY <1>0, <2>1, <2>2
<1>10. ASSUME NEW w, Reads(w, s) PROVE num[n] = w[n]
  <2> DEFINE T == {k \in Nat : k <= n => num[k] = w[k]}
  <2>1. 0 \in T
    BY <1>9, <1>10 DEF Reads
  <2>2. ASSUME NEW k \in Nat, k \in T PROVE k + 1 \in T
    <3> SUFFICES ASSUME k + 1 <= n PROVE num[k + 1] = w[k + 1]
      OBVIOUS
    <3>1. k + 1 \in 1 .. n /\ (k + 1) - 1 = k /\ num[k] = w[k]
      BY <1>0, <2>2
    <3> QED BY <1>9, <1>10, <3>1 DEF Reads
  <2>3. Nat \subseteq T
    <3> HIDE DEF T
    <3> QED BY <2>1, <2>2, SetInduction, Zenon
  <2> QED BY <1>0, <2>3
<1> QED BY <1>2, <1>4, <1>7, <1>10

LEMMA NumberType == \A s \in Seq(Int) : Number(s) \in Int
<1> TAKE s \in Seq(Int)
<1>1. PICK u \in [0 .. Len(s) -> Int] : Reads(u, s)
  BY NumberIs
<1>2. Len(s) \in 0 .. Len(s)
  OBVIOUS
<1> QED BY <1>1, <1>2, NumberIs

LEMMA NumberAppend ==
  ASSUME NEW s \in Seq(Int), NEW c \in Int
  PROVE  Number(s \o <<c>>) = 10 * Number(s) + (c - 2)
<1> DEFINE n == Len(s)
           t == s \o <<c>>
<1>1. t \in Seq(Int) /\ Len(t) = n + 1 /\ n \in Nat /\ t[n + 1] = c /\ \A k \in 1 .. n : t[k] = s[k]
  OBVIOUS
<1> HIDE DEF t
<1>2. PICK u \in [0 .. Len(t) -> Int] : Reads(u, t)
  BY <1>1, NumberIs, Zenon
<1>3. Reads(u, s)
  <2>1. ASSUME NEW k \in 1 .. n PROVE u[k] = 10 * u[k - 1] + (s[k] - 2)
    <3>1. k \in 1 .. Len(t)
      BY <1>1
    <3> QED BY <1>1, <1>2, <3>1, Zenon, ZenonT(30) DEF Reads
  <2> QED BY <1>2, <2>1 DEF Reads
<1>4. Number(t) = u[n + 1] /\ Number(s) = u[n]
  BY <1>1, <1>2, <1>3, NumberIs
<1>5. n + 1 \in 1 .. Len(t) /\ (n + 1) - 1 = n
  BY <1>1
<1>6. u[n + 1] = 10 * u[n] + (c - 2)
  BY <1>1, <1>2, <1>5, Zenon DEF Reads
<1> QED BY <1>4, <1>6 DEF t

LEMMA NumberEmpty == Number(<<>>) = 0
<1>1. <<>> \in Seq(Int) /\ Len(<<>>) = 0
  OBVIOUS
<1>2. PICK u \in [0 .. Len(<<>>) -> Int] : Reads(u, <<>>)
  BY <1>1, NumberIs, Zenon
<1> QED BY <1>1, <1>2, NumberIs, Zenon DEF Reads

\* Reading the digits of a number gives the number.
LEMMA NumberOfDigits == \A n \in Nat : Number(Digits[n]) = n
<1> DEFINE T == {n \in Nat : Number(Digits[n]) = n}
<1>1. ASSUME NEW n \in Nat, \A m \in Nat : m < n => m \in T PROVE n \in T
  <2>1. CASE n < 10
    <3>1. Digits[n] = <<2 + n>>
      BY <2>1, DigitsFacts, Zenon
    <3>2. <<2 + n>> = <<>> \o <<2 + n>> /\ <<>> \in Seq(Int) /\ 2 + n \in Int
      OBVIOUS
    <3>3. Number(<<>> \o <<2 + n>>) = 10 * Number(<<>>) + ((2 + n) - 2)
      <4> DEFINE c == 2 + n
      <4> HIDE DEF c
      <4>1. <<>> \in Seq(Int) /\ c \in Int
        BY <3>2 DEF c
      <4>2. Number(<<>> \o <<c>>) = 10 * Number(<<>>) + (c - 2)
        BY <4>1, NumberAppend, Zenon
      <4> QED BY <4>2 DEF c
    <3> QED BY <3>1, <3>2, <3>3, NumberEmpty
  <2>2. CASE ~(n < 10)
    <3> DEFINE q == n \div 10
               r == n % 10
    <3>1. q \in Nat /\ r \in 0 .. 9 /\ n = 10 * q + r /\ q < n
      BY <2>2
    <3>2. Digits[n] = Digits[q] \o <<2 + r>> /\ Digits[q] \in Seq(DigitCodes)
      BY <2>2, <3>1, DigitsFacts, Zenon
    <3> HIDE DEF q, r
    <3>3. Digits[q] \in Seq(Int) /\ 2 + r \in Int
      <4>1. DigitCodes \subseteq Int
        BY DEF DigitCodes
      <4>2. Digits[q] \in Seq(Int)
        BY <3>2, <4>1, LargerSeq, Zenon, ZenonT(30)
      <4> QED BY <3>1, <4>2
    <3>4. Number(Digits[q] \o <<2 + r>>) = 10 * Number(Digits[q]) + ((2 + r) - 2)
      BY <3>3, NumberAppend
    <3>5. Number(Digits[q]) = q
      BY <1>1, <3>1
    <3>6. Number(Digits[n]) = 10 * q + ((2 + r) - 2)
      BY <3>2, <3>4, <3>5
    <3> QED BY <3>1, <3>6
  <2> QED BY <2>1, <2>2
<1>2. Nat \subseteq T
  <2> HIDE DEF T
  <2> QED BY <1>1, StrongInduction
<1> QED BY <1>2

LEMMA MaxExists ==
  ASSUME NEW n \in Int, NEW S, S \subseteq Int, S # {}, \A e \in S : e <= n
  PROVE  \E e \in S : \A f \in S : f <= e
<1> SUFFICES ASSUME \A e \in S : \E f \in S : ~(f <= e) PROVE FALSE
  OBVIOUS
<1> DEFINE T == {k \in Nat : n - k \notin S}
<1>1. ASSUME NEW k \in Nat, \A m \in Nat : m < k => m \in T PROVE k \in T
  <2> SUFFICES ASSUME n - k \in S PROVE FALSE
    OBVIOUS
  <2>1. PICK f \in S : ~(f <= n - k)
    OBVIOUS
  <2>2. f \in Int /\ f <= n /\ n - f \in Nat /\ n - f < k /\ n - (n - f) = f
    BY <2>1
  <2> QED BY <1>1, <2>2
<1>2. Nat \subseteq T
  <2> HIDE DEF T
  <2> QED BY <1>1, StrongInduction
<1>3. PICK e \in S : TRUE
  BY Zenon
<1>4. n - e \in Nat /\ n - (n - e) = e
  OBVIOUS
<1> QED BY <1>2, <1>4

LEMMA DigitsEndFacts ==
  ASSUME NEW s \in Seq(Nat), NEW from \in {1, 2}
  PROVE  /\ DigitsEnd(s, from) \in Int
         /\ DigitsEnd(s, from) >= from => DigitsEnd(s, from) \in from .. Len(s)
         /\ from <= Len(s) /\ (\A k \in from .. Len(s) : IsDigit(s[k])) => DigitsEnd(s, from) = Len(s)
<1> DEFINE ends == {e \in from..Len(s) : \A k \in from..e : IsDigit(s[k])}
           max == CHOOSE e \in ends : \A f \in ends : f <= e
<1>1. DigitsEnd(s, from) = IF ends = {} THEN from - 1 ELSE max
  BY Zenon DEF DigitsEnd
<1>2. Len(s) \in Int /\ from \in Int
  OBVIOUS
<1>3. ends # {} => max \in ends /\ \A f \in ends : f <= max
  <2> SUFFICES ASSUME ends # {} PROVE max \in ends /\ \A f \in ends : f <= max
    BY Zenon
  <2>1. ends \subseteq Int /\ \A e \in ends : e <= Len(s)
    BY <1>2
  <2> HIDE DEF ends
  <2>2. \E e \in ends : \A f \in ends : f <= e
    BY <1>2, <2>1, MaxExists, Zenon
  <2> QED BY <2>2, Zenon
<1>4. ASSUME from <= Len(s), \A k \in from .. Len(s) : IsDigit(s[k]) PROVE Len(s) \in ends
  BY <1>2, <1>4
<1> HIDE DEF max
<1>5. CASE ends = {}
  <2> HIDE DEF ends
  <2> QED BY <1>1, <1>2, <1>4, <1>5
<1>6. CASE ends # {}
  <2>1. max \in from .. Len(s) /\ \A f \in ends : f <= max
    BY <1>3, <1>6
  <2> HIDE DEF ends
  <2> QED BY <1>1, <1>2, <1>4, <1>6, <2>1
<1> QED BY <1>5, <1>6

LEMMA SubText ==
  ASSUME NEW s \in Seq(Nat), NEW from \in {1, 2}, NEW end \in from .. Len(s)
  PROVE  Number(SubSeq(s, from, end)) \in Int
<1>1. SubSeq(s, from, end) \in Seq(Nat)
  OBVIOUS
<1>2. Nat \subseteq Int
  OBVIOUS
<1>3. SubSeq(s, from, end) \in Seq(Int)
  BY <1>1, <1>2, LargerSeq, Zenon, ZenonT(30)
<1> QED BY <1>3, NumberType, Zenon

\* Reading a number succeeds with an integer or throws.
LEMMA StoiType ==
  ASSUME NEW s \in Seq(Nat), NEW t \in Integers4, ~IsError(Stoi(s, t))
  PROVE  Stoi(s, t).v \in Int
<1> DEFINE from == DigitsFrom(s)
           end == DigitsEnd(s, from)
<1>1. from \in {1, 2} /\ Stoi(s, t) = IntegerPart(s, from, end, t)
  BY DEF DigitsFrom, Stoi
<1> HIDE DEF from
<1>2. end \in Int /\ (end >= from => end \in from .. Len(s))
  BY <1>1, DigitsEndFacts
<1> HIDE DEF end
<1>3. ~(end < from)
  <2> SUFFICES ASSUME end < from PROVE FALSE
    OBVIOUS
  <2>1. Stoi(s, t) = Error("invalid_argument")
    BY <1>1 DEF IntegerPart
  <2> QED BY <2>1 DEF Error, IsError
<1>4. end \in from .. Len(s)
  BY <1>1, <1>2, <1>3
<1> DEFINE i == Signed(from, Number(SubSeq(s, from, end)))
<1>5. Number(SubSeq(s, from, end)) \in Int
  BY <1>1, <1>4, SubText
<1>6. i \in Int
  BY <1>5 DEF Signed
<1>7. Stoi(s, t) = InRange(i, t)
  BY <1>1, <1>3 DEF IntegerPart
<1> HIDE DEF i
<1>8. InRange(i, t) = Error("OUT_OF_RANGE") \/ InRange(i, t) = [v |-> i]
  BY DEF InRange
<1>9. CASE InRange(i, t) = Error("OUT_OF_RANGE")
  BY <1>7, <1>9 DEF IsError, Error
<1>10. CASE InRange(i, t) = [v |-> i]
  BY <1>6, <1>7, <1>10
<1> QED BY <1>8, <1>9, <1>10

LEMMA StodType ==
  ASSUME NEW s \in Seq(Nat), ~IsError(Stod(s))
  PROVE  Stod(s).v \in Int
<1> DEFINE from == DigitsFrom(s)
           end == DigitsEnd(s, from)
           half == IF end + 2 <= Len(s) /\ s[end + 1] = Point /\ s[end + 2] = Digit(5) THEN 1 ELSE 0
           i == Signed(from, 2 * Number(SubSeq(s, from, end)) + half)
<1>1. from \in {1, 2} /\ Stod(s) = Halves(s, from, end)
  BY DEF DigitsFrom, Stod
<1> HIDE DEF from
<1>2. end \in Int /\ (end >= from => end \in from .. Len(s))
  BY <1>1, DigitsEndFacts
<1> HIDE DEF end
<1>3. Halves(s, from, end) = IF end < from THEN Error("invalid_argument") ELSE [v |-> i]
  BY Zenon DEF Halves
<1>4. ~(end < from)
  <2> SUFFICES ASSUME end < from PROVE FALSE
    OBVIOUS
  <2> HIDE DEF i
  <2>1. Stod(s) = Error("invalid_argument")
    BY <1>1, <1>3
  <2> QED BY <2>1 DEF Error, IsError
<1>5. end \in from .. Len(s)
  BY <1>1, <1>2, <1>4
<1>6. Number(SubSeq(s, from, end)) \in Int /\ half \in Int
  BY <1>1, <1>5, SubText
<1> HIDE DEF half
<1>7. i \in Int
  BY <1>6 DEF Signed
<1> HIDE DEF i
<1>8. Stod(s) = [v |-> i]
  BY <1>1, <1>3, <1>4
<1> QED BY <1>7, <1>8

LEMMA SignedText ==
  ASSUME NEW i \in Int
  PROVE  /\ Abs(i) \in Nat /\ Digits[Abs(i)] \in Seq(DigitCodes) /\ Len(Digits[Abs(i)]) >= 1
         /\ Digits[Abs(i)] \in Seq(Nat) /\ Sign(i) \in Seq(Nat)
         /\ IntegerText(i) = (IF i < 0 THEN <<Minus>> \o Digits[Abs(i)] ELSE Digits[Abs(i)])
         /\ IntegerText(i) \in Seq(Nat)
<1>1. Abs(i) \in Nat
  BY DEF Abs
<1>2. Digits[Abs(i)] \in Seq(DigitCodes) /\ Len(Digits[Abs(i)]) >= 1
  BY <1>1, DigitsFacts
<1>3. DigitCodes \subseteq Nat
  BY DEF DigitCodes
<1>4. Digits[Abs(i)] \in Seq(Nat)
  BY <1>2, <1>3, LargerSeq, Zenon
<1>5. Sign(i) \in Seq(Nat)
  BY DEF Sign, Minus
<1>6. IntegerText(i) = (IF i < 0 THEN <<Minus>> \o Digits[Abs(i)] ELSE Digits[Abs(i)])
  <2>1. CASE i < 0
    BY <2>1 DEF IntegerText, Sign
  <2>2. CASE ~(i < 0)
    BY <1>4, <2>2 DEF IntegerText, Sign
  <2> QED BY <2>1, <2>2
<1>7. IntegerText(i) \in Seq(Nat)
  BY <1>4, <1>5 DEF IntegerText
<1> QED BY <1>1, <1>2, <1>4, <1>5, <1>6, <1>7

\* Reading what was printed gives the number again.
LEMMA StoiOfText ==
  ASSUME NEW t \in Integers4, NEW i \in IntNull(t) .. IntMax(t)
  PROVE  Stoi(IntegerText(i), t) = [v |-> i]
<1> DEFINE d == Digits[Abs(i)]
           s == IntegerText(i)
           from == DigitsFrom(s)
           n == Len(d)
<1>0. i \in Int
  BY Limits
<1>1. /\ Abs(i) \in Nat /\ d \in Seq(DigitCodes) /\ n >= 1 /\ d \in Seq(Nat) /\ s \in Seq(Nat)
      /\ s = IF i < 0 THEN <<Minus>> \o d ELSE d
  BY <1>0, SignedText, Zenon
<1>2. Number(d) = Abs(i)
  BY <1>1, NumberOfDigits
<1> HIDE DEF d, s
<1>3. n \in Nat /\ \A k \in 1 .. n : d[k] \in DigitCodes
  BY <1>1
<1>4. \A k \in 1 .. n : IsDigit(d[k]) /\ d[k] # Minus
  BY <1>3 DEF DigitCodes, IsDigit, Minus
<1>5. /\ from = IF i < 0 THEN 2 ELSE 1
      /\ from <= Len(s) /\ (\A k \in from .. Len(s) : IsDigit(s[k]))
      /\ SubSeq(s, from, Len(s)) = d
  <2>1. CASE i < 0
    <3>1. Len(s) = n + 1 /\ s[1] = Minus /\ (\A k \in 2 .. n + 1 : s[k] = d[k - 1]) /\ s # <<>>
      BY <1>1, <1>3, <2>1
    <3>2. from = 2
      BY <3>1 DEF DigitsFrom
    <3>3. \A k \in 2 .. n + 1 : IsDigit(s[k])
      <4> TAKE k \in 2 .. n + 1
      <4>1. k - 1 \in 1 .. n
        BY <1>3
      <4> QED BY <1>4, <3>1, <4>1
    <3>4. SubSeq(s, 2, n + 1) = d
      <4>1. SubSeq(s, 2, n + 1) \in Seq(Nat) /\ Len(SubSeq(s, 2, n + 1)) = n
            /\ \A k \in 1 .. n : SubSeq(s, 2, n + 1)[k] = s[k + 1]
        BY <1>1, <1>3, <3>1
      <4>2. \A k \in 1 .. n : s[k + 1] = d[k]
        <5> TAKE k \in 1 .. n
        <5>1. k + 1 \in 2 .. n + 1 /\ (k + 1) - 1 = k
          BY <1>3
        <5> QED BY <3>1, <5>1
      <4> DEFINE u == SubSeq(s, 2, n + 1)
      <4> HIDE DEF u
      <4>3. u \in Seq(Nat) /\ Len(u) = Len(d) /\ \A k \in 1 .. Len(u) : u[k] = d[k]
        BY <4>1, <4>2, Zenon DEF u
      <4>4. u = d
        BY <1>1, <4>3, EqualSeqs
      <4> QED BY <4>4 DEF u
    <3>5. SubSeq(s, from, Len(s)) = d
      BY <3>1, <3>2, <3>4, Zenon, ZenonT(30)
    <3>6. 2 <= Len(s) /\ \A k \in 2 .. Len(s) : IsDigit(s[k])
      BY <1>1, <1>3, <3>1, <3>3
    <3> QED BY <2>1, <3>2, <3>5, <3>6, Zenon, ZenonT(30)
  <2>2. CASE ~(i < 0)
    <3>1. s = d
      BY <1>1, <2>2
    <3>2. from = 1
      BY <1>1, <1>3, <1>4, <3>1 DEF DigitsFrom
    <3>3. SubSeq(d, 1, n) = d
      BY <1>1, <1>3
    <3> QED BY <1>1, <1>3, <1>4, <2>2, <3>1, <3>2, <3>3
  <2> QED BY <2>1, <2>2
<1> HIDE DEF from
<1>6. from \in {1, 2}
  BY <1>5
<1>7. DigitsEnd(s, from) = Len(s)
  BY <1>1, <1>5, <1>6, DigitsEndFacts, Zenon, ZenonT(30)
<1>8. Stoi(s, t) = IntegerPart(s, from, Len(s), t)
  BY <1>7 DEF Stoi, from
<1>9. ~(Len(s) < from)
  BY <1>1, <1>5
<1>10. IntegerPart(s, from, Len(s), t) = InRange(Signed(from, Abs(i)), t)
  BY <1>2, <1>5, <1>9, Zenon, ZenonT(30) DEF IntegerPart
<1>11. Signed(from, Abs(i)) = i
  BY <1>0, <1>5 DEF Signed, Abs
<1>12. InRange(i, t) = [v |-> i]
  <2>1. ~(i < IntNull(t) \/ i > IntMax(t))
    BY Limits
  <2> QED BY <2>1 DEF InRange
<1> QED BY <1>8, <1>10, <1>11, <1>12 DEF s

-----------------------------------------------------------------------------
(* Every operation throws or gives a value. *)

Typed(x) == IsError(x) \/ IsValue(x)

\* What a text that is read as a number gives.
ReadAs(x, t) == IsError(x) \/ (t \in Integers4 /\ IsInteger(x) /\ x.type = t) \/ (t = "DECIMAL" /\ IsDecimal(x))

LEMMA Errors == \A e : IsError(Error(e))
BY DEF IsError, Error

LEMMA BooleanValue ==
  ASSUME NEW i \in Int
  PROVE  IsBoolean(Value("BOOLEAN", i))
<1>1. Value("BOOLEAN", i) = Holding("BOOLEAN", Wrap("TINYINT", i))
  BY DEF Value
<1>2. Wrap("TINYINT", i) \in IntNull("TINYINT") .. IntMax("TINYINT")
  BY Wraps, Widths, Zenon, ZenonT(30)
<1> QED BY <1>1, <1>2 DEF IsBoolean

LEMMA ToStringType ==
  ASSUME NEW x, IsValue(x)
  PROVE  ToString(x) \in Seq(Nat)
<1>1. WordNull \in Seq(Nat) /\ WordTrue \in Seq(Nat) /\ WordFalse \in Seq(Nat)
  BY DEF WordNull, WordTrue, WordFalse
<1>2. CASE x.null
  BY <1>1, <1>2 DEF ToString
<1>3. CASE ~x.null /\ IsVarchar(x)
  BY <1>3, VarcharFacts DEF ToString
<1>4. CASE ~x.null /\ IsBoolean(x)
  <2>1. ToString(x) = IF x.v = 1 THEN WordTrue ELSE WordFalse
    BY <1>4, BooleanFacts DEF ToString
  <2> QED BY <1>1, <2>1, Zenon
<1>5. CASE ~x.null /\ IsDecimal(x)
  <2> DEFINE a == Abs(x.v)
             e == <<Point, Digit(5 * (a % 2))>>
             d == Digits[a \div 2]
  <2>1. ToString(x) = DecimalText(x.v) /\ x.v \in Int
    BY <1>5, DecimalFacts DEF ToString
  <2>2. a \in Nat /\ a \div 2 \in Nat /\ a % 2 \in 0 .. 1
    <3>1. a \in Nat
      BY <2>1, SignedText, Zenon
    <3> HIDE DEF a
    <3> QED BY <3>1
  <2>3. Sign(x.v) \in Seq(Nat)
    BY <2>1, SignedText, Zenon
  <2>4. d \in Seq(Nat)
    <3>1. DigitCodes \subseteq Nat
      BY DEF DigitCodes
    <3> QED BY <2>2, <3>1, DigitsFacts, LargerSeq, Zenon, ZenonT(30)
  <2>5. e \in Seq(Nat)
    BY <2>2 DEF Point, Digit
  <2>6. DecimalText(x.v) = Sign(x.v) \o d \o e
    BY Zenon DEF DecimalText
  <2> HIDE DEF d, e
  <2>7. Sign(x.v) \o d \o e \in Seq(Nat)
    BY <2>3, <2>4, <2>5
  <2> QED BY <2>1, <2>6, <2>7
<1>6. CASE ~x.null /\ IsInteger(x)
  <2>1. ToString(x) = IntegerText(x.v) /\ x.v \in Int
    BY <1>6, IntegerFacts DEF ToString
  <2> QED BY <2>1, SignedText, Zenon
<1> QED BY <1>2, <1>3, <1>4, <1>5, <1>6 DEF IsValue

LEMMA TextToNumber ==
  ASSUME NEW s \in Seq(Nat), NEW t \in Numeric
  PROVE  ReadAs(TextTo(s, t), t)
<1>1. CASE t \in Integers4
  <2> DEFINE i == Stoi(s, IF t = "BIGINT" THEN t ELSE "INTEGER")
  <2>1. TextTo(s, t) = NarrowedTo(t, i)
    BY <1>1 DEF TextTo, TextToInteger, Integers4
  <2>2. ~IsError(i) => i.v \in Int
    BY <1>1, StoiType, Widths
  <2> HIDE DEF i
  <2>3. CASE IsError(i)
    BY <2>1, <2>3 DEF NarrowedTo, ReadAs
  <2>4. CASE ~IsError(i)
    <3>1. TextTo(s, t) = Error("OUT_OF_RANGE") \/ TextTo(s, t) = Value(t, i.v)
      BY <2>1, <2>4 DEF NarrowedTo
    <3>2. IsInteger(Value(t, i.v)) /\ Value(t, i.v).type = t
      BY <1>1, <2>2, <2>4, ValueMakes
    <3> QED BY <1>1, <3>1, <3>2, Errors, Zenon, ZenonT(30) DEF ReadAs
  <2> QED BY <2>3, <2>4
<1>2. CASE t = "DECIMAL"
  <2> DEFINE d == Stod(s)
  <2>1. TextTo(s, t) = InDecimalRange(d)
    BY <1>2 DEF TextTo, TextToDecimal, Integers4
  <2>2. ~IsError(d) => d.v \in Int
    BY StodType
  <2> HIDE DEF d
  <2>3. CASE IsError(d)
    BY <2>1, <2>3 DEF InDecimalRange, ReadAs
  <2>4. CASE ~IsError(d)
    <3>1. TextTo(s, t) = Error("OUT_OF_RANGE") \/ TextTo(s, t) = Holding("DECIMAL", d.v)
      BY <2>1, <2>4 DEF InDecimalRange, DecimalValue
    <3>2. IsDecimal(Holding("DECIMAL", d.v))
      BY <2>2, <2>4 DEF IsDecimal
    <3> QED BY <1>2, <3>1, <3>2, Errors, Zenon, ZenonT(30) DEF ReadAs
  <2> QED BY <2>3, <2>4
<1> QED BY <1>1, <1>2 DEF Numeric

LEMMA TextToType ==
  ASSUME NEW s \in Seq(Nat), NEW t \in TypeIds, t # "VARCHAR"
  PROVE  Typed(TextTo(s, t))
<1>1. CASE t = "BOOLEAN"
  <2>1. TextTo(s, t) = TextToBoolean(s)
    <3>1. t \notin Integers4 /\ t # "DECIMAL"
      BY <1>1 DEF Integers4
    <3> QED BY <1>1, <3>1, Zenon DEF TextTo
  <2>2. \/ TextToBoolean(s) = Value("BOOLEAN", 1) \/ TextToBoolean(s) = Value("BOOLEAN", 0)
        \/ TextToBoolean(s) = Error("Boolean value format error")
    <3> DEFINE P == s \in {WordTrue, One, WordT}
               Q == s \in {WordFalse, Zero, WordF}
    <3>1. TextToBoolean(s) = CASE P -> Value("BOOLEAN", 1) [] Q -> Value("BOOLEAN", 0)
                               [] OTHER -> Error("Boolean value format error")
      BY DEF TextToBoolean
    <3> HIDE DEF P, Q
    <3> QED BY <3>1, Zenon
  <2>3. IsBoolean(Value("BOOLEAN", 1)) /\ IsBoolean(Value("BOOLEAN", 0))
    BY BooleanValue
  <2> QED BY <2>1, <2>2, <2>3, Errors, Zenon, ZenonT(30) DEF Typed, IsValue
<1>2. CASE t \in Numeric
  BY <1>2, TextToNumber DEF ReadAs, Typed, IsValue
<1> QED BY <1>1, <1>2 DEF TypeIds

LEMMA NullOfNumeric ==
  ASSUME NEW t \in Numeric
  PROVE  IsValue(GetNullValueByType(t))
BY NullValues, Zenon, ZenonT(30) DEF IsNumber, IsValue

LEMMA DecimalMakes ==
  ASSUME NEW d \in Int
  PROVE  IsDecimal(DecimalValue(d)) /\ IsValue(DecimalValue(d))
BY DEF DecimalValue, IsDecimal, IsValue

LEMMA CastAsType ==
  ASSUME NEW x, IsValue(x), NEW t \in TypeIds
  PROVE  Typed(CastAs(x, t))
<1>0. /\ t \in Numeric \/ t = "BOOLEAN" \/ t = "VARCHAR"
      /\ t \in Numeric => t # "BOOLEAN" /\ t # "VARCHAR"
      /\ t \in Numeric => (t \in Integers4 <=> t # "DECIMAL")
  BY DEF TypeIds, Numeric, Integers4
<1>1. CASE t = "VARCHAR" /\ x.type # "VARCHAR"
  <2>1. CastAs(x, t) = IF x.null THEN VarcharNull ELSE VarcharValue(ToString(x))
    BY <1>1 DEF CastAs, CastAsVarchar
  <2>2. IsVarchar(VarcharNull) /\ IsVarchar(VarcharValue(ToString(x)))
    BY ToStringType DEF IsVarchar
  <2>3. IsVarchar(CastAs(x, t))
    BY <2>1, <2>2
  <2> QED BY <2>3 DEF Typed, IsValue
<1>2. CASE IsVarchar(x)
  <2>1. CastAs(x, t) = IF t = "VARCHAR" THEN x ELSE TextTo(ToString(x), t)
    BY <1>2, VarcharFacts DEF CastAs, VarlenCastAs
  <2>2. ToString(x) \in Seq(Nat)
    BY ToStringType
  <2>3. t # "VARCHAR" => Typed(TextTo(ToString(x), t))
    BY <2>2, TextToType
  <2> QED BY <2>1, <2>3 DEF Typed
<1>3. CASE IsBoolean(x) /\ t # "VARCHAR"
  <2>1. CastAs(x, t) = BooleanCastAs(x, t) /\ x.v \in Int
    BY <1>3, BooleanFacts DEF CastAs
  <2>2. CastAs(x, t) = Value("BOOLEAN", x.v) \/ CastAs(x, t) = Error("not coercable")
    BY <2>1, Zenon DEF BooleanCastAs
  <2> QED BY <2>1, <2>2, BooleanValue, Errors, Zenon DEF Typed, IsValue
<1>4. CASE IsInteger(x) /\ t # "VARCHAR"
  <2>1. x.type \in Integers4 /\ x.v \in Int
    BY <1>4, IntegerFacts
  <2>2. PICK checked : CastAs(x, t) = IntegerCastAs(x, t, checked)
    BY <1>4, <2>1 DEF CastAs, Integers4, TinyintCastAs, SmallintCastAs, IntegerTypeCastAs, BigintCastAs
  <2>3. CASE t = "BOOLEAN"
    BY <2>2, <2>3, Errors, Zenon, ZenonT(30) DEF IntegerCastAs, Typed
  <2>4. CASE t \in Numeric /\ x.null
    <3>1. CastAs(x, t) = GetNullValueByType(t)
      BY <1>0, <2>2, <2>4 DEF IntegerCastAs
    <3> QED BY <2>4, <3>1, NullOfNumeric DEF Typed
  <2>5. CASE t \in Integers4 /\ ~x.null
    <3>1. CastAs(x, t) = Error("OUT_OF_RANGE") \/ CastAs(x, t) = Value(t, x.v)
      BY <2>2, <2>5, Zenon, ZenonT(30) DEF IntegerCastAs, Integers4
    <3>2. IsInteger(Value(t, x.v))
      BY <2>1, <2>5, ValueMakes
    <3> QED BY <3>1, <3>2, Errors DEF Typed, IsValue
  <2>6. CASE t = "DECIMAL" /\ ~x.null
    <3>1. CastAs(x, t) = DecimalValue(Double(x.v))
      BY <2>2, <2>6 DEF IntegerCastAs, Integers4
    <3>2. Double(x.v) \in Int
      BY <2>1, DoubleType
    <3> QED BY <3>1, <3>2, DecimalMakes DEF Typed
  <2> QED BY <1>0, <1>4, <2>3, <2>4, <2>5, <2>6
<1>5. CASE IsDecimal(x) /\ t # "VARCHAR"
  <2>1. CastAs(x, t) = DecimalCastAs(x, t) /\ x.v \in Int
    BY <1>5, DecimalFacts DEF CastAs
  <2>2. CASE t = "BOOLEAN"
    BY <2>1, <2>2, Errors, Zenon, ZenonT(30) DEF DecimalCastAs, Typed
  <2>3. CASE t \in Numeric /\ x.null
    <3>1. CastAs(x, t) = GetNullValueByType(t)
      BY <1>0, <2>1, <2>3 DEF DecimalCastAs
    <3> QED BY <2>3, <3>1, NullOfNumeric DEF Typed
  <2>4. CASE t \in Integers4 /\ ~x.null
    <3> DEFINE bad == \/ t = "BIGINT" /\ x.v >= Double(IntMax(t))
                      \/ t # "BIGINT" /\ x.v > 2 * IntMax(t)
                      \/ x.v < (IF t = "BIGINT" THEN Double(IntMin(t)) ELSE 2 * IntMin(t))
    <3>1. CastAs(x, t) = IF bad THEN Error("OUT_OF_RANGE") ELSE Value(t, Trunc(x.v, 2))
      <4> DEFINE res == IF bad THEN Error("OUT_OF_RANGE") ELSE Value(t, Trunc(x.v, 2))
      <4>1. t # "BOOLEAN" /\ t # "DECIMAL"
        BY <2>4 DEF Integers4
      <4>2. DecimalCastAs(x, t) = CASE t \in Integers4 -> res [] t = "DECIMAL" -> x
        BY <2>4, <4>1, Zenon DEF DecimalCastAs
      <4> HIDE DEF res
      <4>3. DecimalCastAs(x, t) = res
        BY <2>4, <4>1, <4>2
      <4> QED BY <2>1, <4>3 DEF res
    <3> HIDE DEF bad
    <3>2. Trunc(x.v, 2) \in Int
      <4>1. 2 \in Int /\ 2 # 0
        OBVIOUS
      <4> QED BY <2>1, <4>1, TruncFacts, Zenon
    <3>3. IsInteger(Value(t, Trunc(x.v, 2)))
      BY <2>4, <3>2, ValueMakes
    <3> QED BY <3>1, <3>3, Errors DEF Typed, IsValue
  <2>5. CASE t = "DECIMAL" /\ ~x.null
    <3>1. CastAs(x, t) = x
      BY <2>1, <2>5 DEF DecimalCastAs, Integers4
    <3> QED BY <3>1 DEF Typed
  <2> QED BY <1>0, <1>5, <2>2, <2>3, <2>4, <2>5
<1>6. IsVarchar(x) <=> x.type = "VARCHAR"
  BY IntegerFacts, DecimalFacts, BooleanFacts, VarcharFacts DEF IsValue
<1> QED BY <1>1, <1>2, <1>3, <1>4, <1>5, <1>6 DEF IsValue

\* A double is zero only if its number is.
LEMMA DoubleNotZero ==
  ASSUME NEW i \in Int, i # 0
  PROVE  Double(i) # 0
<1> DEFINE p == Pow2[Bits["BIGINT"] - 2]
<1>1. p \in Int /\ p >= 4
  <2>1. /\ Half("TINYINT") \in Nat /\ Half("TINYINT") >= 2 /\ Half("SMALLINT") \in Nat
        /\ Half("INTEGER") \in Nat /\ Half("BIGINT") \in Nat
    BY Limits, Widths
  <2>2. p \in Nat
    <3>1. Bits["BIGINT"] - 2 \in Nat
      BY BitsAssumption, Widths
    <3> QED BY <3>1, Powers
  <2>3. /\ 2 * Half("TINYINT") <= Half("SMALLINT") /\ 2 * Half("SMALLINT") <= Half("INTEGER")
        /\ 2 * Half("INTEGER") <= Half("BIGINT") /\ 2 * p = Half("BIGINT")
    BY Widths
  <2> HIDE DEF p
  <2> QED BY <2>1, <2>2, <2>3
<1>2. CASE Abs(i) < p \/ i % 2 = 0
  BY <1>2 DEF Double
<1>3. CASE ~(Abs(i) < p \/ i % 2 = 0)
  <2>1. i >= 4 \/ i <= -4
    BY <1>1, <1>3 DEF Abs
  <2>2. (i + 1) \div 4 # 0 /\ (i + 1) \div 4 \in Int
    BY <2>1
  <2>3. Double(i) = 2 * (4 * ((i + 1) \div 4))
    BY <1>3 DEF Double
  <2> QED BY <2>2, <2>3
<1> QED BY <1>2, <1>3

LEMMA DoubleOpType ==
  ASSUME NEW x \in Int, NEW y \in Int, NEW op \in Operators, op \in {"/", "%"} => y # 0
  PROVE  DoubleOp(op, x, y) \in Int
<1>1. CASE op = "+"
  BY <1>1 DEF DoubleOp
<1>2. CASE op = "-"
  BY <1>2 DEF DoubleOp
<1>3. CASE op = "*"
  <2>1. x * y \in Int /\ 2 \in Int /\ 2 # 0
    OBVIOUS
  <2>2. Trunc(x * y, 2) \in Int
    BY <2>1, TruncFacts, Zenon
  <2> QED BY <1>3, <2>2 DEF DoubleOp
<1>4. CASE op = "/"
  <2>1. 2 * x \in Int /\ y # 0
    BY <1>4
  <2>2. Trunc(2 * x, y) \in Int
    BY <2>1, TruncFacts, Zenon
  <2> QED BY <1>4, <2>2 DEF DoubleOp
<1>5. CASE op = "%"
  <2>1. Trunc(x, y) \in Int
    BY <1>5, TruncFacts
  <2>2. Trunc(x, y) * y \in Int
    BY <2>1, Products
  <2> DEFINE m == Trunc(x, y) * y
  <2> HIDE DEF m
  <2>3. DoubleOp(op, x, y) = x - m /\ m \in Int
    BY <1>5, <2>2 DEF DoubleOp, m
  <2> QED BY <2>3
<1> QED BY <1>1, <1>2, <1>3, <1>4, <1>5 DEF Operators

LEMMA MethodType ==
  ASSUME NEW l, NEW r, IsInteger(l), IsInteger(r), NEW op \in Operators, op \in {"/", "%"} => r.v # 0
  PROVE  Typed(Method(op, l, r))
<1>1. l.type \in Integers4 /\ r.type \in Integers4 /\ l.v \in Int /\ r.v \in Int
  BY IntegerFacts
<1>2. Wider(l, r) \in Integers4 /\ ExpressionType(l, r) \in Integers4
  BY <1>1, WiderFacts
<1>3. ASSUME NEW i \in Int PROVE Typed(Value(Wider(l, r), i))
  BY <1>2, ValueMakes DEF Typed, IsValue
<1>4. ASSUME NEW i \in Int PROVE Typed(Value(Wider(l, r), Expression(l, r, i)))
  <2>1. Expression(l, r, i) = Wrap(ExpressionType(l, r), i)
    BY DEF Expression, ExpressionType
  <2>2. Expression(l, r, i) \in Int
    BY <1>2, <2>1, Wraps, Limits
  <2> QED BY <1>3, <2>2
<1>5. \A e : Typed(Error(e))
  BY Errors DEF Typed
<1>6. CASE op = "+"
  <2> DEFINE res == Value(Wider(l, r), Expression(l, r, l.v + r.v))
  <2>1. Typed(res)
    BY <1>1, <1>4
  <2>2. AddValue(l, r) = Error("OUT_OF_RANGE") \/ AddValue(l, r) = res
    BY DEF AddValue
  <2> HIDE DEF res
  <2> QED BY <1>5, <1>6, <2>1, <2>2 DEF Method
<1>7. CASE op = "-"
  <2> DEFINE res == Value(Wider(l, r), Expression(l, r, l.v - r.v))
  <2>1. Typed(res)
    BY <1>1, <1>4
  <2>2. SubtractValue(l, r) = Error("OUT_OF_RANGE") \/ SubtractValue(l, r) = res
    BY DEF SubtractValue
  <2> HIDE DEF res
  <2> QED BY <1>5, <1>7, <2>1, <2>2 DEF Method
<1>8. CASE op = "*"
  <2> DEFINE res == Value(Wider(l, r), Expression(l, r, l.v * r.v))
  <2>1. Typed(res)
    BY <1>1, <1>4, Products
  <2>2. MultiplyValue(l, r) = Error("OUT_OF_RANGE") \/ MultiplyValue(l, r) = res
    BY DEF MultiplyValue
  <2> HIDE DEF res
  <2> QED BY <1>5, <1>8, <2>1, <2>2 DEF Method
<1>9. CASE op = "/"
  <2>1. Trunc(l.v, r.v) \in Int
    BY <1>1, <1>9, TruncFacts, Zenon, ZenonT(30)
  <2>2. Method(op, l, r) = Value(Wider(l, r), Trunc(l.v, r.v))
    BY <1>9 DEF Method, DivideValue
  <2> QED BY <1>3, <2>1, <2>2
<1>10. CASE op = "%"
  <2> DEFINE m == l.v - Trunc(l.v, r.v) * r.v
  <2>1. m \in Int
    <3>1. Trunc(l.v, r.v) \in Int
      BY <1>1, <1>10, TruncFacts, Zenon, ZenonT(30)
    <3>2. Trunc(l.v, r.v) * r.v \in Int
      BY <1>1, <3>1, Products
    <3> DEFINE p == Trunc(l.v, r.v) * r.v
    <3>3. p \in Int
      BY <3>2
    <3> HIDE DEF p
    <3>4. l.v - p \in Int
      BY <1>1, <3>3
    <3> QED BY <3>4 DEF p
  <2>2. Method(op, l, r) = Value(Wider(l, r), m)
    BY <1>10 DEF Method, ModuloValue
  <2> HIDE DEF m
  <2> QED BY <1>3, <2>1, <2>2
<1> QED BY <1>6, <1>7, <1>8, <1>9, <1>10 DEF Operators

\* What the functions of a numeric type read the right operand as.
LEMMA RightOperandType ==
  ASSUME NEW l, NEW r, IsNumber(l), IsValue(r)
  PROVE  /\ r.type = "VARCHAR" => ReadAs(RightOperand(l, r), l.type)
         /\ r.type # "VARCHAR" => RightOperand(l, r) = r
<1>1. l.type \in Numeric /\ l.type # "BOOLEAN" /\ l.type # "VARCHAR"
  BY NumberFacts
<1>2. ASSUME r.type = "VARCHAR" PROVE ReadAs(RightOperand(l, r), l.type)
  <2>1. RightOperand(l, r) = TextTo(ToString(r), l.type)
    BY <1>1, <1>2 DEF RightOperand, CastAs, VarlenCastAs
  <2>2. ToString(r) \in Seq(Nat)
    BY ToStringType
  <2> QED BY <1>1, <2>1, <2>2, TextToNumber
<1>3. ASSUME r.type # "VARCHAR" PROVE RightOperand(l, r) = r
  BY <1>1, <1>3 DEF RightOperand
<1> QED BY <1>2, <1>3

LEMMA NullResultType ==
  ASSUME NEW l, NEW r, IsInteger(l), IsValue(r)
  PROVE  Typed(NullResult(l, r))
<1>1. l.type \in Integers4
  BY IntegerFacts
<1>2. CASE r.type \in Numeric
  <2>1. ResultType(l, r) \in Numeric
    BY <1>1, <1>2, ResultTypeNumeric DEF Numeric
  <2> QED BY <1>1, <1>2, <2>1, OperateNullTypes, NullOfNumeric DEF Typed
<1>3. CASE r.type \notin Numeric
  <2>1. ASSUME NEW K, K \subseteq Numeric PROVE OperateNull(r, K) = Error("type error")
    <3>1. r.type \notin K /\ r.type \notin Integers4 \ K
      BY <1>3, <2>1 DEF Numeric
    <3> QED BY <3>1, Zenon DEF OperateNull
  <2>2. Numeric \ {"TINYINT"} \subseteq Numeric /\ {"INTEGER", "BIGINT", "DECIMAL"} \subseteq Numeric
        /\ {"BIGINT", "DECIMAL"} \subseteq Numeric /\ Numeric \subseteq Numeric
    BY DEF Numeric, Integers4
  <2>3. /\ TinyintOperateNull(r) = Error("type error") /\ SmallintOperateNull(r) = Error("type error")
        /\ IntegerTypeOperateNull(r) = Error("type error") /\ BigintOperateNull(r) = Error("type error")
    BY <2>1, <2>2, Zenon DEF TinyintOperateNull, SmallintOperateNull, IntegerTypeOperateNull, BigintOperateNull
  <2>4. NullResult(l, r) = Error("type error")
    BY <1>1, <2>3, Zenon, ZenonT(30) DEF NullResult, Integers4
  <2> QED BY <2>4, Errors, Zenon DEF Typed
<1> QED BY <1>2, <1>3

LEMMA ArithmeticType ==
  ASSUME NEW l, NEW r, IsValue(l), IsValue(r), NEW op \in Operators
  PROVE  Typed(Arithmetic(op, l, r))
<1> DEFINE rv == RightOperand(l, r)
<1>1. Arithmetic(op, l, r) = ArithmeticWith(op, l, r, rv)
  BY DEF Arithmetic
<1>2. \A e : Typed(Error(e))
  BY Errors DEF Typed
<1>3. CASE IsVarchar(l) \/ IsBoolean(l)
  <2>1. l.type \in {"VARCHAR", "BOOLEAN"}
    BY <1>3, VarcharFacts, BooleanFacts
  <2>2. ArithmeticWith(op, l, r, rv) = Error("not implemented")
    BY <2>1, Zenon, ZenonT(30) DEF ArithmeticWith
  <2> QED BY <1>1, <1>2, <2>2, Zenon, ZenonT(30)
<1>4. ASSUME IsNumber(l), CheckComparable(l, r), ZeroDivisor(op, r) = "no", ~IsError(rv)
      PROVE  /\ IsNumber(rv) /\ (op \in {"/", "%"} => rv.v # 0)
             /\ r.type = "DECIMAL" => rv = r
             /\ l.type # "DECIMAL" /\ r.type # "DECIMAL" => IsInteger(rv)
  <2>1. l.type \in Numeric /\ l.type # "BOOLEAN" /\ l.type # "VARCHAR"
    BY <1>4, NumberFacts
  <2>2. r.type \in Numeric \union {"VARCHAR"}
    BY <1>4, <2>1 DEF CheckComparable
  <2>3. CASE r.type = "VARCHAR"
    <3>1. op \notin {"/", "%"}
      BY <1>4, <2>3 DEF ZeroDivisor
    <3>2. ReadAs(rv, l.type)
      BY <1>4, <2>3, RightOperandType
    <3> HIDE DEF rv
    <3> QED BY <1>4, <2>3, <3>1, <3>2 DEF ReadAs, IsNumber
  <2>4. CASE r.type # "VARCHAR"
    <3>1. rv = r
      BY <1>4, <2>4, RightOperandType
    <3>2. IsNumber(r)
      BY <2>2, <2>4, NumericValues
    <3>3. op \in {"/", "%"} => r.v # 0
      BY <1>4, <2>4 DEF ZeroDivisor
    <3> HIDE DEF rv
    <3> QED BY <3>1, <3>2, <3>3, NumberFacts
  <2> QED BY <2>3, <2>4
<1>5. CASE IsInteger(l)
  <2>1. l.type \in Integers4 /\ l.v \in Int /\ IsNumber(l) /\ l.type # "DECIMAL"
    BY <1>5, IntegerFacts DEF IsNumber
  <2>2. ArithmeticWith(op, l, r, rv) = IntegerArithmetic(op, l, r, rv, NullResult(l, r))
    <3> HIDE DEF rv
    <3> QED BY <2>1, Zenon DEF ArithmeticWith, Integers4, NullResult, TinyintArithmetic,
                        SmallintArithmetic, IntegerTypeArithmetic, BigintArithmetic
  <2>3. Typed(NullResult(l, r))
    BY <1>5, NullResultType
  <2>4. CASE ~CheckComparable(l, r) \/ l.null \/ r.null \/ ZeroDivisor(op, r) # "no"
    <3> HIDE DEF rv
    <3> QED BY <1>1, <1>2, <2>2, <2>3, <2>4, Zenon, ZenonT(30) DEF IntegerArithmetic
  <2>5. CASE CheckComparable(l, r) /\ ~l.null /\ ~r.null /\ ZeroDivisor(op, r) = "no"
    <3>1. CASE r.type = "DECIMAL"
      <4>1. r.type # "VARCHAR"
        BY <3>1
      <4>2. rv = r
        BY <2>1, <4>1, RightOperandType
      <4>3. ~IsError(r) /\ r.v \in Int
        BY <3>1, IntegerFacts, DecimalFacts, BooleanFacts, VarcharFacts DEF IsValue
      <4>4. op \in {"/", "%"} => r.v # 0
        BY <1>4, <2>1, <2>5, <4>2, <4>3
      <4>5. DoubleOp(op, Double(l.v), r.v) \in Int
        BY <2>1, <4>3, <4>4, DoubleType, DoubleOpType
      <4>6. Arithmetic(op, l, r) = DecimalValue(DoubleOp(op, Double(l.v), r.v))
        <5> HIDE DEF rv
        <5> QED BY <1>1, <2>2, <2>5, <3>1 DEF IntegerArithmetic
      <4> QED BY <4>5, <4>6, DecimalMakes DEF Typed
    <3>2. CASE r.type # "DECIMAL" /\ IsError(rv)
      <4> HIDE DEF rv
      <4>1. Arithmetic(op, l, r) = rv
        BY <1>1, <2>2, <2>5, <3>2, Zenon, ZenonT(30) DEF IntegerArithmetic
      <4> QED BY <3>2, <4>1 DEF Typed
    <3>3. CASE r.type # "DECIMAL" /\ ~IsError(rv)
      <4>1. IsInteger(rv) /\ (op \in {"/", "%"} => rv.v # 0)
        BY <1>4, <2>1, <2>5, <3>3
      <4> HIDE DEF rv
      <4>2. Arithmetic(op, l, r) = Method(op, l, rv)
        BY <1>1, <2>2, <2>5, <3>3, Zenon, ZenonT(30) DEF IntegerArithmetic
      <4> QED BY <1>5, <4>1, <4>2, MethodType
    <3> QED BY <3>1, <3>2, <3>3
  <2> QED BY <2>4, <2>5
<1>6. CASE IsDecimal(l)
  <2>1. l.type = "DECIMAL" /\ l.v \in Int /\ IsNumber(l)
    BY <1>6, DecimalFacts DEF IsNumber
  <2>2. ArithmeticWith(op, l, r, rv) = DecimalArithmetic(op, l, r, rv)
    <3> HIDE DEF rv
    <3> QED BY <2>1 DEF ArithmeticWith
  <2>3. Typed(GetNullValueByType("DECIMAL"))
    BY NullOfNumeric DEF Numeric, Typed
  <2>4. CASE ~CheckComparable(l, r) \/ l.null \/ r.null \/ ZeroDivisor(op, r) # "no"
    <3> HIDE DEF rv
    <3> QED BY <1>1, <1>2, <2>2, <2>3, <2>4, Zenon, ZenonT(30) DEF DecimalArithmetic
  <2>5. CASE CheckComparable(l, r) /\ ~l.null /\ ~r.null /\ ZeroDivisor(op, r) = "no"
    <3>1. CASE IsError(rv)
      <4> HIDE DEF rv
      <4>1. Arithmetic(op, l, r) = rv
        BY <1>1, <2>2, <2>5, <3>1, Zenon, ZenonT(30) DEF DecimalArithmetic
      <4> QED BY <3>1, <4>1 DEF Typed
    <3>2. CASE ~IsError(rv)
      <4>1. IsNumber(rv) /\ (op \in {"/", "%"} => rv.v # 0)
        BY <1>4, <2>1, <2>5, <3>2
      <4> HIDE DEF rv
      <4>2. rv.v \in Int
        BY <4>1, NumberFacts
      <4>3. AsDouble(rv) \in Int /\ (op \in {"/", "%"} => AsDouble(rv) # 0)
        BY <4>1, <4>2, DoubleType, DoubleNotZero DEF AsDouble
      <4>4. DoubleOp(op, l.v, AsDouble(rv)) \in Int
        BY <2>1, <4>3, DoubleOpType
      <4>5. Arithmetic(op, l, r) = DecimalValue(DoubleOp(op, l.v, AsDouble(rv)))
        BY <1>1, <2>2, <2>5, <3>2, Zenon, ZenonT(30) DEF DecimalArithmetic
      <4> QED BY <4>4, <4>5, DecimalMakes DEF Typed
    <3> QED BY <3>1, <3>2
  <2> QED BY <2>4, <2>5
<1> QED BY <1>3, <1>5, <1>6 DEF IsValue

LEMMA MinMaxType ==
  ASSUME NEW l, NEW r, IsValue(l), IsValue(r), NEW which
  PROVE  Typed(MinMax(which, l, r))
<1>1. \A e : Typed(Error(e))
  BY Errors DEF Typed
<1>2. Typed(Arithmetic("+", l, r))
  BY ArithmeticType DEF Operators
<1>3. \A c : Typed(Chosen(c, l, r))
  <2> TAKE c
  <2>1. CASE c = "CmpTrue"
    BY <2>1 DEF Chosen, Typed
  <2>2. CASE c = "CmpFalse"
    BY <2>2 DEF Chosen, Typed
  <2>3. CASE c # "CmpTrue" /\ c # "CmpFalse"
    <3>1. Chosen(c, l, r) = Error(c)
      BY <2>3, Zenon DEF Chosen
    <3> QED BY <1>1, <3>1
  <2> QED BY <2>1, <2>2, <2>3
<1> QED BY <1>1, <1>2, <1>3, Zenon, ZenonT(30) DEF MinMax

LEMMA IntegerLimits ==
  ASSUME NEW t \in Integers4
  PROVE  IntMin(t) \in Int /\ IntMax(t) \in Int
BY Limits

\* The operands of the state machine are values.
LEMMA OperandsAreValues == \A x \in Operands : IsValue(x)
<1>0. /\ "BIGINT" \in Integers4 /\ "TINYINT" \in Integers4 /\ "SMALLINT" \in Integers4
      /\ IntNull("BIGINT") \in Int /\ DecimalMin \in Int /\ -DecimalMin \in Int
  BY Widths, Limits DEF DecimalMin
<1>1. ASSUME NEW t \in TypeIds PROVE IsValue(GetMinValue(t)) /\ IsValue(GetMaxValue(t)) /\ IsValue(GetNullValueByType(t))
  <2>1. CASE t \in Integers4
    <3>1. GetMinValue(t) = Value(t, IntMin(t)) /\ GetMaxValue(t) = Value(t, IntMax(t))
      BY <2>1 DEF GetMinValue, GetMaxValue, Integers4
    <3>2. IsInteger(Value(t, IntMin(t))) /\ IsInteger(Value(t, IntMax(t)))
      BY <2>1, IntegerLimits, ValueMakes
    <3> QED BY <2>1, <3>1, <3>2, NullOfNumeric DEF IsValue, Numeric
  <2>2. CASE t = "BOOLEAN"
    <3>1. GetMinValue(t) = Value("BOOLEAN", 0) /\ GetMaxValue(t) = Value("BOOLEAN", 1)
      BY <2>2 DEF GetMinValue, GetMaxValue, Integers4
    <3>2. GetNullValueByType(t) = Holding("BOOLEAN", IntNull("TINYINT"))
      BY <2>2 DEF GetNullValueByType, NullOf, BooleanNull
    <3>3. IntNull("TINYINT") \in IntNull("TINYINT") .. IntMax("TINYINT")
      BY <1>0, Limits
    <3>4. IsBoolean(GetNullValueByType(t))
      BY <3>2, <3>3 DEF IsBoolean
    <3> QED BY <3>1, <3>4, BooleanValue DEF IsValue
  <2>3. CASE t = "DECIMAL"
    <3>1. GetMinValue(t) = DecimalValue(DecimalMin) /\ GetMaxValue(t) = DecimalValue(-DecimalMin)
      BY <2>3 DEF GetMinValue, GetMaxValue, Integers4
    <3> QED BY <1>0, <2>3, <3>1, DecimalMakes, NullOfNumeric DEF Numeric
  <2>4. CASE t = "VARCHAR"
    <3>1. GetMinValue(t) = VarcharValue(<<>>) /\ GetMaxValue(t) = VarcharNull /\ GetNullValueByType(t) = VarcharNull
      BY <2>4 DEF GetMinValue, GetMaxValue, GetNullValueByType, Integers4
    <3>2. <<>> \in Seq(Nat)
      OBVIOUS
    <3> QED BY <3>1, <3>2, Zenon DEF IsVarchar, IsValue
  <2> QED BY <2>1, <2>2, <2>3, <2>4 DEF TypeIds, Numeric
<1>2. ASSUME NEW t \in Integers4, NEW i \in Interesting \cap IntMin(t)..IntMax(t) PROVE IsValue(Value(t, i))
  <2>1. i \in Int
    BY Limits
  <2> QED BY <2>1, ValueMakes DEF IsValue
<1>3. ASSUME NEW d \in {-3, -1, 0, 1, 2, 2 * IntMax("TINYINT") + 1, Double(IntMax("BIGINT"))}
      PROVE  IsValue(DecimalValue(d))
  <2>1. IntMax("TINYINT") \in Int /\ IntMax("BIGINT") \in Int
    BY <1>0, Limits
  <2>2. Double(IntMax("BIGINT")) \in Int
    BY <2>1, DoubleType
  <2>3. d \in Int
    BY <2>1, <2>2
  <2> QED BY <2>3, DecimalMakes
<1>4. ASSUME NEW s \in {One, WordTrue, IntegerText(IntMin("TINYINT")), IntegerText(IntMax("SMALLINT"))}
      PROVE  IsValue(VarcharValue(s))
  <2>1. One \in Seq(Nat) /\ WordTrue \in Seq(Nat)
    BY DEF One, WordTrue, Digit
  <2>2. IntegerText(IntMin("TINYINT")) \in Seq(Nat) /\ IntegerText(IntMax("SMALLINT")) \in Seq(Nat)
    BY <1>0, IntegerLimits, SignedText
  <2>3. s \in Seq(Nat)
    BY <2>1, <2>2, Zenon
  <2> QED BY <2>3, Zenon DEF IsVarchar, IsValue
<1> DEFINE D == {-3, -1, 0, 1, 2, 2 * IntMax("TINYINT") + 1, Double(IntMax("BIGINT"))}
           S == {One, WordTrue, IntegerText(IntMin("TINYINT")), IntegerText(IntMax("SMALLINT"))}
           N(t) == Interesting \cap IntMin(t)..IntMax(t)
           V == UNION {{Value(t, i) : i \in N(t)} : t \in Integers4}
<1>5. Operands = {GetMinValue(t) : t \in TypeIds} \union {GetMaxValue(t) : t \in TypeIds}
                 \union {GetNullValueByType(t) : t \in TypeIds}
                 \union V
                 \union {DecimalValue(d) : d \in D} \union {VarcharValue(s) : s \in S}
  BY Zenon DEF Operands
<1>6. /\ \A t \in Integers4 : \A i \in N(t) : IsValue(Value(t, i))
      /\ \A d \in D : IsValue(DecimalValue(d))
      /\ \A s \in S : IsValue(VarcharValue(s))
  BY <1>2, <1>3, <1>4, Zenon
<1> HIDE DEF D, S, N
<1>7. \A x \in V : IsValue(x)
  BY <1>6, Zenon
<1> HIDE DEF V
<1>8. ASSUME NEW x \in Operands PROVE IsValue(x)
  <2>1. CASE \E t \in TypeIds : x = GetMinValue(t) \/ x = GetMaxValue(t) \/ x = GetNullValueByType(t)
    BY <1>1, <2>1, Zenon
  <2>2. CASE x \in V
    BY <1>7, <2>2, Zenon
  <2>3. CASE (\E d \in D : x = DecimalValue(d)) \/ (\E s \in S : x = VarcharValue(s))
    BY <1>6, <2>3, Zenon
  <2>4. x \in {GetMinValue(t) : t \in TypeIds} \union {GetMaxValue(t) : t \in TypeIds}
            \union {GetNullValueByType(t) : t \in TypeIds}
            \union V \union {DecimalValue(d) : d \in D} \union {VarcharValue(s) : s \in S}
    BY <1>5, <1>8, Zenon
  <2> QED BY <2>1, <2>2, <2>3, <2>4
<1> QED BY <1>8

(* Whatever is computed, cast or chosen is again a well-formed value: its number
   lies in the range of its type, and it is NULL exactly when the number is the
   one that stands for NULL (the constructors of value.cpp). *)
THEOREM ValuesStayValues == Spec => []ValuesInv
<1>1. Init => ValuesInv
  BY OperandsAreValues, Zenon DEF Init, ValuesInv
<1>2. ValuesInv /\ [Next]_vars => ValuesInv'
  <2> SUFFICES ASSUME ValuesInv, [Next]_vars PROVE ValuesInv'
    OBVIOUS
  <2>1. ASSUME NEW res, Typed(res), Becomes(res) PROVE ValuesInv'
    <3>1. IsValue(res) /\ left' = res /\ right' = right
      BY <2>1, Zenon DEF Becomes, Bounded, Typed
    <3>2. IsValue(left') /\ IsValue(right')
      BY <3>1, Zenon DEF ValuesInv
    <3> QED BY <3>2, Zenon DEF ValuesInv, IsValue, IsInteger, IsDecimal, IsBoolean, IsVarchar
  <2>2. CASE Compute
    <3>1. PICK op \in Operators : Becomes(Arithmetic(op, left, right))
      BY <2>2 DEF Compute
    <3>2. Typed(Arithmetic(op, left, right))
      BY ArithmeticType DEF ValuesInv
    <3> QED BY <2>1, <3>1, <3>2
  <2>3. CASE Cast
    <3>1. PICK t \in TypeIds : Becomes(CastAs(left, t))
      BY <2>3 DEF Cast
    <3>2. Typed(CastAs(left, t))
      BY CastAsType DEF ValuesInv
    <3> QED BY <2>1, <3>1, <3>2
  <2>4. CASE Choose
    <3>1. PICK which \in {"Min", "Max"} : Becomes(MinMax(which, left, right))
      BY <2>4 DEF Choose
    <3>2. Typed(MinMax(which, left, right))
      BY MinMaxType DEF ValuesInv
    <3> QED BY <2>1, <3>1, <3>2
  <2>5. CASE UNCHANGED vars
    BY <2>5 DEF vars, ValuesInv, IsValue, IsInteger, IsDecimal, IsBoolean, IsVarchar
  <2> QED BY <2>2, <2>3, <2>4, <2>5 DEF Next
<1> QED BY <1>1, <1>2, PTL DEF Spec

-----------------------------------------------------------------------------
(* Casts of integers. *)

\* What both casts of an integer to an integer type are.
IntegerCast(x, t) ==
  IF x.null THEN GetNullValueByType(t)
  ELSE IF Bits[t] < Bits[x.type] /\ (x.v > IntMax(t) \/ x.v < IntMin(t))
       THEN Error("OUT_OF_RANGE") ELSE Value(t, x.v)

LEMMA CastIsIntegerCast ==
  ASSUME NEW x, IsInteger(x), NEW t \in Integers4
  PROVE  CastAs(x, t) = IntegerCast(x, t) /\ FactoryCast(x, t) = IntegerCast(x, t)
<1> DEFINE T == Bits["TINYINT"]
           S == Bits["SMALLINT"]
           I == Bits["INTEGER"]
           B == Bits["BIGINT"]
<1>1. T \in Nat /\ S \in Nat /\ I \in Nat /\ B \in Nat /\ T < S /\ S < I /\ I < B
  BY Limits, Widths
<1>2. x.type \in Integers4 /\ t # "VARCHAR" /\ t # "BOOLEAN" /\ t # "DECIMAL"
      /\ x.type # "VARCHAR" /\ x.type # "BOOLEAN" /\ x.type # "DECIMAL" /\ x.null \in BOOLEAN
  <2>1. IsNumber(x)
    BY DEF IsNumber
  <2> QED BY <2>1, IntegerFacts, NumberFacts DEF Integers4
<1>3. ASSUME NEW checked, t \in checked <=> Bits[t] < Bits[x.type]
      PROVE  IntegerCastAs(x, t, checked) = IntegerCast(x, t)
  <2> DEFINE out == x.v > IntMax(t) \/ x.v < IntMin(t)
             res == IF t \in checked /\ out THEN Error("OUT_OF_RANGE") ELSE Value(t, x.v)
  <2>1. IntegerCastAs(x, t, checked) =
          IF x.null THEN GetNullValueByType(t)
          ELSE CASE t \in Integers4 -> res [] t = "DECIMAL" -> DecimalValue(Double(x.v))
    BY <1>2, Zenon DEF IntegerCastAs
  <2> HIDE DEF out
  <2>2. IntegerCastAs(x, t, checked) = IF x.null THEN GetNullValueByType(t) ELSE res
    <3> HIDE DEF res
    <3> QED BY <1>2, <2>1
  <2>3. res = IF Bits[t] < Bits[x.type] /\ out THEN Error("OUT_OF_RANGE") ELSE Value(t, x.v)
    BY <1>3
  <2> HIDE DEF res
  <2>4. IntegerCast(x, t) = IF x.null THEN GetNullValueByType(t) ELSE
          (IF Bits[t] < Bits[x.type] /\ out THEN Error("OUT_OF_RANGE") ELSE Value(t, x.v))
    BY Zenon DEF IntegerCast, out
  <2> QED BY <2>2, <2>3, <2>4
<1>4. CastAs(x, t) = IntegerCast(x, t)
  <2>1. CASE x.type = "TINYINT"
    <3>1. CastAs(x, t) = IntegerCastAs(x, t, {})
      BY <1>2, <2>1 DEF CastAs, TinyintCastAs
    <3>2. t \in {} <=> Bits[t] < Bits[x.type]
      BY <1>1, <2>1 DEF Integers4
    <3> QED BY <1>3, <3>1, <3>2
  <2>2. CASE x.type = "SMALLINT"
    <3>1. CastAs(x, t) = IntegerCastAs(x, t, {"TINYINT"})
      BY <1>2, <2>2 DEF CastAs, SmallintCastAs
    <3>2. t \in {"TINYINT"} <=> Bits[t] < Bits[x.type]
      BY <1>1, <2>2 DEF Integers4
    <3> QED BY <1>3, <3>1, <3>2
  <2>3. CASE x.type = "INTEGER"
    <3>1. CastAs(x, t) = IntegerCastAs(x, t, {"TINYINT", "SMALLINT"})
      BY <1>2, <2>3 DEF CastAs, IntegerTypeCastAs
    <3>2. t \in {"TINYINT", "SMALLINT"} <=> Bits[t] < Bits[x.type]
      BY <1>1, <2>3 DEF Integers4
    <3> QED BY <1>3, <3>1, <3>2
  <2>4. CASE x.type = "BIGINT"
    <3>1. CastAs(x, t) = IntegerCastAs(x, t, {"TINYINT", "SMALLINT", "INTEGER"})
      BY <1>2, <2>4 DEF CastAs, BigintCastAs
    <3>2. t \in {"TINYINT", "SMALLINT", "INTEGER"} <=> Bits[t] < Bits[x.type]
      BY <1>1, <2>4 DEF Integers4
    <3> QED BY <1>3, <3>1, <3>2
  <2> QED BY <1>2, <2>1, <2>2, <2>3, <2>4 DEF Integers4
<1>5. FactoryCast(x, t) = IntegerCast(x, t)
  <2>1. FactoryCast(x, t) = FactoryCastToInteger(x, t)
    BY <1>2 DEF FactoryCast, Integers4, CastAsTinyInt, CastAsSmallInt, CastAsInteger, CastAsBigInt
  <2> DEFINE out == x.v > IntMax(t) \/ x.v < IntMin(t)
             res == IF Bits[t] < Bits[x.type] /\ out THEN Error("OUT_OF_RANGE") ELSE Value(t, x.v)
             dec == IF x.v > Double(IntMax(t)) \/ x.v < Double(IntMin(t))
                    THEN Error("OUT_OF_RANGE") ELSE Value(t, Trunc(x.v, 2))
  <2>2. FactoryCastToInteger(x, t) =
          IF ~IsCoercableFrom(t, x.type) THEN Error("not coercable")
          ELSE IF x.null THEN GetNullValueByType(t)
          ELSE CASE x.type \in Integers4 -> res
                 [] x.type = "DECIMAL" -> dec
                 [] x.type = "VARCHAR" -> TextToInteger(ToString(x), t)
    BY Zenon DEF FactoryCastToInteger
  <2>3. IsCoercableFrom(t, x.type)
    BY <1>2 DEF IsCoercableFrom, Numeric
  <2>4. IntegerCast(x, t) = IF x.null THEN GetNullValueByType(t) ELSE res
    BY Zenon DEF IntegerCast
  <2> HIDE DEF res, dec
  <2>5. FactoryCastToInteger(x, t) = IF x.null THEN GetNullValueByType(t) ELSE res
    BY <1>2, <2>2, <2>3
  <2> QED BY <2>1, <2>4, <2>5
<1> QED BY <1>4, <1>5

\* An integer that is not NULL and that the type can hold is cast to it.
LEMMA IntegerCastKeeps ==
  ASSUME NEW x, IsInteger(x), ~x.null, NEW t \in Integers4
  PROVE  /\ x.v \in IntMin(t) .. IntMax(t) => IntegerCast(x, t) = Holding(t, x.v)
         /\ x.v \notin IntMin(t) .. IntMax(t) => IntegerCast(x, t) = Error("OUT_OF_RANGE")
<1>1. /\ x.type \in Integers4 /\ x.v \in Int /\ x.v \in IntNull(x.type) .. IntMax(x.type)
      /\ x.v # IntNull(x.type)
  BY IntegerFacts
<1> DEFINE h == Half(t)
           g == Half(x.type)
<1>2. /\ h \in Nat /\ IntMax(t) = h - 1 /\ IntNull(t) = -h /\ IntMin(t) = 1 - h
      /\ g \in Nat /\ IntMax(x.type) = g - 1 /\ IntNull(x.type) = -g
      /\ Bits[t] \in Nat /\ Bits[x.type] \in Nat
  BY <1>1, Limits
<1>3. ~(Bits[t] < Bits[x.type]) => g <= h
  <2> SUFFICES ASSUME ~(Bits[t] < Bits[x.type]) PROVE g <= h
    OBVIOUS
  <2>1. Bits[t] - 1 \in Nat /\ Bits[x.type] - 1 \in Nat /\ Bits[x.type] - 1 <= Bits[t] - 1
    BY <1>1, BitsAssumption
  <2> QED BY <2>1, PowersGrow DEF Half
<1> HIDE DEF h, g
<1>4. ASSUME x.v \in IntMin(t) .. IntMax(t) PROVE IntegerCast(x, t) = Holding(t, x.v)
  <2>1. ~(x.v > IntMax(t) \/ x.v < IntMin(t)) /\ x.v \in IntNull(t) .. IntMax(t)
    BY <1>1, <1>2, <1>4
  <2>2. Value(t, x.v) = Holding(t, x.v)
    BY <1>1, <2>1, ValueMakes
  <2>3. IntegerCast(x, t) = Value(t, x.v)
    BY <2>1, Zenon DEF IntegerCast
  <2> QED BY <2>2, <2>3
<1>5. ASSUME x.v \notin IntMin(t) .. IntMax(t) PROVE IntegerCast(x, t) = Error("OUT_OF_RANGE")
  <2>1. x.v > IntMax(t) \/ x.v < IntMin(t)
    BY <1>1, <1>2, <1>5
  <2>2. Bits[t] < Bits[x.type]
    BY <1>1, <1>2, <1>3, <2>1
  <2> QED BY <2>1, <2>2, Zenon, ZenonT(30) DEF IntegerCast
<1> QED BY <1>4, <1>5

\* No integer becomes the NULL of DECIMAL.
LEMMA DoubleNotNull ==
  ASSUME NEW x, IsInteger(x)
  PROVE  Double(x.v) # DecimalNull
<1> DEFINE H == Half("BIGINT")
           v == x.v
<1>1. x.type \in Integers4 /\ v \in Int /\ v \in IntNull(x.type) .. IntMax(x.type)
  BY IntegerFacts
<1>2. Half(x.type) <= H /\ Half(x.type) \in Nat
  <2>1. /\ Half("TINYINT") \in Nat /\ Half("SMALLINT") \in Nat
        /\ Half("INTEGER") \in Nat /\ Half("BIGINT") \in Nat
    BY Limits, Widths
  <2>2. /\ 2 * Half("TINYINT") <= Half("SMALLINT") /\ 2 * Half("SMALLINT") <= Half("INTEGER")
        /\ 2 * Half("INTEGER") <= Half("BIGINT")
    BY Widths
  <2> QED BY <1>1, <2>1, <2>2 DEF Integers4
<1>3. H \in Nat /\ H >= 2 /\ DecimalNull = -(8 * H)
  BY Limits, Widths DEF DecimalNull
<1>4. -H <= v
  BY <1>1, <1>2, <1>3, Limits
<1> HIDE DEF H, v
<1> DEFINE q == (v + 1) \div 4
<1>5. q \in Int /\ 4 * q >= v - 2
  BY <1>1
<1> HIDE DEF q
<1>6. Double(v) = 2 * v \/ Double(v) = 2 * (4 * q)
  BY DEF Double, q
<1>7. Double(v) # -(8 * H)
  BY <1>1, <1>3, <1>4, <1>5, <1>6
<1> QED BY <1>3, <1>7 DEF v

\* A text made of an integer is read as the integer.
LEMMA TextRoundTrip ==
  ASSUME NEW x, IsInteger(x), ~x.null
  PROVE  CastAs(VarcharValue(IntegerText(x.v)), x.type) = x
<1> DEFINE s == x.type
           v == x.v
           c == VarcharValue(IntegerText(v))
           w == IF s = "BIGINT" THEN s ELSE "INTEGER"
<1>1. /\ s \in Integers4 /\ v \in Int /\ v \in IntNull(s) .. IntMax(s) /\ v # IntNull(s)
      /\ x = Holding(s, v) /\ s # "VARCHAR" /\ s # "BOOLEAN" /\ s # "DECIMAL"
  BY IntegerFacts
<1>2. c.type = "VARCHAR" /\ ~c.null /\ c.text = IntegerText(v)
  BY DEF VarcharValue
<1>3. CastAs(c, s) = VarlenCastAs(c, s)
  <2> HIDE DEF c, s
  <2> QED BY <1>1, <1>2 DEF CastAs
<1>4. ToString(c) = IntegerText(v)
  <2> HIDE DEF c
  <2> QED BY <1>2 DEF ToString
<1> HIDE DEF c
<1>5. CastAs(c, s) = TextTo(IntegerText(v), s)
  BY <1>1, <1>3, <1>4 DEF VarlenCastAs
<1> HIDE DEF s, v
<1>6. TextTo(IntegerText(v), s) = TextToInteger(IntegerText(v), s)
  BY <1>1, Zenon, ZenonT(30) DEF TextTo
<1>7. w \in Integers4 /\ v \in IntNull(w) .. IntMax(w)
  <2>1. w \in Integers4 /\ Half(s) <= Half(w)
    <3>1. /\ Half("TINYINT") \in Nat /\ Half("SMALLINT") \in Nat
          /\ Half("INTEGER") \in Nat /\ Half("BIGINT") \in Nat
      BY Limits, Widths
    <3>2. /\ 2 * Half("TINYINT") <= Half("SMALLINT") /\ 2 * Half("SMALLINT") <= Half("INTEGER")
      BY Widths
    <3> QED BY <1>1, <3>1, <3>2 DEF Integers4
  <2> HIDE DEF w
  <2>2. /\ IntNull(s) = -Half(s) /\ IntMax(s) = Half(s) - 1 /\ Half(s) \in Nat
        /\ IntNull(w) = -Half(w) /\ IntMax(w) = Half(w) - 1 /\ Half(w) \in Nat
    BY <1>1, <2>1, Limits
  <2> QED BY <1>1, <2>1, <2>2
<1>8. Stoi(IntegerText(v), w) = [v |-> v]
  <2> HIDE DEF w
  <2> QED BY <1>7, StoiOfText
<1>9. TextToInteger(IntegerText(v), s) = NarrowedTo(s, [v |-> v])
  BY <1>8 DEF TextToInteger
<1>10. ~IsError([v |-> v]) /\ [v |-> v].v = v
  BY DEF IsError
<1>11. Wrap(s, v) = v
  BY <1>1, Wraps
<1>12. ~(v < IntMin(s))
  BY <1>1, Limits
<1>13. Value(s, v) = Holding(s, v)
  BY <1>1, ValueMakes
<1>14. NarrowedTo(s, [v |-> v]) = Holding(s, v)
  BY <1>10, <1>11, <1>12, <1>13 DEF NarrowedTo
<1> QED BY <1>1, <1>5, <1>6, <1>9, <1>14 DEF c, s, v

LEMMA InvCastsKeepNumbers == ValuesInv => CastsKeepNumbers
<1> SUFFICES ASSUME ValuesInv, left.type \in Integers4, NEW t \in TypeIds \ {"BOOLEAN"}
             PROVE  LET c == CastAs(left, t)
                    IN  /\ c = FactoryCast(left, t)
                        /\ IF IsError(c) THEN c = Error("OUT_OF_RANGE") /\ left.v \notin IntMin(t)..IntMax(t)
                           ELSE /\ c.null = left.null
                                /\ t \in Integers4 /\ ~c.null => c.v = left.v
                                /\ t \in Integers4 \union {"VARCHAR"} /\ ~c.null => CastAs(c, left.type) = left
  BY DEF CastsKeepNumbers
<1> DEFINE c == CastAs(left, t)
           v == left.v
<1>1. IsInteger(left) /\ IsNumber(left)
  BY NumericValues DEF ValuesInv, IsNumber
<1>2. /\ left.type \in Integers4 /\ left.type # "VARCHAR" /\ left.type # "BOOLEAN" /\ left.type # "DECIMAL"
      /\ v \in Int /\ v \in IntNull(left.type) .. IntMax(left.type) /\ left.null \in BOOLEAN
      /\ left = Holding(left.type, v) /\ (left.null <=> v = IntNull(left.type))
  BY <1>1, IntegerFacts, NumberFacts
<1>3. CASE t \in Integers4
  <2>1. c = IntegerCast(left, t) /\ FactoryCast(left, t) = c
    BY <1>1, <1>3, CastIsIntegerCast
  <2>2. CASE left.null
    <3>1. c = GetNullValueByType(t)
      BY <2>1, <2>2 DEF IntegerCast
    <3>2. ~IsError(c) /\ c.null = TRUE
      BY <1>3, <3>1, NullValues, Zenon, ZenonT(30) DEF Numeric
    <3> HIDE DEF c
    <3> QED BY <1>2, <2>1, <2>2, <3>2, Zenon, ZenonT(30) DEF c
  <2>3. CASE ~left.null /\ v \notin IntMin(t) .. IntMax(t)
    <3>1. c = Error("OUT_OF_RANGE")
      BY <1>1, <1>3, <2>1, <2>3, IntegerCastKeeps
    <3> HIDE DEF c
    <3> QED BY <2>1, <2>3, <3>1, Errors DEF c
  <2>4. CASE ~left.null /\ v \in IntMin(t) .. IntMax(t)
    <3>1. c = Holding(t, v)
      BY <1>1, <1>3, <2>1, <2>4, IntegerCastKeeps
    <3>2. v \in IntNull(t) .. IntMax(t) /\ v # IntNull(t)
      BY <1>2, <1>3, <2>4, Limits
    <3> HIDE DEF c, v
    <3>3. IsInteger(c) /\ c.type = t /\ c.v = v
      BY <1>3, <3>1, <3>2 DEF IsInteger, Holding
    <3>4. ~c.null /\ ~IsError(c)
      BY <3>2, <3>3, IntegerFacts
    <3>5. v \in IntMin(left.type) .. IntMax(left.type)
      BY <1>2, <2>4, Limits
    <3>6. CastAs(c, left.type) = Holding(left.type, v)
      BY <1>2, <3>3, <3>4, <3>5, CastIsIntegerCast, IntegerCastKeeps
    <3>7. c.null = left.null
      <4>1. c.null \in BOOLEAN
        BY <3>3, NumberFacts DEF IsNumber
      <4> QED BY <1>2, <2>4, <3>4, <4>1
    <3> QED BY <1>2, <2>1, <3>3, <3>4, <3>6, <3>7 DEF c, v
  <2> QED BY <2>2, <2>3, <2>4
<1>4. CASE t = "DECIMAL"
  <2> DEFINE n == GetNullValueByType("DECIMAL")
             d == DecimalValue(Double(v))
  <2>0. t \notin Integers4 /\ t # "VARCHAR" /\ t # "BOOLEAN"
    BY <1>4 DEF Integers4
  <2>1. PICK checked : c = IntegerCastAs(left, t, checked)
    BY <1>2, <2>0 DEF CastAs, Integers4, TinyintCastAs, SmallintCastAs, IntegerTypeCastAs, BigintCastAs
  <2>2. c = IF left.null THEN n ELSE d
    <3>1. c = IF left.null THEN n ELSE DecimalValue(Double(left.v))
      <4> HIDE DEF c
      <4> QED BY <1>4, <2>0, <2>1 DEF IntegerCastAs
    <3> QED BY <3>1
  <2>3. FactoryCast(left, t) = CastAsDecimal(left)
    BY <1>4 DEF FactoryCast
  <2>4. IsCoercableFrom("DECIMAL", left.type)
    BY <1>2 DEF IsCoercableFrom, Numeric
  <2>5. CastAsDecimal(left) = IF left.null THEN n ELSE d
    BY <1>2, <2>4 DEF CastAsDecimal
  <2>6. ~IsError(n) /\ n.null = TRUE
    BY NullValues, Zenon DEF Numeric
  <2>7. ~IsError(d) /\ d.null = FALSE
    <3>1. d = Holding("DECIMAL", Double(v)) /\ Double(v) # NullOf("DECIMAL")
      BY <1>1, DoubleNotNull DEF DecimalValue, NullOf
    <3> HIDE DEF d
    <3> QED BY <3>1, Zenon DEF Holding, IsError
  <2> HIDE DEF c, n, d
  <2>8. ~IsError(c) /\ c.null = left.null
    BY <1>2, <2>2, <2>6, <2>7, Zenon, ZenonT(30)
  <2> QED BY <2>0, <2>2, <2>3, <2>5, <2>8 DEF c
<1>5. CASE t = "VARCHAR"
  <2>0. t \notin Integers4
    BY <1>5 DEF Integers4
  <2>1. c = CastAsVarchar(left) /\ FactoryCast(left, t) = CastAsVarchar(left)
    BY <1>2, <1>5 DEF CastAs, FactoryCast
  <2>2. ToString(left) = IntegerText(v) \/ left.null
    BY <1>2 DEF ToString
  <2>3. CASE left.null
    <3>1. c = VarcharNull
      BY <2>1, <2>3 DEF CastAsVarchar
    <3>2. ~IsError(c) /\ c.null = TRUE
      BY <3>1 DEF IsError, VarcharNull
    <3> HIDE DEF c
    <3> QED BY <1>2, <2>1, <2>3, <3>2, Zenon, ZenonT(30) DEF c
  <2>4. CASE ~left.null
    <3>1. c = VarcharValue(IntegerText(v))
      BY <2>1, <2>2, <2>4 DEF CastAsVarchar
    <3>2. ~IsError(c) /\ c.null = FALSE
      BY <3>1 DEF IsError, VarcharValue
    <3>3. CastAs(c, left.type) = left
      BY <1>1, <2>4, <3>1, TextRoundTrip
    <3> HIDE DEF c
    <3> QED BY <1>2, <2>0, <2>1, <2>4, <3>2, <3>3, Zenon, ZenonT(30) DEF c
  <2> QED BY <2>3, <2>4
<1> QED BY <1>3, <1>4, <1>5 DEF TypeIds, Numeric

-----------------------------------------------------------------------------
(* For every width of the integers and every largest decimal. *)

(* Arithmetic on integers computes the exact number in the wider type of the two
   or throws OUT_OF_RANGE, and throws otherwise only on a division by zero
   (integer_parent_type.h:79-173); MIN - 1, the number of NULL, is left open. *)
THEOREM ArithmeticIsExact == Spec => []ArithmeticExact
BY ValuesStayValues, InvArithmeticExact, PTL

(* NULL is absorbing and does not change the type of a result (OperateNull of
   the numeric types agrees with the templates of integer_parent_type.h). *)
THEOREM NullStaysTyped == Spec => []NullKeepsType
BY ValuesStayValues, InvNullKeepsType, PTL

(* The six comparisons of two numbers are those of one order, whatever their
   types, and CmpNull with a NULL (type.h:50-58 and the Compare methods of the
   numeric types). *)
THEOREM ComparisonsAgree == Spec => []ComparisonLaws
BY ValuesStayValues, InvComparisonLaws, PTL

(* Integers that compare equal hash alike, whatever their widths
   (HashUtil::HashValue of hash_util.h). *)
THEOREM EqualValuesHashAlike == Spec => []EqualHashesAlike
BY ValuesStayValues, InvEqualHashesAlike, PTL

(* A cast of an integer keeps the number or throws OUT_OF_RANGE, the cast back
   gives the value again, through a text as well, and ValueFactory::CastAs...
   agrees with Value::CastAs (CastAs of the types, value_factory.h). *)
THEOREM CastsAreFaithful == Spec => []CastsKeepNumbers
BY ValuesStayValues, InvCastsKeepNumbers, PTL

(* A tuple gives back the values that it was built from, and so does a key that
   is cut out of it: no two of its columns share a byte (tuple.cpp:24-62 and
   98-130).  GetsValue shows it for every schema and every row. *)
THEOREM TuplesKeepValues == Spec => []TupleRoundTrip
BY ValuesStayValues, InvTupleRoundTrip, PTL

=============================================================================
