---------------------- MODULE ExtendibleHashTable_proofs ---------------------
(***************************************************************************)
(* The directory of the extendible hash table stays intact through every   *)
(* split, its count of buckets is exact, and the table is a map, for every *)
(* bucket size, every set of keys and every bound on the depth.            *)
(***************************************************************************)
EXTENDS ExtendibleHashTable, FiniteSetTheorems, WellFoundedInduction, TLAPS

\* Leaves that name no prover are tried with these, in this order.
USE SMT, Zenon, SMTT(30), ZenonT(30)

-----------------------------------------------------------------------------
(* Induction over the naturals, and functions defined by it. *)

\* A set that holds 0 and the successors of its elements holds every natural.
LEMMA SetInduction ==
  ASSUME NEW S, 0 \in S, \A n \in Nat : n \in S => n + 1 \in S
  PROVE  Nat \subseteq S
<1> SUFFICES ASSUME Nat \ S # {} PROVE FALSE
  OBVIOUS
<1>1. PICK m \in Nat \ S : \A y \in Nat \ S : ~ (<<y, m>> \in OpToRel(<, Nat))
  BY WFMin, NatLessThanWellFounded, Zenon
<1>2. m # 0 /\ m - 1 \in Nat
  OBVIOUS
<1>3. m - 1 \in Nat \ S
  <2>1. m - 1 \in S => (m - 1) + 1 \in S
    BY <1>2
  <2>2. (m - 1) + 1 = m
    OBVIOUS
  <2> QED BY <1>2, <2>1, <2>2
<1>4. <<m - 1, m>> \in OpToRel(<, Nat)
  BY <1>2 DEF OpToRel
<1> QED BY <1>1, <1>3, <1>4, Zenon

\* f starts from c and takes N steps.
Unrolls(f, c, N, step) == f[0] = c /\ \A i \in 1 .. N : f[i] = step[i][f[i - 1]]

\* A recursion of finitely many steps has a solution.
LEMMA Recursion ==
  ASSUME NEW X, NEW c \in X, NEW N \in Nat, NEW step \in [1 .. N -> [X -> X]]
  PROVE  \E f \in [0 .. N -> X] : Unrolls(f, c, N, step)
<1> DEFINE Solves(f, n) == f[0] = c /\ \A i \in 1 .. n : f[i] = step[i][f[i - 1]]
           S == {n \in Nat : n <= N => \E f \in [0 .. n -> X] : Solves(f, n)}
<1>1. 0 \in S
  <2>1. [i \in 0 .. 0 |-> c] \in [0 .. 0 -> X] /\ Solves([i \in 0 .. 0 |-> c], 0)
    OBVIOUS
  <2> QED BY <2>1, Zenon
<1>2. ASSUME NEW n \in Nat, n \in S PROVE n + 1 \in S
  <2> SUFFICES ASSUME n + 1 <= N PROVE \E f \in [0 .. n + 1 -> X] : Solves(f, n + 1)
    OBVIOUS
  <2>1. PICK f \in [0 .. n -> X] : Solves(f, n)
    BY <1>2
  <2> DEFINE g == [i \in 0 .. n + 1 |-> IF i = n + 1 THEN step[i][f[n]] ELSE f[i]]
  <2>2. g \in [0 .. n + 1 -> X]
    <3>1. n + 1 \in 1 .. N /\ f[n] \in X
      OBVIOUS
    <3>2. step[n + 1][f[n]] \in X
      BY <3>1
    <3> QED BY <3>2
  <2>3. g[0] = c
    BY <2>1
  <2>4. ASSUME NEW i \in 1 .. n + 1 PROVE g[i] = step[i][g[i - 1]]
    <3>1. CASE i = n + 1
      BY <3>1
    <3>2. CASE i # n + 1
      <4>1. i \in 1 .. n /\ i - 1 \in 0 .. n
        BY <3>2
      <4> QED BY <2>1, <3>2, <4>1
    <3> QED BY <3>1, <3>2
  <2> QED BY <2>2, <2>3, <2>4, Zenon
<1>3. N \in S
  BY <1>1, <1>2, SetInduction, Zenon
<1> QED BY <1>3 DEF Unrolls

-----------------------------------------------------------------------------
(* Powers of two, and the bits of a number. *)

\* Pow2 solves its recursion.
LEMMA Powers ==
  /\ Pow2 \in [0 .. MaxDepth -> Nat \ {0}]
  /\ Pow2[0] = 1
  /\ \A n \in 1 .. MaxDepth : Pow2[n] = 2 * Pow2[n - 1]
<1> DEFINE X == Nat \ {0}
           step == [i \in 1 .. MaxDepth |-> [x \in X |-> 2 * x]]
           Rec(f) == f = [n \in 0 .. MaxDepth |-> IF n = 0 THEN 1 ELSE 2 * f[n - 1]]
           pow == CHOOSE f : Rec(f)
<1>0. MaxDepth \in Nat
  BY KeysAssumption
<1>1. PICK f \in [0 .. MaxDepth -> X] : Unrolls(f, 1, MaxDepth, step)
  <2>1. step \in [1 .. MaxDepth -> [X -> X]] /\ 1 \in X
    OBVIOUS
  <2> HIDE DEF X, step
  <2> QED BY <1>0, <2>1, Recursion
<1>2. \A i \in 1 .. MaxDepth : f[i] = 2 * f[i - 1]
  <2> TAKE i \in 1 .. MaxDepth
  <2>1. f[i - 1] \in X
    BY <1>0
  <2> QED BY <1>1, <2>1, Zenon DEF Unrolls
<1>3. Rec(f)
  BY <1>0, <1>1, <1>2 DEF Unrolls
<1>4. Rec(pow)
  BY <1>3, Zenon
<1> HIDE DEF pow
<1> DEFINE T == {n \in Nat : n <= MaxDepth => pow[n] \in X}
<1>5. pow[0] = 1 /\ \A n \in 1 .. MaxDepth : pow[n] = 2 * pow[n - 1]
  BY <1>0, <1>4
<1>6. \A n \in Nat : n \in T
  <2>1. 0 \in T
    BY <1>5
  <2>2. ASSUME NEW n \in Nat, n \in T PROVE n + 1 \in T
    <3>1. CASE n + 1 <= MaxDepth
      <4>1. pow[n + 1] = 2 * pow[n] /\ pow[n] \in X
        BY <1>0, <1>5, <2>2, <3>1
      <4> QED BY <4>1
    <3> QED BY <1>0, <3>1
  <2> HIDE DEF T
  <2> QED BY <2>1, <2>2, SetInduction
<1>7. Pow2 = [n \in 0 .. MaxDepth |-> pow[n]]
  BY DEF Pow2, pow
<1> QED BY <1>0, <1>5, <1>6, <1>7

\* Quotient and remainder.
LEMMA DivMod ==
  ASSUME NEW a \in Nat, NEW m \in Nat \ {0}
  PROVE  a = (m * (a \div m)) + (a % m) /\ a % m \in 0 .. m - 1 /\ a \div m \in Nat
OBVIOUS

\* They are unique.
LEMMA DivModUnique ==
  ASSUME NEW m \in Nat \ {0}, NEW q \in Nat, NEW r \in 0 .. m - 1
  PROVE  ((m * q) + r) % m = r
OBVIOUS

\* The remainder by a multiple determines the remainder.
LEMMA ModMod ==
  ASSUME NEW a \in Nat, NEW m \in Nat \ {0}, NEW c \in Nat \ {0}
  PROVE  (a % (c * m)) % m = a % m
<1> DEFINE A == a \div (c * m)
           R == a % (c * m)
           B == R \div m
           r == R % m
<1>0. c * m \in Nat \ {0}
  OBVIOUS
<1>1. a = ((c * m) * A) + R /\ R \in Nat /\ A \in Nat
  <2>1. \A M \in Nat \ {0} : a = (M * (a \div M)) + (a % M) /\ a % M \in Nat /\ a \div M \in Nat
    BY DivMod
  <2> QED BY <1>0, <2>1, Zenon
<1>2. R = (m * B) + r /\ r \in 0 .. m - 1 /\ B \in Nat
  BY <1>1, DivMod, Zenon
<1> HIDE DEF A, R, B, r
<1>3. a = (m * ((c * A) + B)) + r
  BY <1>1, <1>2
<1>4. (c * A) + B \in Nat
  BY <1>1, <1>2
<1>5. a % m = r
  BY <1>2, <1>3, <1>4, DivModUnique, Zenon
<1> QED BY <1>5 DEF r, R

\* One bit more.
LEMMA ModTwice ==
  ASSUME NEW a \in Nat, NEW m \in Nat \ {0}
  PROVE  a % (2 * m) = (a % m) + (m * ((a \div m) % 2)) /\ (a \div m) % 2 \in {0, 1}
<1> DEFINE Q == a \div m
           R == a % m
<1>1. a = (m * Q) + R /\ R \in 0 .. m - 1 /\ Q \in Nat
  BY DivMod, Zenon
<1>2. PICK h \in Nat, b \in {0, 1} : Q = (2 * h) + b /\ b = Q % 2
  <2>1. Q = (2 * (Q \div 2)) + (Q % 2) /\ Q % 2 \in 0 .. 1 /\ Q \div 2 \in Nat
    BY <1>1, DivMod
  <2> QED BY <2>1
<1> HIDE DEF Q, R
<1>3. a = ((2 * m) * h) + ((m * b) + R)
  BY <1>1, <1>2
<1>4. (m * b) + R \in 0 .. (2 * m) - 1
  BY <1>1, <1>2
<1>5. a % (2 * m) = (m * b) + R
  <2>1. 2 * m \in Nat \ {0}
    OBVIOUS
  <2> QED BY <1>2, <1>3, <1>4, <2>1, DivModUnique, Zenon
<1> QED BY <1>2, <1>5 DEF Q, R

\* A power of two is a multiple of every smaller one.
LEMMA PowersDivide ==
  ASSUME NEW d \in 0 .. MaxDepth, NEW g \in 0 .. MaxDepth, d <= g
  PROVE  \E c \in Nat \ {0} : Pow2[g] = c * Pow2[d]
<1> DEFINE S == {n \in Nat : d + n <= MaxDepth => \E c \in Nat \ {0} : Pow2[d + n] = c * Pow2[d]}
<1>0. MaxDepth \in Nat /\ Pow2[d] \in Nat \ {0}
  BY KeysAssumption, Powers
<1>1. 0 \in S
  <2>1. 1 \in Nat \ {0} /\ Pow2[d + 0] = 1 * Pow2[d]
    BY <1>0
  <2> QED BY <2>1
<1>2. ASSUME NEW n \in Nat, n \in S PROVE n + 1 \in S
  <2> SUFFICES ASSUME d + (n + 1) <= MaxDepth
               PROVE  \E c \in Nat \ {0} : Pow2[d + (n + 1)] = c * Pow2[d]
    OBVIOUS
  <2>1. PICK c \in Nat \ {0} : Pow2[d + n] = c * Pow2[d]
    BY <1>0, <1>2
  <2>2. Pow2[d + (n + 1)] = 2 * Pow2[d + n]
    <3>1. d + (n + 1) \in 1 .. MaxDepth /\ (d + (n + 1)) - 1 = d + n
      BY <1>0
    <3> QED BY <3>1, Powers
  <2>3. 2 * c \in Nat \ {0} /\ Pow2[d + (n + 1)] = (2 * c) * Pow2[d]
    BY <1>0, <2>1, <2>2
  <2> QED BY <2>3
<1> HIDE DEF S
<1>3. g - d \in S
  BY <1>0, <1>1, <1>2, SetInduction
<1> QED BY <1>0, <1>3 DEF S

\* The low bits of a number, of its low bits, and with one bit more.
LEMMA LowBitsFacts ==
  ASSUME NEW a \in Nat, NEW d \in 0 .. MaxDepth
  PROVE  /\ LowBits(a, d) \in 0 .. Pow2[d] - 1
         /\ a < Pow2[d] => LowBits(a, d) = a
<1>1. Pow2[d] \in Nat \ {0}
  BY Powers
<1> DEFINE p == Pow2[d]
<1>2. p \in Nat \ {0}
  BY <1>1
<1> HIDE DEF p
<1>3. a % p \in 0 .. p - 1
  BY <1>2, DivMod
<1>4. a < p => a % p = a
  BY <1>2
<1> QED BY <1>3, <1>4 DEF LowBits, p

\* The low bits of the low bits are the low bits.
LEMMA LowBitsLow ==
  ASSUME NEW a \in Nat, NEW d \in 0 .. MaxDepth, NEW g \in 0 .. MaxDepth, d <= g
  PROVE  LowBits(LowBits(a, g), d) = LowBits(a, d)
<1>1. Pow2[d] \in Nat \ {0}
  BY Powers
<1>2. PICK c \in Nat \ {0} : Pow2[g] = c * Pow2[d]
  BY PowersDivide
<1> QED BY <1>1, <1>2, ModMod DEF LowBits

\* One bit more is the next bit on top.
LEMMA LowBitsMore ==
  ASSUME NEW a \in Nat, NEW d \in 0 .. MaxDepth, d + 1 <= MaxDepth
  PROVE  /\ LowBits(a, d + 1) = LowBits(a, d) + (Pow2[d] * HighBit(a, d))
         /\ HighBit(a, d) \in {0, 1}
<1>1. Pow2[d] \in Nat \ {0} /\ Pow2[d + 1] = 2 * Pow2[d]
  <2>1. MaxDepth \in Nat
    BY KeysAssumption
  <2>2. d + 1 \in 1 .. MaxDepth /\ (d + 1) - 1 = d
    BY <2>1
  <2> QED BY <2>2, Powers
<1> QED BY <1>1, ModTwice, Zenon DEF LowBits, HighBit

\* Two numbers agree on d + 1 bits when they agree on d bits and on the next.
LEMMA AgreeMore ==
  ASSUME NEW a \in Nat, NEW b \in Nat, NEW d \in 0 .. MaxDepth, d + 1 <= MaxDepth
  PROVE  LowBits(a, d + 1) = LowBits(b, d + 1) <=>
           LowBits(a, d) = LowBits(b, d) /\ HighBit(a, d) = HighBit(b, d)
<1>1. Pow2[d] \in Nat \ {0}
  BY Powers
<1>2. /\ LowBits(a, d + 1) = LowBits(a, d) + (Pow2[d] * HighBit(a, d))
      /\ LowBits(b, d + 1) = LowBits(b, d) + (Pow2[d] * HighBit(b, d))
      /\ HighBit(a, d) \in {0, 1} /\ HighBit(b, d) \in {0, 1}
      /\ LowBits(a, d) \in 0 .. Pow2[d] - 1 /\ LowBits(b, d) \in 0 .. Pow2[d] - 1
  BY LowBitsMore, LowBitsFacts
<1> DEFINE p == Pow2[d]
           x == LowBits(a, d)
           y == LowBits(b, d)
           h == HighBit(a, d)
           k1 == HighBit(b, d)
<1>3. /\ p \in Nat \ {0} /\ x \in 0 .. p - 1 /\ y \in 0 .. p - 1 /\ h \in {0, 1} /\ k1 \in {0, 1}
  BY <1>1, <1>2
<1> HIDE DEF p, x, y, h, k1
<1>4. x + (p * h) = y + (p * k1) <=> x = y /\ h = k1
  BY <1>3
<1> QED BY <1>2, <1>4 DEF p, x, y, h, k1

-----------------------------------------------------------------------------
(* The directory. *)

\* d has an entry for each index of g bits, D has the depth of each bucket, and
\* the entries of a bucket are those that agree on as many bits as its depth.
Intact(g, d, D) ==
  /\ DOMAIN d = 0 .. Pow2[g] - 1
  /\ \A i \in DOMAIN d : D[d[i]] \in 0 .. g
  /\ \A i, j \in DOMAIN d : d[i] = d[j] <=> LowBits(i, D[d[i]]) = LowBits(j, D[d[i]])

\* The doubled directory points to the same buckets.
LEMMA DoubledIntact ==
  ASSUME NEW g \in 0 .. MaxDepth, g + 1 <= MaxDepth, NEW d, NEW D, Intact(g, d, D),
         NEW e, e = [i \in 0 .. 2 * Pow2[g] - 1 |-> d[LowBits(i, g)]]
  PROVE  Intact(g + 1, e, D) /\ Range(e) = Range(d)
<1>1. MaxDepth \in Nat /\ Pow2[g] \in Nat \ {0} /\ Pow2[g + 1] = 2 * Pow2[g]
  <2>1. MaxDepth \in Nat
    BY KeysAssumption
  <2>2. g + 1 \in 1 .. MaxDepth /\ (g + 1) - 1 = g
    BY <2>1
  <2> QED BY <2>1, <2>2, Powers
<1>2. DOMAIN e = 0 .. Pow2[g + 1] - 1
  BY <1>1
<1>3. ASSUME NEW i \in DOMAIN e
      PROVE  i \in Nat /\ LowBits(i, g) \in DOMAIN d /\ e[i] = d[LowBits(i, g)] /\ D[e[i]] \in 0 .. g
  <2>1. i \in Nat
    BY <1>2, <1>1
  <2>2. LowBits(i, g) \in DOMAIN d
    BY <2>1, LowBitsFacts, Zenon DEF Intact
  <2> QED BY <2>1, <2>2 DEF Intact
<1>4. ASSUME NEW i \in DOMAIN e, NEW j \in DOMAIN e
      PROVE  e[i] = e[j] <=> LowBits(i, D[e[i]]) = LowBits(j, D[e[i]])
  <2> DEFINE c == D[e[i]]
  <2>1. c \in 0 .. MaxDepth /\ c <= g
    <3>1. c \in 0 .. g
      BY <1>3, Zenon
    <3> HIDE DEF c
    <3> QED BY <1>1, <3>1
  <2>2. LowBits(LowBits(i, g), c) = LowBits(i, c) /\ LowBits(LowBits(j, g), c) = LowBits(j, c)
    BY <1>3, <2>1, LowBitsLow
  <2>3. d[LowBits(i, g)] = d[LowBits(j, g)] <=> LowBits(LowBits(i, g), c) = LowBits(LowBits(j, g), c)
    BY <1>3, Zenon DEF Intact
  <2> QED BY <1>3, <2>2, <2>3
<1>5. Range(e) = Range(d)
  <2>1. ASSUME NEW i \in DOMAIN d PROVE i \in DOMAIN e /\ e[i] = d[i]
    <3>1. i \in Nat /\ i < Pow2[g]
      BY <1>1 DEF Intact
    <3>2. i \in DOMAIN e
      BY <1>1, <3>1
    <3>3. LowBits(i, g) = i
      BY <3>1, LowBitsFacts, Zenon
    <3> QED BY <3>2, <3>3
  <2> QED BY <1>3, <2>1, Zenon DEF Range
<1>6. \A i \in DOMAIN e : D[e[i]] \in 0 .. g + 1
  <2>1. \A v \in 0 .. g : v \in 0 .. g + 1
    BY <1>1
  <2> QED BY <1>3, <2>1, Zenon
<1> QED BY <1>2, <1>4, <1>5, <1>6, Zenon DEF Intact

\* Among the indices of g bits that agree with one on c bits, c < g, there are
\* some with either value of the next bit.
LEMMA BothBits ==
  ASSUME NEW a \in Nat, NEW c \in 0 .. MaxDepth, NEW g \in 0 .. MaxDepth, c + 1 <= g
  PROVE  \A bit \in {0, 1} : \E x \in 0 .. Pow2[g] - 1 :
           LowBits(x, c) = LowBits(a, c) /\ HighBit(x, c) = bit
<1> DEFINE p == Pow2[c]
           q == Pow2[g]
           z == a % p
<1>1. p \in Nat \ {0} /\ q \in Nat \ {0} /\ q >= 2 * p
  <2>1. MaxDepth \in Nat
    BY KeysAssumption
  <2>2. c + 1 \in 1 .. MaxDepth /\ c + 1 \in 0 .. MaxDepth /\ (c + 1) - 1 = c
    BY <2>1
  <2>3. Pow2[c + 1] = 2 * p /\ p \in Nat \ {0} /\ q \in Nat \ {0}
    BY <2>2, Powers
  <2>4. PICK m \in Nat \ {0} : q = m * Pow2[c + 1]
    BY <2>2, PowersDivide
  <2> HIDE DEF p, q
  <2> QED BY <2>3, <2>4
<1> HIDE DEF p, q
<1>2. z \in 0 .. p - 1
  BY <1>1, DivMod
<1> HIDE DEF z
<1>3. z \in 0 .. q - 1 /\ z % p = z /\ (z \div p) % 2 = 0
  BY <1>1, <1>2
<1>4. p + z \in 0 .. q - 1 /\ (p + z) % p = z /\ (p + z) \div p = 1
  BY <1>1, <1>2
<1>5. ((p + z) \div p) % 2 = 1
  BY <1>4
<1> QED BY <1>3, <1>4, <1>5 DEF LowBits, HighBit, p, q, z

\* Splitting a bucket whose depth leaves a bit to tell its entries apart.
LEMMA RepointedIntact ==
  ASSUME NEW g \in 0 .. MaxDepth, NEW d, NEW D, Intact(g, d, D),
         NEW t \in Range(d), D[t] < g,
         NEW b0, NEW b1, b0 # b1, b0 \notin Range(d), b1 \notin Range(d),
         NEW E, \A b \in Range(d) \ {t} : E[b] = D[b], E[b0] = D[t] + 1, E[b1] = D[t] + 1,
         NEW r, r = Repointed(d, t, D[t], b0, b1)
  PROVE  Intact(g, r, E) /\ Range(r) = (Range(d) \ {t}) \union {b0, b1}
<1> DEFINE c == D[t]
<1>0. PICK i0 \in DOMAIN d : d[i0] = t
  BY DEF Range
<1>1. MaxDepth \in Nat /\ g \in Nat /\ c \in 0 .. MaxDepth /\ c + 1 <= g /\ c + 1 \in 0 .. MaxDepth
  <2>1. MaxDepth \in Nat
    BY KeysAssumption
  <2>2. c \in 0 .. g
    BY <1>0 DEF Intact
  <2> QED BY <2>1, <2>2
<1>2. DOMAIN r = DOMAIN d /\ \A i \in DOMAIN d : i \in Nat
  BY <1>1, Powers DEF Repointed, Intact
<1>3. \A i \in DOMAIN d : /\ d[i] # t => r[i] = d[i]
                          /\ d[i] = t /\ HighBit(i, c) = 1 => r[i] = b1
                          /\ d[i] = t /\ HighBit(i, c) # 1 => r[i] = b0
  BY DEF Repointed
<1>4. \A i \in DOMAIN d : HighBit(i, c) \in {0, 1}
  BY <1>1, <1>2, LowBitsMore
<1> HIDE DEF c
<1>5. \A i \in DOMAIN d : d[i] \in Range(d)
  BY DEF Range
<1>6. \A i \in DOMAIN r : E[r[i]] \in 0 .. g
  <2> SUFFICES ASSUME NEW i \in DOMAIN d PROVE E[r[i]] \in 0 .. g
    BY <1>2
  <2>1. CASE d[i] = t
    BY <1>1, <1>3, <2>1 DEF c
  <2>2. CASE d[i] # t
    BY <1>3, <1>5, <2>2 DEF Intact
  <2> QED BY <2>1, <2>2
<1>7. ASSUME NEW i \in DOMAIN d, NEW j \in DOMAIN d
      PROVE  r[i] = r[j] <=> LowBits(i, E[r[i]]) = LowBits(j, E[r[i]])
  <2>1. CASE d[i] # t
    <3>1. r[i] = d[i] /\ E[r[i]] = D[d[i]] /\ r[i] # b0 /\ r[i] # b1
      BY <1>3, <1>5, <2>1
    <3>2. r[i] = r[j] <=> d[i] = d[j]
      BY <1>3, <1>5, <2>1, <3>1
    <3> QED BY <3>1, <3>2 DEF Intact
  <2>2. CASE d[i] = t
    <3>1. E[r[i]] = c + 1 /\ r[i] \in {b0, b1}
      BY <1>3, <2>2 DEF c
    <3>2. d[j] = t <=> LowBits(i, c) = LowBits(j, c)
      BY <2>2 DEF Intact, c
    <3>3. LowBits(i, c + 1) = LowBits(j, c + 1) <=> d[j] = t /\ HighBit(i, c) = HighBit(j, c)
      BY <1>1, <1>2, <3>2, AgreeMore
    <3>4. r[i] = r[j] <=> d[j] = t /\ HighBit(i, c) = HighBit(j, c)
      <4>1. CASE d[j] # t
        BY <1>3, <1>5, <3>1, <4>1
      <4>2. CASE d[j] = t
        BY <1>3, <1>4, <2>2, <4>2
      <4> QED BY <4>1, <4>2
    <3> QED BY <3>1, <3>3, <3>4
  <2> QED BY <2>1, <2>2
<1>8. Range(r) = (Range(d) \ {t}) \union {b0, b1}
  <2>1. Range(r) \subseteq (Range(d) \ {t}) \union {b0, b1}
    BY <1>2, <1>3, <1>5 DEF Range
  <2>2. ASSUME NEW b \in Range(d) \ {t} PROVE b \in Range(r)
    BY <1>2, <1>3 DEF Range
  <2>3. b0 \in Range(r) /\ b1 \in Range(r)
    <3>1. ASSUME NEW bit \in {0, 1} PROVE \E x \in DOMAIN d : d[x] = t /\ HighBit(x, c) = bit
      <4>1. PICK x \in 0 .. Pow2[g] - 1 : LowBits(x, c) = LowBits(i0, c) /\ HighBit(x, c) = bit
        <5>1. i0 \in Nat
          BY <1>0, <1>2
        <5> QED BY <1>1, <3>1, <5>1, BothBits, Zenon
      <4>2. x \in DOMAIN d
        BY <4>1 DEF Intact
      <4>3. d[i0] = d[x]
        BY <1>0, <4>1, <4>2 DEF Intact, c
      <4> QED BY <1>0, <4>1, <4>2, <4>3
    <3>2. PICK x \in DOMAIN d : d[x] = t /\ HighBit(x, c) = 0
      BY <3>1
    <3>3. PICK y \in DOMAIN d : d[y] = t /\ HighBit(y, c) = 1
      BY <3>1
    <3>4. r[x] = b0 /\ r[y] = b1
      BY <1>3, <3>2, <3>3
    <3> QED BY <1>2, <3>4 DEF Range
  <2> QED BY <2>1, <2>2, <2>3
<1> QED BY <1>2, <1>6, <1>7, <1>8 DEF Intact

-----------------------------------------------------------------------------
(* The lists of the buckets. *)

\* No key is in a list twice.
Distinct(list) == \A m, n \in DOMAIN list : list[m][1] = list[n][1] => m = n

\* A pair at the end of a list.
LEMMA AppendFacts ==
  ASSUME NEW P, NEW s \in Seq(P), NEW x \in P
  PROVE  /\ Append(s, x) \in Seq(P)
         /\ Len(Append(s, x)) = Len(s) + 1
         /\ Range(Append(s, x)) = Range(s) \union {x}
         /\ Distinct(s) /\ (\A n \in DOMAIN s : s[n][1] # x[1]) => Distinct(Append(s, x))
<1>1. /\ Append(s, x) \in Seq(P) /\ Len(Append(s, x)) = Len(s) + 1
      /\ DOMAIN Append(s, x) = 1 .. Len(s) + 1 /\ DOMAIN s = 1 .. Len(s) /\ Len(s) \in Nat
      /\ Append(s, x)[Len(s) + 1] = x
      /\ \A n \in 1 .. Len(s) : Append(s, x)[n] = s[n]
  OBVIOUS
<1>2. \A n \in 1 .. Len(s) + 1 : n # Len(s) + 1 => n \in 1 .. Len(s)
  BY <1>1
<1>3. Len(s) + 1 \in 1 .. Len(s) + 1 /\ \A n \in 1 .. Len(s) : n \in 1 .. Len(s) + 1
  BY <1>1
<1> DEFINE a == Append(s, x)
<1> HIDE DEF a
<1>4. Range(a) = Range(s) \union {x}
  <2>1. ASSUME NEW y \in Range(a) PROVE y \in Range(s) \union {x}
    BY <1>1, <1>2, <2>1, Zenon DEF Range, a
  <2>2. ASSUME NEW y \in Range(s) \union {x} PROVE y \in Range(a)
    BY <1>1, <1>3, <2>2, Zenon DEF Range, a
  <2> QED BY <2>1, <2>2
<1>5. ASSUME Distinct(s), \A n \in DOMAIN s : s[n][1] # x[1],
             NEW m \in DOMAIN a, NEW n \in DOMAIN a, a[m][1] = a[n][1]
      PROVE  m = n
  <2>1. /\ (m \in 1 .. Len(s) /\ a[m] = s[m]) \/ (m = Len(s) + 1 /\ a[m] = x)
        /\ (n \in 1 .. Len(s) /\ a[n] = s[n]) \/ (n = Len(s) + 1 /\ a[n] = x)
    BY <1>1, <1>2, <1>5, Zenon DEF a
  <2> QED BY <1>1, <1>5, <2>1, Zenon DEF Distinct
<1> QED BY <1>1, <1>4, <1>5 DEF Distinct, a

\* Kept keeps the pairs at the given positions, each once, and no others.
LEMMA KeptFacts ==
  ASSUME NEW P, NEW list \in Seq(P), NEW positions \in SUBSET DOMAIN list
  PROVE  /\ Kept(list, positions) \in Seq(P)
         /\ Len(Kept(list, positions)) <= Len(list)
         /\ Range(Kept(list, positions)) = {list[n] : n \in positions}
         /\ Distinct(list) => Distinct(Kept(list, positions))
<1> DEFINE N == Len(list)
           step == [i \in 1 .. N |-> [s \in Seq(P) |->
                      IF i \in positions THEN Append(s, list[i]) ELSE s]]
           Rec(f) == f = [n \in 0 .. N |->
                            IF n = 0 THEN << >>
                            ELSE IF n \in positions THEN Append(f[n - 1], list[n]) ELSE f[n - 1]]
           upto == CHOOSE f : Rec(f)
<1>0. N \in Nat /\ DOMAIN list = 1 .. N /\ \A i \in 1 .. N : list[i] \in P
  OBVIOUS
<1>1. PICK f \in [0 .. N -> Seq(P)] : Unrolls(f, << >>, N, step)
  <2>1. step \in [1 .. N -> [Seq(P) -> Seq(P)]] /\ << >> \in Seq(P)
    OBVIOUS
  <2> HIDE DEF N, step
  <2> QED BY <1>0, <2>1, Recursion, Zenon
<1>2. \A i \in 1 .. N : f[i] = IF i \in positions THEN Append(f[i - 1], list[i]) ELSE f[i - 1]
  <2> TAKE i \in 1 .. N
  <2>1. f[i - 1] \in Seq(P)
    BY <1>0
  <2> QED BY <1>1, <2>1, Zenon DEF Unrolls
<1>3. Rec(f)
  <2> HIDE DEF N, step
  <2>1. \A n \in 0 .. N : n # 0 => n \in 1 .. N
    BY <1>0
  <2>2. \A n \in 0 .. N :
          f[n] = IF n = 0 THEN << >>
                 ELSE IF n \in positions THEN Append(f[n - 1], list[n]) ELSE f[n - 1]
    BY <1>1, <1>2, <2>1, Zenon DEF Unrolls
  <2> QED BY <2>2, Zenon
<1>4. Rec(upto)
  BY <1>3, Zenon
<1> HIDE DEF upto, N, step
<1>5. upto[0] = << >> /\ \A n \in 1 .. N :
        upto[n] = IF n \in positions THEN Append(upto[n - 1], list[n]) ELSE upto[n - 1]
  <2>1. 0 \in 0 .. N /\ \A n \in 1 .. N : n \in 0 .. N /\ n # 0
    BY <1>0
  <2> QED BY <1>4, <2>1, Zenon
<1> HIDE DEF Rec
<1> DEFINE Good(s, n) == /\ s \in Seq(P)
                         /\ Len(s) <= n
                         /\ Range(s) = {list[m] : m \in {x \in positions : x <= n}}
                         /\ Distinct(list) => Distinct(s)
           T == {n \in Nat : n <= N => Good(upto[n], n)}
<1>6. N \in T
  <2>1. 0 \in T
    <3>1. << >> \in Seq(P) /\ Len(<< >>) <= 0 /\ DOMAIN << >> = {}
      OBVIOUS
    <3>2. {x \in positions : x <= 0} = {}
      BY <1>0
    <3>3. Good(<< >>, 0)
      BY <3>1, <3>2 DEF Range, Distinct
    <3> QED BY <1>5, <3>3, Zenon
  <2>2. ASSUME NEW n \in Nat, n \in T PROVE n + 1 \in T
    <3> SUFFICES ASSUME n + 1 <= N PROVE Good(upto[n + 1], n + 1)
      OBVIOUS
    <3> DEFINE s == upto[n]
    <3>1. Good(s, n)
      BY <1>0, <2>2
    <3>2. n + 1 \in 1 .. N /\ (n + 1) - 1 = n
      BY <1>0
    <3>3. upto[n + 1] = IF n + 1 \in positions THEN Append(s, list[n + 1]) ELSE s
      BY <1>5, <3>2
    <3> HIDE DEF s
    <3>4. Len(s) \in Nat /\ list[n + 1] \in P
      BY <1>0, <3>1, <3>2
    <3>5. CASE n + 1 \in positions
      <4>1. {x \in positions : x <= n + 1} = {x \in positions : x <= n} \union {n + 1}
        BY <1>0, <3>5
      <4>2. ASSUME Distinct(list), NEW m \in DOMAIN s PROVE s[m][1] # list[n + 1][1]
        <5>1. s[m] \in Range(s)
          BY DEF Range
        <5>2. PICK x \in positions : x <= n /\ s[m] = list[x]
          BY <3>1, <5>1
        <5>3. x \in DOMAIN list /\ n + 1 \in DOMAIN list /\ x # n + 1
          BY <1>0, <3>2, <5>2
        <5> QED BY <4>2, <5>2, <5>3 DEF Distinct
      <4>3. /\ Append(s, list[n + 1]) \in Seq(P)
            /\ Len(Append(s, list[n + 1])) = Len(s) + 1
            /\ Range(Append(s, list[n + 1])) = Range(s) \union {list[n + 1]}
            /\ Distinct(list) => Distinct(Append(s, list[n + 1]))
        BY <3>1, <3>4, <4>2, AppendFacts
      <4>4. Len(s) + 1 <= n + 1
        BY <3>1, <3>4
      <4> QED BY <3>1, <3>3, <3>5, <4>1, <4>3, <4>4
    <3>6. CASE n + 1 \notin positions
      <4>1. {x \in positions : x <= n + 1} = {x \in positions : x <= n}
        BY <1>0, <3>6
      <4>2. Len(s) <= n + 1
        BY <3>1, <3>4
      <4> QED BY <3>1, <3>3, <3>6, <4>1, <4>2
    <3> QED BY <3>5, <3>6
  <2> HIDE DEF T
  <2> QED BY <1>0, <2>1, <2>2, SetInduction, Zenon
<1>7. Good(upto[N], N)
  BY <1>0, <1>6
<1>8. {x \in positions : x <= N} = positions
  BY <1>0
<1>9. Kept(list, positions) = upto[N]
  BY DEF Kept, upto, Rec, N
<1> QED BY <1>7, <1>8, <1>9 DEF N

-----------------------------------------------------------------------------
(* The invariant. *)

Pairs == Keys \X Values
Depths == [b \in Range(dir) |-> buckets[b].depth]

TypeInv ==
  /\ global_depth \in 0 .. MaxDepth
  /\ Range(dir) \subseteq BucketIds
  /\ buckets \in [Range(dir) -> [depth : 0 .. MaxDepth, list : Seq(Pairs)]]
  /\ inserting \in Pairs \union {NotFound}

\* A bucket holds no more than its size, no key twice, and only keys that agree
\* with its directory entries on as many bits as its depth.
Fits(bucket, i) ==
  /\ Len(bucket.list) <= bucket_size
  /\ Distinct(bucket.list)
  /\ \A pair \in Range(bucket.list) : LowBits(pair[1], bucket.depth) = LowBits(i, bucket.depth)

ItemsInv == \A i \in DOMAIN dir : Fits(buckets[dir[i]], i)

Inv ==
  /\ TypeInv
  /\ Intact(global_depth, dir, Depths)
  /\ NumBucketsExact
  /\ ItemsInv

Bucket == [depth : 0 .. MaxDepth, list : Seq(Pairs)]

\* A list without duplicate keys has one position for a key.
LEMMA FirstFacts ==
  ASSUME NEW list \in Seq(Pairs), Distinct(list), NEW key, NEW n \in DOMAIN list, list[n][1] = key
  PROVE  First(list, key) = n
<1>1. \A m \in DOMAIN list : list[m][1] = key => m = n
  BY DEF Distinct
<1>2. \A j \in 1 .. n - 1 : list[j][1] # key
  <2> TAKE j \in 1 .. n - 1
  <2>1. j \in DOMAIN list /\ j # n
    OBVIOUS
  <2> QED BY <1>1, <2>1
<1> QED BY <1>1, <1>2 DEF First

\* Bucket::Find returns the value that is paired with the key.
LEMMA FindFacts ==
  ASSUME NEW bucket, bucket.list \in Seq(Pairs), Distinct(bucket.list), NEW key \in Keys
  PROVE  /\ BucketFind(bucket, key) \in Values \union {NotFound}
         /\ \A value \in Values : BucketFind(bucket, key) = value <=> <<key, value>> \in Range(bucket.list)
         /\ \A n \in DOMAIN bucket.list :
              bucket.list[n][1] = key => BucketFind(bucket, key) = bucket.list[n][2]
<1> DEFINE list == bucket.list
<1>1. list \in Seq(Pairs) /\ Distinct(list) /\ \A n \in DOMAIN list : list[n] \in Pairs
  OBVIOUS
<1>2. BucketFind(bucket, key) = IF \E i \in DOMAIN list : list[i][1] = key
                               THEN list[First(list, key)][2] ELSE NotFound
  BY DEF BucketFind
<1>3. \A n \in DOMAIN list : \A value : list[n] = <<key, value>> <=> list[n][1] = key /\ list[n][2] = value
  BY <1>1 DEF Pairs
<1> HIDE DEF list
<1>4. ASSUME NEW n \in DOMAIN list, list[n][1] = key
      PROVE  BucketFind(bucket, key) = list[n][2] /\ list[n][2] \in Values
  <2>1. First(list, key) = n
    BY <1>1, <1>4, FirstFacts
  <2> QED BY <1>1, <1>2, <1>4, <2>1 DEF Pairs
<1>5. CASE \E n \in DOMAIN list : list[n][1] = key
  <2>1. PICK n \in DOMAIN list : list[n][1] = key
    BY <1>5
  <2>2. BucketFind(bucket, key) = list[n][2] /\ list[n][2] \in Values
    BY <1>4, <2>1
  <2>3. ASSUME NEW value \in Values
        PROVE  BucketFind(bucket, key) = value <=> <<key, value>> \in Range(list)
    <3>1. ASSUME BucketFind(bucket, key) = value PROVE <<key, value>> \in Range(list)
      BY <1>3, <2>1, <2>2, <3>1, Zenon DEF Range
    <3>2. ASSUME <<key, value>> \in Range(list) PROVE BucketFind(bucket, key) = value
      <4>1. PICK m \in DOMAIN list : list[m] = <<key, value>>
        BY <3>2 DEF Range
      <4> QED BY <1>3, <1>4, <4>1
    <3> QED BY <3>1, <3>2
  <2> QED BY <1>4, <2>2, <2>3 DEF list
<1>6. CASE ~ \E n \in DOMAIN list : list[n][1] = key
  <2>1. BucketFind(bucket, key) = NotFound
    BY <1>2, <1>6
  <2>2. ASSUME NEW value \in Values PROVE <<key, value>> \notin Range(list)
    BY <1>3, <1>6 DEF Range
  <2>3. \A value \in Values : NotFound # value
    BY NotFoundAssumption
  <2> QED BY <1>6, <2>1, <2>2, <2>3 DEF list
<1> QED BY <1>5, <1>6

\* A split loses no pair: the new buckets are as large as the old one.
LEMMA RedistributedFacts ==
  ASSUME NEW bucket \in Bucket, Len(bucket.list) <= bucket_size, Distinct(bucket.list), NEW bit
  PROVE  /\ Redistributed(bucket, bit).depth = bucket.depth + 1
         /\ Redistributed(bucket, bit).list \in Seq(Pairs)
         /\ Len(Redistributed(bucket, bit).list) <= bucket_size
         /\ Distinct(Redistributed(bucket, bit).list)
         /\ Range(Redistributed(bucket, bit).list) =
              {pair \in Range(bucket.list) : HighBit(pair[1], bucket.depth) = bit}
         /\ Redistributed(bucket, bit) =
              [depth |-> bucket.depth + 1, list |-> Redistributed(bucket, bit).list]
<1> DEFINE list == bucket.list
           belongs == {n \in DOMAIN list : HighBit(list[n][1], bucket.depth) = bit}
           items == Kept(list, belongs)
           taken == SubSeq(items, 1, IF Len(items) < bucket_size THEN Len(items) ELSE bucket_size)
<1>1. list \in Seq(Pairs) /\ Len(list) <= bucket_size /\ Distinct(list) /\ bucket_size \in Nat
  BY BucketSizeAssumption DEF Bucket
<1>2. Redistributed(bucket, bit) = [depth |-> bucket.depth + 1, list |-> taken]
  BY DEF Redistributed
<1>3. belongs \in SUBSET DOMAIN list
  OBVIOUS
<1>4. {list[n] : n \in belongs} = {pair \in Range(list) : HighBit(pair[1], bucket.depth) = bit}
  BY Zenon DEF Range
<1> HIDE DEF list, belongs, items, taken
<1>5. items \in Seq(Pairs) /\ Len(items) <= Len(list) /\ Range(items) = {list[n] : n \in belongs}
      /\ Distinct(items)
  BY <1>1, <1>3, KeptFacts DEF items
<1>6. taken = items
  <2>1. \A s \in Seq(Pairs) : SubSeq(s, 1, Len(s)) = s /\ Len(s) \in Nat
    OBVIOUS
  <2>2. Len(list) \in Nat
    BY <1>1
  <2>3. (IF Len(items) < bucket_size THEN Len(items) ELSE bucket_size) = Len(items)
    BY <1>1, <1>5, <2>1, <2>2
  <2> QED BY <1>5, <2>1, <2>3 DEF taken
<1>7. Len(items) <= bucket_size
  BY <1>1, <1>5
<1> QED BY <1>2, <1>4, <1>5, <1>6, <1>7 DEF list

\* The directory points to at most 2^MaxDepth buckets, so two identities are free.
LEMMA FreshBuckets ==
  ASSUME NEW g \in 0 .. MaxDepth, NEW d, DOMAIN d = 0 .. Pow2[g] - 1, Range(d) \subseteq BucketIds
  PROVE  /\ IsFiniteSet(Range(d)) /\ BucketIds \ Range(d) # {}
         /\ \A b : BucketIds \ (Range(d) \union {b}) # {}
<1> DEFINE f == [i \in DOMAIN d |-> d[i]]
           p == Pow2[g]
           q == Pow2[MaxDepth]
<1>1. p \in Nat \ {0} /\ q \in Nat \ {0} /\ p <= q
  <2>1. MaxDepth \in 0 .. MaxDepth /\ g <= MaxDepth
    BY KeysAssumption
  <2>2. p \in Nat \ {0} /\ q \in Nat \ {0}
    BY <2>1, Powers
  <2>3. PICK c \in Nat \ {0} : q = c * p
    BY <2>1, PowersDivide
  <2> HIDE DEF p, q
  <2> QED BY <2>2, <2>3
<1>2. DOMAIN d = 0 .. p - 1 /\ BucketIds = 1 .. q + 2
  BY DEF BucketIds
<1> HIDE DEF p, q
<1>3. IsFiniteSet(0 .. p - 1) /\ Cardinality(0 .. p - 1) = p
  <2>1. 0 \in Int /\ p - 1 \in Int
    BY <1>1
  <2>2. /\ IsFiniteSet(0 .. p - 1)
        /\ Cardinality(0 .. p - 1) = IF 0 > p - 1 THEN 0 ELSE (p - 1) - 0 + 1
    BY <2>1, FS_Interval, Zenon
  <2> QED BY <1>1, <2>2
<1>4. IsFiniteSet(1 .. q + 2) /\ Cardinality(1 .. q + 2) = q + 2
  <2>1. q + 2 \in Int /\ (IF 1 > q + 2 THEN 0 ELSE (q + 2) - 1 + 1) = q + 2
    BY <1>1
  <2> QED BY <2>1, FS_Interval
<1>5. f \in Surjection(DOMAIN d, Range(d))
  BY DEF Surjection, Range
<1> HIDE DEF f
<1>6. IsFiniteSet(Range(d)) /\ Cardinality(Range(d)) <= p
  BY <1>2, <1>3, <1>5, FS_Surjection
<1>7. Cardinality(Range(d)) \in Nat
  BY <1>6, FS_CardinalityType
<1>8. ASSUME NEW b, BucketIds \ (Range(d) \union {b}) = {} PROVE FALSE
  <2>1. IsFiniteSet(Range(d) \union {b}) /\ Cardinality(Range(d) \union {b}) <= p + 1
    <3>1. IsFiniteSet(Range(d) \union {b}) /\
          Cardinality(Range(d) \union {b}) = IF b \in Range(d) THEN Cardinality(Range(d)) ELSE Cardinality(Range(d)) + 1
      BY <1>6, FS_AddElement
    <3> QED BY <1>1, <1>6, <1>7, <3>1
  <2>2. BucketIds \in SUBSET (Range(d) \union {b})
    BY <1>8
  <2>3. Cardinality(BucketIds) <= Cardinality(Range(d) \union {b})
    BY <2>1, <2>2, FS_Subset
  <2>4. Cardinality(Range(d) \union {b}) \in Nat
    BY <2>1, FS_CardinalityType
  <2> QED BY <1>1, <1>2, <1>4, <2>1, <2>3, <2>4
<1> QED BY <1>6, <1>8

\* Where a key belongs.
LEMMA TargetFacts ==
  ASSUME Inv, NEW key \in Keys
  PROVE  /\ key \in Nat
         /\ IndexOf(key) \in DOMAIN dir
         /\ Target(key) \in Range(dir)
         /\ buckets[Target(key)] \in Bucket
         /\ Len(buckets[Target(key)].list) <= bucket_size
         /\ Distinct(buckets[Target(key)].list)
         /\ buckets[Target(key)].depth \in 0 .. global_depth
<1>1. key \in Nat
  BY KeysAssumption
<1>2. IndexOf(key) \in DOMAIN dir
  BY <1>1, LowBitsFacts DEF IndexOf, Inv, TypeInv, Intact
<1>3. Target(key) \in Range(dir)
  BY <1>2 DEF Target, Range
<1>4. buckets[Target(key)] \in Bucket
  BY <1>3 DEF Inv, TypeInv, Bucket
<1>5. Len(buckets[Target(key)].list) <= bucket_size /\ Distinct(buckets[Target(key)].list)
  BY <1>2 DEF Inv, ItemsInv, Fits, Target
<1>6. buckets[Target(key)].depth \in 0 .. global_depth
  <2>1. Depths[dir[IndexOf(key)]] \in 0 .. global_depth
    BY <1>2 DEF Inv, Intact
  <2> QED BY <1>3, <2>1 DEF Depths, Target
<1> QED BY <1>1, <1>2, <1>3, <1>4, <1>5, <1>6

-----------------------------------------------------------------------------
(* The steps. *)

\* A split preserves the invariant and what every lookup finds.
LEMMA SplitStep ==
  ASSUME Inv, Split
  PROVE  Inv' /\ \A key \in Keys : Lookup(key)' = Lookup(key)
<1> DEFINE t == Target(inserting[1])
           bucket == buckets[t]
           c == bucket.depth
           b0 == CHOOSE b \in BucketIds \ DOMAIN buckets : TRUE
           b1 == CHOOSE b \in BucketIds \ (DOMAIN buckets \union {b0}) : TRUE
           g == IF c = global_depth THEN global_depth + 1 ELSE global_depth
           e == IF c = global_depth THEN Doubled ELSE dir
           r == Repointed(e, t, c, b0, b1)
           R == (Range(dir) \ {t}) \union {b0, b1}
           E == [b \in R |-> IF b \in {b0, b1} THEN c + 1 ELSE Depths[b]]
<1>1. /\ global_depth' = g /\ dir' = r /\ num_buckets' = num_buckets + 1
      /\ (c = global_depth => global_depth < MaxDepth) /\ inserting' = inserting
      /\ buckets' = [b \in Range(r) |-> IF b = b0 THEN Redistributed(bucket, 0)
                                        ELSE IF b = b1 THEN Redistributed(bucket, 1)
                                        ELSE buckets[b]]
  BY DEF Split
<1>2. inserting \in Pairs /\ inserting[1] \in Keys
  BY DEF Split, Inv, TypeInv, Pairs
<1>3. /\ t \in Range(dir) /\ bucket \in Bucket /\ Len(bucket.list) <= bucket_size
      /\ Distinct(bucket.list) /\ c \in 0 .. global_depth /\ IndexOf(inserting[1]) \in DOMAIN dir
  BY <1>2, TargetFacts
<1>4. DOMAIN buckets = Range(dir) /\ Range(dir) \subseteq BucketIds /\ global_depth \in 0 .. MaxDepth
      /\ Intact(global_depth, dir, Depths) /\ MaxDepth \in Nat
  BY KeysAssumption DEF Inv, TypeInv
<1>5. /\ IsFiniteSet(Range(dir)) /\ b0 \in BucketIds /\ b1 \in BucketIds /\ b0 # b1
      /\ b0 \notin Range(dir) /\ b1 \notin Range(dir)
  <2>1. /\ IsFiniteSet(Range(dir)) /\ BucketIds \ Range(dir) # {}
        /\ \A b : BucketIds \ (Range(dir) \union {b}) # {}
    BY <1>4, FreshBuckets DEF Intact
  <2> QED BY <1>4, <2>1, Zenon
<1>6. g \in 0 .. MaxDepth /\ c < g /\ c \in 0 .. MaxDepth /\ c + 1 \in 0 .. MaxDepth /\ global_depth <= g
  <2> HIDE DEF c
  <2> QED BY <1>1, <1>3, <1>4
<1>7. Depths[t] = c
  BY <1>3 DEF Depths
<1>8. Intact(g, e, Depths) /\ Range(e) = Range(dir)
  <2>1. CASE c = global_depth
    <3>1. global_depth + 1 <= MaxDepth
      BY <1>1, <1>4, <2>1
    <3>2. e = [i \in 0 .. 2 * Pow2[global_depth] - 1 |-> dir[LowBits(i, global_depth)]]
      BY <2>1 DEF Doubled
    <3> HIDE DEF e, c
    <3>3. Intact(global_depth + 1, e, Depths) /\ Range(e) = Range(dir)
      BY <1>4, <3>1, <3>2, DoubledIntact
    <3> QED BY <2>1, <3>3
  <2>2. CASE c # global_depth
    BY <1>4, <2>2
  <2> QED BY <2>1, <2>2
<1> HIDE DEF t, bucket, c, b0, b1, g, e
<1>9. Intact(g, r, E) /\ Range(r) = R
  <2>1. /\ \A b \in Range(e) \ {t} : E[b] = Depths[b]
        /\ E[b0] = Depths[t] + 1 /\ E[b1] = Depths[t] + 1
    BY <1>5, <1>7, <1>8
  <2>2. r = Repointed(e, t, Depths[t], b0, b1)
    BY <1>7
  <2> HIDE DEF r, E, R
  <2>3. Intact(g, r, E) /\ Range(r) = (Range(e) \ {t}) \union {b0, b1}
    BY <1>3, <1>5, <1>6, <1>7, <1>8, <2>1, <2>2, RepointedIntact
  <2> QED BY <1>8, <2>3 DEF R
<1> HIDE DEF r
<1>10. \A b \in R : buckets'[b] = IF b = b0 THEN Redistributed(bucket, 0)
                                  ELSE IF b = b1 THEN Redistributed(bucket, 1) ELSE buckets[b]
  BY <1>1, <1>9
<1>11. ASSUME NEW bit \in {0, 1}
       PROVE  LET new == Redistributed(bucket, bit)
              IN  /\ new \in Bucket /\ new.depth = c + 1 /\ Len(new.list) <= bucket_size /\ Distinct(new.list)
                  /\ Range(new.list) = {pair \in Range(bucket.list) : HighBit(pair[1], c) = bit}
  <2> DEFINE new == Redistributed(bucket, bit)
  <2>1. /\ new.depth = c + 1 /\ new.list \in Seq(Pairs) /\ Len(new.list) <= bucket_size
        /\ Distinct(new.list)
        /\ Range(new.list) = {pair \in Range(bucket.list) : HighBit(pair[1], c) = bit}
        /\ new = [depth |-> c + 1, list |-> new.list]
    BY <1>3, RedistributedFacts, Zenon DEF c
  <2> HIDE DEF new
  <2>2. new \in Bucket
    BY <1>6, <2>1 DEF Bucket
  <2> QED BY <2>1, <2>2 DEF new
<1>12. Depths' = E
  <2>1. Depths' = [b \in R |-> buckets'[b].depth]
    BY <1>1, <1>9 DEF Depths
  <2>2. ASSUME NEW b \in R PROVE buckets'[b].depth = IF b \in {b0, b1} THEN c + 1 ELSE Depths[b]
    BY <1>5, <1>10, <1>11 DEF Depths
  <2> HIDE DEF R
  <2> QED BY <2>1, <2>2
<1>13. TypeInv'
  <2>1. R \subseteq BucketIds
    BY <1>4, <1>5
  <2>2. ASSUME NEW b \in R PROVE buckets'[b] \in Bucket
    <3>1. b \notin {b0, b1} => buckets[b] \in Bucket
      BY DEF Inv, TypeInv, Bucket
    <3> QED BY <1>10, <1>11, <3>1
  <2>3. buckets' \in [R -> Bucket]
    <3> HIDE DEF R
    <3> QED BY <1>1, <1>9, <2>2
  <2> HIDE DEF R
  <2> QED BY <1>1, <1>2, <1>6, <1>9, <2>1, <2>3 DEF TypeInv, Bucket
<1>14. NumBucketsExact'
  <2>1. /\ IsFiniteSet(Range(dir) \ {t})
        /\ Cardinality(Range(dir) \ {t}) = Cardinality(Range(dir)) - 1
        /\ Cardinality(Range(dir)) \in Nat
    BY <1>3, <1>5, FS_RemoveElement, FS_CardinalityType
  <2>2. /\ IsFiniteSet((Range(dir) \ {t}) \union {b0})
        /\ Cardinality((Range(dir) \ {t}) \union {b0}) = (Cardinality(Range(dir)) - 1) + 1
    BY <1>5, <2>1, FS_AddElement, Zenon
  <2>3. Cardinality(((Range(dir) \ {t}) \union {b0}) \union {b1}) = ((Cardinality(Range(dir)) - 1) + 1) + 1
    <3>1. b1 \notin (Range(dir) \ {t}) \union {b0}
      BY <1>5
    <3> QED BY <2>2, <3>1, FS_AddElement
  <2>4. ((Range(dir) \ {t}) \union {b0}) \union {b1} = R
    OBVIOUS
  <2>5. num_buckets = Cardinality(Range(dir))
    BY DEF Inv, NumBucketsExact
  <2> HIDE DEF R
  <2>6. Cardinality(R) = num_buckets + 1
    BY <2>1, <2>3, <2>4, <2>5
  <2> QED BY <1>1, <1>9, <2>6 DEF NumBucketsExact
<1>15. ASSUME NEW i \in DOMAIN r
       PROVE  /\ i \in Nat /\ LowBits(i, global_depth) \in DOMAIN dir /\ i \in DOMAIN e
              /\ e[i] = dir[LowBits(i, global_depth)]
              /\ \A d \in 0 .. global_depth : LowBits(LowBits(i, global_depth), d) = LowBits(i, d)
  <2>1. i \in 0 .. Pow2[g] - 1 /\ Pow2[g] \in Nat /\ i \in DOMAIN e
    BY <1>6, <1>8, <1>9, Powers DEF Intact
  <2>2. i \in Nat /\ i < Pow2[g]
    BY <2>1
  <2>3. LowBits(i, global_depth) \in DOMAIN dir
    BY <1>4, <2>2, LowBitsFacts, Zenon DEF Intact
  <2>4. e[i] = dir[LowBits(i, global_depth)]
    <3>1. CASE c = global_depth
      <4>1. e = Doubled
        BY <3>1 DEF e
      <4> QED BY <2>1, <4>1 DEF Doubled
    <3>2. CASE c # global_depth
      BY <1>4, <2>2, <3>2, LowBitsFacts DEF e, g
    <3> QED BY <3>1, <3>2
  <2>5. \A d \in 0 .. global_depth : LowBits(LowBits(i, global_depth), d) = LowBits(i, d)
    <3> TAKE d \in 0 .. global_depth
    <3>1. d \in 0 .. MaxDepth /\ d <= global_depth
      BY <1>4
    <3> QED BY <1>4, <2>2, <3>1, LowBitsLow
  <2> QED BY <2>1, <2>2, <2>3, <2>4, <2>5
<1>16. ASSUME NEW i \in DOMAIN r
       PROVE  /\ HighBit(i, c) \in {0, 1}
              /\ e[i] # t => buckets'[r[i]] = buckets[e[i]] /\ r[i] = e[i]
              /\ e[i] = t => buckets'[r[i]] = Redistributed(bucket, HighBit(i, c))
  <2>1. HighBit(i, c) \in {0, 1}
    BY <1>6, <1>15, LowBitsMore
  <2>2. r[i] = IF e[i] # t THEN e[i] ELSE IF HighBit(i, c) = 1 THEN b1 ELSE b0
    BY <1>15 DEF r, Repointed
  <2>3. r[i] \in R /\ e[i] \in Range(dir)
    BY <1>8, <1>9, <1>15 DEF Range
  <2> HIDE DEF R
  <2> QED BY <1>5, <1>10, <2>1, <2>2, <2>3
<1>17. ItemsInv'
  <2> SUFFICES ASSUME NEW i \in DOMAIN r
               PROVE  Fits(buckets'[r[i]], i)
    BY <1>1 DEF ItemsInv
  <2> DEFINE i0 == LowBits(i, global_depth)
  <2>1. i0 \in DOMAIN dir /\ e[i] = dir[i0] /\ i \in Nat /\ \A d \in 0 .. global_depth : LowBits(i0, d) = LowBits(i, d)
    BY <1>15
  <2> HIDE DEF i0
  <2>2. Fits(buckets[e[i]], i0)
    BY <2>1 DEF Inv, ItemsInv
  <2>3. buckets[e[i]].depth \in 0 .. global_depth
    <3>1. e[i] \in Range(dir) /\ Depths[dir[i0]] \in 0 .. global_depth
      BY <1>4, <2>1 DEF Range, Intact
    <3> QED BY <2>1, <3>1 DEF Depths
  <2>4. CASE e[i] # t
    BY <1>16, <2>1, <2>2, <2>3, <2>4 DEF Fits
  <2>5. CASE e[i] = t
    <3> DEFINE new == Redistributed(bucket, HighBit(i, c))
    <3>1. buckets'[r[i]] = new /\ buckets[e[i]] = bucket
      BY <1>16, <2>5 DEF bucket
    <3>2. /\ new.depth = c + 1 /\ Len(new.list) <= bucket_size /\ Distinct(new.list)
          /\ Range(new.list) = {pair \in Range(bucket.list) : HighBit(pair[1], c) = HighBit(i, c)}
      BY <1>11, <1>16
    <3> HIDE DEF new
    <3>3. ASSUME NEW pair \in Range(new.list) PROVE LowBits(pair[1], c + 1) = LowBits(i, c + 1)
      <4>1. pair \in Range(bucket.list) /\ HighBit(pair[1], c) = HighBit(i, c)
        BY <3>2
      <4>2. LowBits(pair[1], c) = LowBits(i, c)
        BY <1>3, <2>1, <2>2, <3>1, <4>1 DEF c, Fits
      <4>3. pair[1] \in Nat
        <5>1. \A l \in Seq(Pairs) : Range(l) \subseteq Pairs
          BY DEF Range
        <5>2. pair \in Pairs
          BY <1>3, <4>1, <5>1 DEF Bucket
        <5> QED BY <5>2, KeysAssumption, Zenon DEF Pairs
      <4>4. c + 1 <= MaxDepth
        BY <1>4, <1>6
      <4> QED BY <1>6, <2>1, <4>1, <4>2, <4>3, <4>4, AgreeMore
    <3> QED BY <3>1, <3>2, <3>3 DEF Fits
  <2> QED BY <2>4, <2>5
<1>18. ASSUME NEW key \in Keys PROVE Lookup(key)' = Lookup(key)
  <2> DEFINE i == LowBits(key, g)
  <2>1. key \in Nat /\ i \in DOMAIN r
    BY <1>6, <1>9, KeysAssumption, LowBitsFacts DEF Intact
  <2>2. LowBits(i, global_depth) = IndexOf(key)
    BY <1>4, <1>6, <2>1, LowBitsLow DEF IndexOf
  <2>3. Lookup(key)' = BucketFind(buckets'[r[i]], key)
    BY <1>1 DEF Lookup, Target, IndexOf
  <2>4. LowBits(i, c + 1) = LowBits(key, c + 1)
    <3>1. c + 1 <= g
      BY <1>4, <1>6
    <3> QED BY <1>6, <2>1, <3>1, LowBitsLow
  <2> HIDE DEF i
  <2>5. e[i] = Target(key)
    BY <1>15, <2>1, <2>2 DEF Target
  <2>6. CASE e[i] # t
    BY <1>16, <2>1, <2>3, <2>5, <2>6 DEF Lookup
  <2>7. CASE e[i] = t
    <3> DEFINE new == Redistributed(bucket, HighBit(i, c))
    <3>1. Lookup(key)' = BucketFind(new, key) /\ Lookup(key) = BucketFind(bucket, key)
      BY <1>16, <2>1, <2>3, <2>5, <2>7 DEF Lookup, bucket
    <3>2. /\ new \in Bucket /\ Distinct(new.list)
          /\ Range(new.list) = {pair \in Range(bucket.list) : HighBit(pair[1], c) = HighBit(i, c)}
      BY <1>11, <1>16, <2>1
    <3> HIDE DEF new
    <3>3. HighBit(i, c) = HighBit(key, c)
      <4>1. i \in Nat /\ c + 1 <= MaxDepth
        BY <1>4, <1>6, <1>15, <2>1
      <4> QED BY <1>6, <2>1, <2>4, <4>1, AgreeMore
    <3>4. \A value \in Values : <<key, value>> \in Range(new.list) <=> <<key, value>> \in Range(bucket.list)
      BY <3>2, <3>3
    <3>5. new.list \in Seq(Pairs) /\ bucket.list \in Seq(Pairs)
      BY <1>3, <3>2 DEF Bucket
    <3>6. /\ BucketFind(new, key) \in Values \union {NotFound}
          /\ BucketFind(bucket, key) \in Values \union {NotFound}
          /\ \A value \in Values : BucketFind(new, key) = value <=> BucketFind(bucket, key) = value
      BY <1>3, <3>2, <3>4, <3>5, FindFacts, Zenon
    <3> QED BY <3>1, <3>6
  <2> QED BY <2>6, <2>7
<1> QED BY <1>1, <1>9, <1>12, <1>13, <1>14, <1>17, <1>18 DEF Inv

\* The bucket of a key may get a list that differs in the pairs of the key only.
LEMMA UpdateStep ==
  ASSUME Inv, NEW key \in Keys, NEW list \in Seq(Pairs), Len(list) <= bucket_size, Distinct(list),
         \A pair \in Pairs : pair[1] # key =>
           (pair \in Range(list) <=> pair \in Range(buckets[Target(key)].list)),
         buckets' = [buckets EXCEPT ![Target(key)] = [depth |-> @.depth, list |-> list]],
         inserting' \in Pairs \union {NotFound}, UNCHANGED <<global_depth, num_buckets, dir>>
  PROVE  /\ Inv'
         /\ \A other \in Keys : other # key => Lookup(other)' = Lookup(other)
         /\ Lookup(key)' \in Values \union {NotFound}
         /\ \A value \in Values : Lookup(key)' = value <=> <<key, value>> \in Range(list)
<1> DEFINE t == Target(key)
           old == buckets[t]
           new == [depth |-> old.depth, list |-> list]
<1>1. /\ key \in Nat /\ IndexOf(key) \in DOMAIN dir /\ t \in Range(dir) /\ old \in Bucket
      /\ Distinct(old.list) /\ old.depth \in 0 .. global_depth
  BY TargetFacts
<1>2. /\ buckets \in [Range(dir) -> Bucket] /\ Intact(global_depth, dir, Depths)
      /\ global_depth \in 0 .. MaxDepth /\ MaxDepth \in Nat /\ ItemsInv
  BY KeysAssumption DEF Inv, TypeInv, Bucket
<1>3. /\ new.depth = old.depth /\ new.list = list /\ new \in Bucket
  BY <1>1 DEF Bucket
<1>4. buckets' = [buckets EXCEPT ![t] = new]
  OBVIOUS
<1>5. \A pair \in Pairs : pair[1] # key => (pair \in Range(list) <=> pair \in Range(old.list))
  OBVIOUS
<1> HIDE DEF new, old
<1>6. buckets' \in [Range(dir) -> Bucket] /\ buckets'[t] = new
      /\ \A b \in Range(dir) : b # t => buckets'[b] = buckets[b]
  <2> HIDE DEF t
  <2> QED BY <1>1, <1>2, <1>3, <1>4, Zenon
<1>7. Depths' = Depths
  <2>1. \A b \in Range(dir) : buckets'[b].depth = buckets[b].depth
    BY <1>3, <1>6 DEF old
  <2> QED BY <2>1 DEF Depths
<1>8. TypeInv'
  BY <1>6 DEF Inv, TypeInv, Bucket
<1>9. ItemsInv'
  <2> SUFFICES ASSUME NEW i \in DOMAIN dir PROVE Fits(buckets'[dir[i]], i)
    BY DEF ItemsInv
  <2>1. dir[i] \in Range(dir) /\ Fits(buckets[dir[i]], i)
    BY <1>2 DEF ItemsInv, Range
  <2>2. CASE dir[i] # t
    BY <1>6, <2>1, <2>2
  <2>3. CASE dir[i] = t
    <3>1. buckets'[dir[i]] = new /\ Fits(old, i)
      BY <1>6, <2>1, <2>3 DEF old
    <3>2. LowBits(key, old.depth) = LowBits(i, old.depth)
      <4>1. dir[IndexOf(key)] = dir[i] /\ Depths[dir[IndexOf(key)]] = old.depth
        BY <1>1, <2>3 DEF Target, Depths, old
      <4>2. LowBits(IndexOf(key), old.depth) = LowBits(i, old.depth)
        BY <1>1, <1>2, <4>1 DEF Intact
      <4>3. old.depth \in 0 .. MaxDepth /\ old.depth <= global_depth
        BY <1>1, <1>2
      <4> QED BY <1>1, <1>2, <4>2, <4>3, LowBitsLow DEF IndexOf
    <3>3. ASSUME NEW pair \in Range(list) PROVE LowBits(pair[1], old.depth) = LowBits(i, old.depth)
      <4>1. pair \in Pairs
        BY DEF Range
      <4> QED BY <1>5, <3>1, <3>2, <4>1 DEF Fits
    <3> QED BY <1>3, <3>1, <3>3 DEF Fits
  <2> QED BY <2>2, <2>3
<1>10. Inv'
  BY <1>7, <1>8, <1>9 DEF Inv, NumBucketsExact
<1>11. \A other \in Keys : Lookup(other)' = BucketFind(buckets'[Target(other)], other)
  BY DEF Lookup, Target, IndexOf
<1>12. ASSUME NEW other \in Keys, other # key PROVE Lookup(other)' = Lookup(other)
  <2>1. Target(other) \in Range(dir)
    BY TargetFacts
  <2>2. CASE Target(other) # t
    BY <1>6, <1>11, <2>1, <2>2 DEF Lookup
  <2>3. CASE Target(other) = t
    <3>1. Lookup(other)' = BucketFind(new, other) /\ Lookup(other) = BucketFind(old, other)
      BY <1>6, <1>11, <2>3 DEF Lookup, old
    <3>2. \A value \in Values : <<other, value>> \in Range(list) <=> <<other, value>> \in Range(old.list)
      <4> TAKE value \in Values
      <4>1. <<other, value>> \in Pairs /\ <<other, value>>[1] # key
        BY <1>12 DEF Pairs
      <4> QED BY <1>5, <4>1
    <3>3. /\ BucketFind(new, other) \in Values \union {NotFound}
          /\ \A value \in Values : BucketFind(new, other) = value <=> <<other, value>> \in Range(list)
      BY <1>3, FindFacts
    <3>4. /\ BucketFind(old, other) \in Values \union {NotFound}
          /\ \A value \in Values : BucketFind(old, other) = value <=> <<other, value>> \in Range(old.list)
      BY <1>1, FindFacts DEF Bucket
    <3> QED BY <3>1, <3>2, <3>3, <3>4, Zenon
  <2> QED BY <2>2, <2>3
<1>13. Lookup(key)' = BucketFind(new, key)
  BY <1>6, <1>11
<1>14. /\ BucketFind(new, key) \in Values \union {NotFound}
       /\ \A value \in Values : BucketFind(new, key) = value <=> <<key, value>> \in Range(list)
  BY <1>3, FindFacts
<1> QED BY <1>10, <1>12, <1>13, <1>14

\* Remove takes the key out and leaves the other keys alone.
LEMMA RemoveStep ==
  ASSUME Inv, NEW key \in Keys, Remove(key)
  PROVE  Inv' /\ \A other \in Keys : Lookup(other)' = IF other = key THEN NotFound ELSE Lookup(other)
<1> DEFINE t == Target(key)
           list == buckets[t].list
           others == {n \in DOMAIN list : list[n] # <<key, Lookup(key)>>}
           kept == Kept(list, others)
<1>1. /\ buckets' = [buckets EXCEPT ![t] = [depth |-> @.depth, list |-> kept]]
      /\ inserting' = inserting /\ UNCHANGED <<global_depth, num_buckets, dir>>
  BY DEF Remove
<1>2. list \in Seq(Pairs) /\ Len(list) <= bucket_size /\ Distinct(list) /\ inserting \in Pairs \union {NotFound}
  BY TargetFacts DEF Bucket, Inv, TypeInv
<1>3. \A value \in Values : Lookup(key) = value <=> <<key, value>> \in Range(list)
  BY <1>2, FindFacts DEF Lookup
<1>4. others \in SUBSET DOMAIN list
  OBVIOUS
<1>5. {list[n] : n \in others} = Range(list) \ {<<key, Lookup(key)>>}
  BY Zenon DEF Range
<1> HIDE DEF list, others, kept
<1>6. kept \in Seq(Pairs) /\ Len(kept) <= Len(list) /\ Distinct(kept)
      /\ Range(kept) = Range(list) \ {<<key, Lookup(key)>>}
  BY <1>2, <1>4, <1>5, KeptFacts DEF kept
<1>7. Len(kept) <= bucket_size
  <2>1. Len(kept) \in Nat /\ Len(list) \in Nat /\ bucket_size \in Nat
    BY <1>2, <1>6, BucketSizeAssumption
  <2> QED BY <1>2, <1>6, <2>1
<1>8. \A pair \in Pairs : pair[1] # key => (pair \in Range(kept) <=> pair \in Range(list))
  BY <1>6
<1>9. \A value \in Values : <<key, value>> \notin Range(kept)
  BY <1>3, <1>6
<1>10. /\ Inv'
       /\ \A other \in Keys : other # key => Lookup(other)' = Lookup(other)
       /\ Lookup(key)' \in Values \union {NotFound}
       /\ \A value \in Values : Lookup(key)' = value <=> <<key, value>> \in Range(kept)
  <2>1. \A pair \in Pairs : pair[1] # key =>
          (pair \in Range(kept) <=> pair \in Range(buckets[Target(key)].list))
    BY <1>8 DEF list
  <2> QED BY <1>1, <1>2, <1>6, <1>7, <2>1, UpdateStep, Zenon
<1> QED BY <1>9, <1>10, Zenon

\* Insert's last step gives the key its value and leaves the other keys alone.
LEMMA InsertFinishStep ==
  ASSUME Inv, InsertFinish
  PROVE  /\ inserting \in Pairs /\ Inv'
         /\ \A other \in Keys : Lookup(other)' = IF other = inserting[1] THEN inserting[2] ELSE Lookup(other)
<1>0. PICK key \in Keys, value \in Values : inserting = <<key, value>>
  BY DEF InsertFinish, Inv, TypeInv, Pairs
<1> DEFINE t == Target(key)
           list == buckets[t].list
           new == IF Lookup(key) = NotFound THEN Append(list, inserting)
                  ELSE [list EXCEPT ![First(list, key)] = inserting]
<1>1. /\ buckets' = [buckets EXCEPT ![t] = [depth |-> @.depth, list |-> new]]
      /\ inserting' = NotFound /\ UNCHANGED <<global_depth, num_buckets, dir>> /\ Len(list) # bucket_size
  BY <1>0 DEF InsertFinish, IsFull
<1>2. inserting \in Pairs /\ inserting[1] = key /\ inserting[2] = value
  BY <1>0 DEF Pairs
<1>3. list \in Seq(Pairs) /\ Len(list) <= bucket_size /\ Distinct(list)
  BY <1>2, TargetFacts DEF Bucket
<1>4. /\ Lookup(key) \in Values \union {NotFound}
      /\ \A v \in Values : Lookup(key) = v <=> <<key, v>> \in Range(list)
      /\ \A n \in DOMAIN list : list[n][1] = key => Lookup(key) = list[n][2]
  BY <1>2, <1>3, FindFacts DEF Lookup
<1>5. \A n \in DOMAIN list : list[n] \in Pairs /\ list[n][2] \in Values
  BY <1>3 DEF Pairs
<1> HIDE DEF t, list, new
<1>6. /\ new \in Seq(Pairs) /\ Len(new) <= bucket_size /\ Distinct(new) /\ inserting \in Range(new)
      /\ \A pair \in Pairs : pair[1] # key => (pair \in Range(new) <=> pair \in Range(list))
      /\ \A pair \in Range(new) : pair[1] = key => pair = inserting
  <2>1. CASE Lookup(key) = NotFound
    <3>1. new = Append(list, inserting)
      BY <2>1 DEF new
    <3>2. \A n \in DOMAIN list : list[n][1] # key
      BY <1>4, <1>5, <2>1, NotFoundAssumption
    <3>3. /\ new \in Seq(Pairs) /\ Len(new) = Len(list) + 1 /\ Range(new) = Range(list) \union {inserting}
          /\ Distinct(new)
      BY <1>2, <1>3, <3>1, <3>2, AppendFacts
    <3>4. Len(list) \in Nat /\ bucket_size \in Nat
      BY <1>3, BucketSizeAssumption
    <3>5. Len(new) <= bucket_size
      BY <1>1, <1>3, <3>3, <3>4
    <3> QED BY <1>2, <3>2, <3>3, <3>5, Zenon DEF Range
  <2>2. CASE Lookup(key) # NotFound
    <3>1. <<key, Lookup(key)>> \in Range(list)
      BY <1>4, <2>2
    <3>2. PICK n \in DOMAIN list : list[n] = <<key, Lookup(key)>>
      BY <3>1 DEF Range
    <3>3. First(list, key) = n /\ \A m \in DOMAIN list : list[m][1] = key => m = n
      BY <1>3, <3>2, FirstFacts DEF Distinct
    <3>4. new = [list EXCEPT ![n] = inserting]
      BY <2>2, <3>3 DEF new
    <3>5. /\ new \in Seq(Pairs) /\ Len(new) = Len(list) /\ DOMAIN new = DOMAIN list
          /\ new[n] = inserting /\ \A m \in DOMAIN list : m # n => new[m] = list[m]
      BY <1>2, <1>3, <3>2, <3>4
    <3>6. \A m \in DOMAIN list : new[m][1] = list[m][1]
      BY <1>2, <3>2, <3>5
    <3>7. Distinct(new)
      BY <1>3, <3>5, <3>6 DEF Distinct
    <3>8. \A pair \in Pairs : pair[1] # key => (pair \in Range(new) <=> pair \in Range(list))
      <4> TAKE pair \in Pairs
      <4> HAVE pair[1] # key
      <4>1. ASSUME pair \in Range(new) PROVE pair \in Range(list)
        <5>1. PICK m \in DOMAIN list : pair = new[m]
          BY <3>5, <4>1 DEF Range
        <5>2. m # n
          BY <1>2, <3>5, <5>1
        <5> QED BY <3>5, <5>1, <5>2 DEF Range
      <4>2. ASSUME pair \in Range(list) PROVE pair \in Range(new)
        <5>1. PICK m \in DOMAIN list : pair = list[m]
          BY <4>2 DEF Range
        <5>2. m # n
          BY <3>2, <5>1
        <5> QED BY <3>5, <5>1, <5>2 DEF Range
      <4> QED BY <4>1, <4>2
    <3>9. inserting \in Range(new) /\ \A pair \in Range(new) : pair[1] = key => pair = inserting
      BY <3>3, <3>5 DEF Range
    <3> QED BY <1>3, <3>5, <3>7, <3>8, <3>9
  <2> QED BY <2>1, <2>2
<1>7. /\ Inv'
      /\ \A other \in Keys : other # key => Lookup(other)' = Lookup(other)
      /\ \A v \in Values : Lookup(key)' = v <=> <<key, v>> \in Range(new)
  <2>1. \A pair \in Pairs : pair[1] # key =>
          (pair \in Range(new) <=> pair \in Range(buckets[Target(key)].list))
    BY <1>6 DEF list, t
  <2>2. inserting' \in Pairs \union {NotFound}
    BY <1>1
  <2>3. buckets' = [buckets EXCEPT ![Target(key)] = [depth |-> @.depth, list |-> new]]
    BY <1>1 DEF t
  <2> QED BY <1>1, <1>2, <1>6, <2>1, <2>2, <2>3, UpdateStep, Zenon
<1>8. Lookup(key)' = value
  BY <1>0, <1>6, <1>7
<1> QED BY <1>2, <1>7, <1>8

-----------------------------------------------------------------------------
(* The theorems. *)

\* The invariant holds throughout.
THEOREM Invariance == Spec => []Inv
<1>1. Init => Inv
  <2> SUFFICES ASSUME Init PROVE Inv
    OBVIOUS
  <2>1. MaxDepth \in Nat /\ 0 \in 0 .. MaxDepth /\ Pow2[MaxDepth] \in Nat \ {0} /\ Pow2[0] = 1
    <3>1. MaxDepth \in 0 .. MaxDepth /\ MaxDepth \in Nat /\ 0 \in 0 .. MaxDepth
      BY KeysAssumption
    <3> QED BY <3>1, Powers
  <2>2. DOMAIN dir = {0} /\ dir[0] = 1 /\ Range(dir) = {1} /\ 1 \in BucketIds
    BY <2>1 DEF Init, Range, BucketIds
  <2>3. buckets = [b \in {1} |-> [depth |-> 0, list |-> << >>]]
    BY DEF Init
  <2>4. TypeInv
    BY <2>1, <2>2, <2>3 DEF Init, TypeInv
  <2>5. Intact(global_depth, dir, Depths)
    <3>1. Depths[dir[0]] = 0 /\ 0 .. 1 - 1 = {0}
      BY <2>2, <2>3 DEF Depths
    <3> QED BY <2>1, <2>2, <3>1 DEF Init, Intact
  <2>6. NumBucketsExact
    BY <2>2, FS_Singleton, Zenon DEF NumBucketsExact, Init
  <2>7. ItemsInv
    <3>1. Len(<< >>) <= bucket_size /\ DOMAIN << >> = {}
      BY BucketSizeAssumption
    <3> QED BY <2>2, <2>3, <3>1 DEF ItemsInv, Fits, Distinct, Range
  <2> QED BY <2>4, <2>5, <2>6, <2>7 DEF Inv
<1>2. Inv /\ [Next]_vars => Inv'
  <2> SUFFICES ASSUME Inv, [Next]_vars PROVE Inv'
    OBVIOUS
  <2>1. ASSUME UNCHANGED <<global_depth, num_buckets, dir, buckets>>,
               inserting' \in Pairs \union {NotFound}
        PROVE  Inv'
    BY <2>1 DEF Inv, TypeInv, Depths, NumBucketsExact, ItemsInv
  <2>2. inserting \in Pairs \union {NotFound}
    BY DEF Inv, TypeInv
  <2>3. CASE UNCHANGED vars
    BY <2>1, <2>2, <2>3 DEF vars
  <2>4. ASSUME NEW key \in Keys, Find(key) PROVE Inv'
    BY <2>1, <2>2, <2>4 DEF Find
  <2>5. ASSUME NEW key \in Keys, Remove(key) PROVE Inv'
    BY <2>5, RemoveStep
  <2>6. ASSUME NEW key \in Keys, NEW value \in Values, InsertStart(key, value) PROVE Inv'
    BY <2>1, <2>6 DEF InsertStart, Pairs
  <2>7. CASE Split
    BY <2>7, SplitStep
  <2>8. CASE InsertFinish
    BY <2>8, InsertFinishStep
  <2> QED BY <2>3, <2>4, <2>5, <2>6, <2>7, <2>8 DEF Next
<1> QED BY <1>1, <1>2, PTL DEF Spec

\* In every state the local depths are at most the global depth and each bucket
\* is pointed to by all the indices that agree on its depth's low bits.
THEOREM DirectoryIntact == Spec => []DirectoryIntegrity
<1>1. Inv => DirectoryIntegrity
  <2> SUFFICES ASSUME Inv PROVE DirectoryIntegrity
    OBVIOUS
  <2>1. /\ global_depth \in 0 .. MaxDepth /\ MaxDepth \in Nat /\ Intact(global_depth, dir, Depths)
    BY KeysAssumption DEF Inv, TypeInv
  <2>2. \A i \in DOMAIN dir : Depths[dir[i]] = buckets[dir[i]].depth
    BY DEF Depths, Range
  <2>3. global_depth <= MaxDepth /\ DOMAIN dir = 0 .. Pow2[global_depth] - 1
    BY <2>1 DEF Intact
  <2>4. ASSUME NEW i \in DOMAIN dir
        PROVE  /\ buckets[dir[i]].depth <= global_depth
               /\ \A j \in DOMAIN dir : dir[j] = dir[i] <=>
                    LowBits(j, buckets[dir[i]].depth) = LowBits(i, buckets[dir[i]].depth)
    <3>1. Depths[dir[i]] \in 0 .. global_depth
      BY <2>1 DEF Intact
    <3>2. \A j \in DOMAIN dir : dir[i] = dir[j] <=> LowBits(i, Depths[dir[i]]) = LowBits(j, Depths[dir[i]])
      BY <2>1 DEF Intact
    <3>3. buckets[dir[i]].depth <= global_depth
      BY <2>1, <2>2, <3>1
    <3> QED BY <2>2, <3>2, <3>3
  <2> QED BY <2>3, <2>4 DEF DirectoryIntegrity
<1> QED BY <1>1, Invariance, PTL

\* num_buckets_ is in every state the number of distinct buckets.
THEOREM NumBucketsCorrect == Spec => []NumBucketsExact
<1>1. Inv => NumBucketsExact
  BY DEF Inv
<1> QED BY <1>1, Invariance, PTL

\* With at least two pairs to a bucket the bound on the depth is never in the
\* way: a full bucket has two keys, which MaxDepth bits tell apart.
THEOREM DepthSuffices ==
  ASSUME bucket_size >= 2
  PROVE  Spec => [](inserting # NotFound /\ IsFull(buckets[Target(inserting[1])]) =>
                      buckets[Target(inserting[1])].depth < MaxDepth)
<1>1. Inv => (inserting # NotFound /\ IsFull(buckets[Target(inserting[1])]) =>
               buckets[Target(inserting[1])].depth < MaxDepth)
  <2> SUFFICES ASSUME Inv, inserting # NotFound, IsFull(buckets[Target(inserting[1])]),
                      ~ (buckets[Target(inserting[1])].depth < MaxDepth)
               PROVE  FALSE
    OBVIOUS
  <2>1. PICK key \in Keys : key = inserting[1]
    BY DEF Inv, TypeInv, Pairs
  <2> DEFINE bucket == buckets[Target(key)]
             list == bucket.list
  <2>2. /\ IndexOf(key) \in DOMAIN dir /\ bucket \in Bucket /\ Distinct(list) /\ Len(list) = bucket_size
        /\ bucket.depth \in 0 .. global_depth /\ ~ (bucket.depth < MaxDepth)
    BY <2>1, TargetFacts DEF IsFull
  <2>3. bucket.depth = MaxDepth
    BY <2>2, KeysAssumption DEF Inv, TypeInv
  <2>4. \A pair \in Range(list) : LowBits(pair[1], MaxDepth) = LowBits(IndexOf(key), MaxDepth)
    BY <2>2, <2>3 DEF Inv, ItemsInv, Fits, Target
  <2>5. list \in Seq(Pairs)
    BY <2>2 DEF Bucket
  <2> HIDE DEF bucket, list
  <2>6. 1 \in DOMAIN list /\ 2 \in DOMAIN list
    BY <2>2, <2>5, BucketSizeAssumption
  <2>7. list[1][1] \in Keys /\ list[2][1] \in Keys
    BY <2>5, <2>6 DEF Pairs
  <2>8. list[1] \in Range(list) /\ list[2] \in Range(list)
    BY <2>6 DEF Range
  <2>9. LowBits(list[1][1], MaxDepth) = LowBits(list[2][1], MaxDepth)
    BY <2>4, <2>8
  <2>10. list[1][1] = list[2][1]
    BY <2>7, <2>9, KeysAssumption, Zenon DEF LowBits
  <2>11. Distinct(list) => 1 = 2
    BY <2>6, <2>10 DEF Distinct
  <2> QED BY <2>2, <2>11
<1> QED BY <1>1, Invariance, PTL

\* Every step of the table is a step of the map or none: what Find returns
\* changes only by the Insert or the Remove of that key.
THEOREM TableImplementsMap == Spec => Implements
<1> DEFINE map == [key \in Keys |-> Lookup(key)]
<1>1. Init => Abstract!Init
  <2> SUFFICES ASSUME Init PROVE Abstract!Init
    OBVIOUS
  <2>1. ASSUME NEW key \in Keys PROVE Lookup(key) = NotFound
    <3>1. MaxDepth \in Nat /\ 0 \in 0 .. MaxDepth /\ key \in Nat /\ Pow2[0] = 1
      BY KeysAssumption, Powers
    <3>2. LowBits(key, 0) = 0
      BY <3>1, LowBitsFacts
    <3>3. buckets[Target(key)] = [depth |-> 0, list |-> << >>]
      BY <3>2 DEF Init, Target, IndexOf
    <3>4. DOMAIN << >> = {}
      OBVIOUS
    <3> QED BY <3>3, <3>4 DEF Lookup, BucketFind
  <2> QED BY <2>1 DEF Abstract!Init, Init
<1>2. Inv /\ [Next]_vars => [Abstract!Next]_Abstract!vars
  <2> SUFFICES ASSUME Inv, [Next]_vars PROVE [Abstract!Next]_Abstract!vars
    OBVIOUS
  <2>1. ASSUME UNCHANGED <<global_depth, dir, buckets>> PROVE map' = map
    BY <2>1 DEF Lookup, Target, IndexOf
  <2>2. CASE UNCHANGED vars
    BY <2>1, <2>2 DEF vars, Abstract!vars
  <2>3. ASSUME NEW key \in Keys, Find(key) PROVE Abstract!Next
    <3>1. Abstract!Find(key)
      BY <2>1, <2>3 DEF Find, Abstract!Find
    <3> QED BY <3>1 DEF Abstract!Next
  <2>4. ASSUME NEW key \in Keys, Remove(key) PROVE Abstract!Next
    <3>1. \A other \in Keys : Lookup(other)' = IF other = key THEN NotFound ELSE Lookup(other)
      BY <2>4, RemoveStep
    <3>2. map' = [map EXCEPT ![key] = NotFound]
      BY <3>1, Zenon
    <3>3. ret' = <<"Remove", key, map[key] # NotFound>>
      BY <2>4 DEF Remove
    <3>4. Abstract!Remove(key)
      BY <3>2, <3>3 DEF Abstract!Remove
    <3> QED BY <3>4 DEF Abstract!Next
  <2>5. ASSUME NEW key \in Keys, NEW value \in Values, InsertStart(key, value) PROVE Abstract!Next
    <3>1. Abstract!Call
      BY <2>1, <2>5 DEF InsertStart, Abstract!Call
    <3> QED BY <3>1 DEF Abstract!Next
  <2>6. CASE Split
    <3>1. map' = map
      BY <2>6, SplitStep
    <3>2. ret' = ret
      BY <2>6, Zenon DEF Split
    <3> QED BY <3>1, <3>2 DEF Abstract!vars
  <2>7. CASE InsertFinish
    <3>1. PICK key \in Keys, value \in Values : inserting = <<key, value>>
      BY <2>7 DEF InsertFinish, Inv, TypeInv, Pairs
    <3>2. \A other \in Keys : Lookup(other)' = IF other = key THEN value ELSE Lookup(other)
      BY <2>7, <3>1, InsertFinishStep
    <3>3. map' = [map EXCEPT ![key] = value]
      BY <3>2, Zenon
    <3>4. ret' = <<"Insert", key, value>>
      BY <2>7, <3>1 DEF InsertFinish
    <3>5. Abstract!Insert(key, value)
      BY <3>3, <3>4 DEF Abstract!Insert
    <3> QED BY <3>5 DEF Abstract!Next
  <2> QED BY <2>2, <2>3, <2>4, <2>5, <2>6, <2>7 DEF Next
<1> QED BY <1>1, <1>2, Invariance, PTL DEF Spec, Implements, Abstract!Spec

=============================================================================
