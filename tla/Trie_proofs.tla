----------------------------- MODULE Trie_proofs -----------------------------
(***************************************************************************)
(* The trie keeps no garbage, and it is a map in which Remove forgets the  *)
(* prefixes that no other key extends, for every alphabet, every set of    *)
(* keys and every number of threads.                                       *)
(***************************************************************************)
EXTENDS Trie, WellFoundedInduction, TLAPS

\* Leaves that name no prover are tried with these, in this order.
USE SMT, Zenon, SMTT(30), ZenonT(30)

-----------------------------------------------------------------------------
(* Strings and their prefixes. *)

\* A set that holds 0 and the successors of its elements holds every natural.
LEMMA SetInduction ==
  ASSUME NEW S, 0 \in S, \A n \in Nat : n \in S => n + 1 \in S
  PROVE  Nat \subseteq S
<1> SUFFICES ASSUME Nat \ S # {} PROVE FALSE
  OBVIOUS
<1>1. PICK m \in Nat \ S : \A y \in Nat \ S : ~ (<<y, m>> \in OpToRel(<, Nat))
  BY WFMin, NatLessThanWellFounded, Zenon
<1>2. m # 0 /\ m - 1 \in Nat
  OBVIOUS
<1>3. m - 1 \in Nat \ S
  <2>1. m - 1 \in S => (m - 1) + 1 \in S
    BY <1>2
  <2>2. (m - 1) + 1 = m
    OBVIOUS
  <2> QED BY <1>2, <2>1, <2>2
<1>4. <<m - 1, m>> \in OpToRel(<, Nat)
  BY <1>2 DEF OpToRel
<1> QED BY <1>1, <1>3, <1>4, Zenon

\* Strings of the same characters are equal.
LEMMA SameString ==
  ASSUME NEW p \in Seq(Chars), NEW q \in Seq(Chars), Len(p) = Len(q),
         \A i \in 1..Len(p) : p[i] = q[i]
  PROVE  p = q
OBVIOUS

LEMMA UptoType ==
  ASSUME NEW p \in Seq(Chars), NEW n \in 0..Len(p)
  PROVE  /\ Upto(p, n) \in Seq(Chars)
         /\ Len(Upto(p, n)) = n
         /\ \A i \in 1..n : Upto(p, n)[i] = p[i]
BY DEF Upto

\* A prefix is its first characters, and these are a prefix.
LEMMA PrefixIsUpto ==
  ASSUME NEW p \in Seq(Chars), NEW q \in Seq(Chars), IsPrefix(p, q)
  PROVE  p = Upto(q, Len(p)) /\ Len(p) \in 0..Len(q)
<1>1. Len(p) \in 0..Len(q)
  BY DEF IsPrefix
<1> QED BY <1>1, UptoType, SameString DEF IsPrefix

LEMMA UptoIsPrefix ==
  ASSUME NEW p \in Seq(Chars), NEW n \in 0..Len(p)
  PROVE  IsPrefix(Upto(p, n), p)
BY UptoType DEF IsPrefix

LEMMA UptoUpto ==
  ASSUME NEW p \in Seq(Chars), NEW n \in 0..Len(p), NEW m \in 0..n
  PROVE  Upto(Upto(p, n), m) = Upto(p, m)
<1>1. Upto(p, n) \in Seq(Chars) /\ Len(Upto(p, n)) = n /\ m \in 0..Len(p)
  BY UptoType
<1>2. Upto(Upto(p, n), m) \in Seq(Chars) /\ Upto(p, m) \in Seq(Chars)
  BY <1>1, UptoType
<1>3. Len(Upto(Upto(p, n), m)) = m /\ Len(Upto(p, m)) = m
  BY <1>1, UptoType
<1>4. ASSUME NEW i \in 1..m PROVE Upto(Upto(p, n), m)[i] = Upto(p, m)[i]
  <2>1. Upto(Upto(p, n), m)[i] = Upto(p, n)[i]
    BY <1>1, UptoType
  <2>2. Upto(p, n)[i] = p[i] /\ Upto(p, m)[i] = p[i]
    BY <1>1, UptoType
  <2> QED BY <2>1, <2>2
<1> QED BY <1>2, <1>3, <1>4, SameString

LEMMA UptoAll ==
  ASSUME NEW p \in Seq(Chars)
  PROVE  Upto(p, Len(p)) = p /\ Upto(p, 0) = <<>> /\ (p # <<>> => Len(p) \in Nat \ {0})
<1>1. Len(p) \in 0..Len(p)
  OBVIOUS
<1>2. Upto(p, Len(p)) = p
  BY <1>1, UptoType, SameString
<1> QED BY <1>2 DEF Upto

LEMMA PrefixReflexive ==
  ASSUME NEW p \in Seq(Chars)
  PROVE  IsPrefix(p, p)
BY DEF IsPrefix

LEMMA PrefixTransitive ==
  ASSUME NEW p \in Seq(Chars), NEW q \in Seq(Chars), NEW r \in Seq(Chars),
         IsPrefix(p, q), IsPrefix(q, r)
  PROVE  IsPrefix(p, r)
BY DEF IsPrefix

\* Two prefixes of a string: the shorter is a prefix of the longer.
LEMMA PrefixesNest ==
  ASSUME NEW p \in Seq(Chars), NEW m \in 0..Len(p), NEW n \in 0..m
  PROVE  IsPrefix(Upto(p, n), Upto(p, m))
BY UptoType DEF IsPrefix

\* One more character.
LEMMA AppendUpto ==
  ASSUME NEW p \in Seq(Chars), NEW n \in 1..Len(p)
  PROVE  Append(Upto(p, n - 1), p[n]) = Upto(p, n)
<1>1. n - 1 \in 0..Len(p) /\ n \in 0..Len(p) /\ n \in Nat /\ p[n] \in Chars
  OBVIOUS
<1>2. /\ Upto(p, n - 1) \in Seq(Chars) /\ Len(Upto(p, n - 1)) = n - 1
      /\ \A i \in 1..n - 1 : Upto(p, n - 1)[i] = p[i]
      /\ Upto(p, n) \in Seq(Chars) /\ Len(Upto(p, n)) = n
      /\ \A i \in 1..n : Upto(p, n)[i] = p[i]
  <2> DEFINE m == n - 1
  <2>1. /\ Upto(p, m) \in Seq(Chars) /\ Len(Upto(p, m)) = m
        /\ \A i \in 1..m : Upto(p, m)[i] = p[i]
    <3> HIDE DEF m
    <3>1. m \in 0..Len(p)
      BY <1>1 DEF m
    <3> QED BY <3>1, UptoType
  <2> QED BY <1>1, <2>1, UptoType
<1>3. /\ Append(Upto(p, n - 1), p[n]) \in Seq(Chars)
      /\ Len(Append(Upto(p, n - 1), p[n])) = n
      /\ \A i \in 1..n : Append(Upto(p, n - 1), p[n])[i] = p[i]
  BY <1>1, <1>2
<1> QED BY <1>2, <1>3, SameString

\* A string and the next character of a longer one that begins with it.
LEMMA NextCharacter ==
  ASSUME NEW p \in Seq(Chars), NEW q \in Seq(Chars), IsPrefix(p, q), Len(p) < Len(q)
  PROVE  q[Len(p) + 1] \in Chars /\ Append(p, q[Len(p) + 1]) = Upto(q, Len(p) + 1)
<1>1. Len(p) + 1 \in 1..Len(q) /\ (Len(p) + 1) - 1 = Len(p)
  OBVIOUS
<1>2. p = Upto(q, Len(p)) /\ q[Len(p) + 1] \in Chars
  BY <1>1, PrefixIsUpto
<1>3. Append(Upto(q, (Len(p) + 1) - 1), q[Len(p) + 1]) = Upto(q, Len(p) + 1)
  BY <1>1, AppendUpto
<1> QED BY <1>1, <1>2, <1>3

LEMMA AppendExtends ==
  ASSUME NEW p \in Seq(Chars), NEW c \in Chars
  PROVE  /\ Append(p, c) \in Seq(Chars) /\ Len(Append(p, c)) = Len(p) + 1
         /\ IsPrefix(p, Append(p, c))
BY DEF IsPrefix

-----------------------------------------------------------------------------
(* The inductive invariant. *)

EndsOf(ns) == {p \in DOMAIN ns : ns[p].is_end}

\* The paths are closed under prefixes, every node but the root is on the way
\* to the end of a key, and the root ends none.
NodesInv(ns) ==
  /\ ns = [p \in DOMAIN ns |-> ns[p]]
  /\ <<>> \in DOMAIN ns
  /\ ~ns[<<>>].is_end
  /\ \A p \in DOMAIN ns : p \in Seq(Chars) /\ \A n \in 0..Len(p) : Upto(p, n) \in DOMAIN ns
  /\ \A p \in DOMAIN ns : ns[p] = TrieNode \/ \E v \in Stored : ns[p] = TrieNodeWithValue(v)
  /\ \A p \in DOMAIN ns \ {<<>>} : \E q \in EndsOf(ns) : IsPrefix(p, q)

Flags == [path : Keys, value : Stored, freed : BOOLEAN]

\* A node that a thread holds ends a key, until it is released.
FlagsInv ==
  /\ flag_node \in [Threads -> {None} \cup Flags]
  /\ \A t \in Threads :
       flag_node[t] # None /\ ~flag_node[t].freed => flag_node[t].path \in EndsOf(nodes)

TrieInv == NodesInv(nodes) /\ FlagsInv

-----------------------------------------------------------------------------
(* The walk of Insert. *)

\* The nodes after the first n characters of the walk.
Walked(ns, key, n) ==
  [q \in DOMAIN ns \cup {Upto(key, m) : m \in 1..n} |-> IF q \in DOMAIN ns THEN ns[q] ELSE TrieNode]

LEMMA WalkStep ==
  ASSUME NEW ns, NEW key \in Seq(Chars), NEW n \in 1..Len(key)
  PROVE  Walked(ns, key, n)
           = InsertChildNode(Walked(ns, key, n - 1), Upto(key, n - 1), key[n], TrieNode)
<1> DEFINE before == Walked(ns, key, n - 1)
           paths == {Upto(key, m) : m \in 1..n}
           shorter == {Upto(key, m) : m \in 1..n - 1}
<1>1. Append(Upto(key, n - 1), key[n]) = Upto(key, n)
  BY AppendUpto
<1>2. paths = shorter \cup {Upto(key, n)}
  <2>1. n \in Nat
    OBVIOUS
  <2>2. \A m : m \in 1..n <=> m \in 1..n - 1 \/ m = n
    BY <2>1
  <2> HIDE DEF Upto
  <2> QED BY <2>2
<1>3. DOMAIN before = DOMAIN ns \cup shorter
  BY DEF Walked
<1>4. CASE Upto(key, n) \in DOMAIN before
  <2>1. DOMAIN ns \cup paths = DOMAIN ns \cup shorter
    BY <1>2, <1>3, <1>4
  <2>2. Walked(ns, key, n) = before
    BY <2>1 DEF Walked
  <2> QED BY <1>1, <1>4, <2>2, Zenon DEF InsertChildNode, HasChild
<1>5. CASE Upto(key, n) \notin DOMAIN before
  <2>1. InsertChildNode(before, Upto(key, n - 1), key[n], TrieNode)
          = WithNode(before, Upto(key, n), TrieNode)
    BY <1>1, <1>5, Zenon DEF InsertChildNode, HasChild
  <2>2. DOMAIN ns \cup paths = DOMAIN before \cup {Upto(key, n)}
    BY <1>2, <1>3
  <2>3. Upto(key, n) \notin DOMAIN ns
    BY <1>3, <1>5
  <2>4. \A q \in DOMAIN before : before[q] = IF q \in DOMAIN ns THEN ns[q] ELSE TrieNode
    BY DEF Walked
  <2>5. Walked(ns, key, n) = [q \in DOMAIN ns \cup paths |-> IF q \in DOMAIN ns THEN ns[q] ELSE TrieNode]
    BY DEF Walked
  <2> HIDE DEF before, paths
  <2>6. ASSUME NEW q \in DOMAIN before \cup {Upto(key, n)}
        PROVE  (IF q \in DOMAIN ns THEN ns[q] ELSE TrieNode)
                 = IF q = Upto(key, n) THEN TrieNode ELSE before[q]
    BY <2>3, <2>4
  <2>7. [q \in DOMAIN before \cup {Upto(key, n)} |-> IF q \in DOMAIN ns THEN ns[q] ELSE TrieNode]
          = [q \in DOMAIN before \cup {Upto(key, n)} |->
               IF q = Upto(key, n) THEN TrieNode ELSE before[q]]
    BY <2>6
  <2>8. Walked(ns, key, n) = InsertChildNode(before, Upto(key, n - 1), key[n], TrieNode)
    BY <2>1, <2>2, <2>5, <2>7, Zenon DEF WithNode
  <2> QED BY <2>8 DEF before
<1> QED BY <1>4, <1>5

\* What the walk creates.
LEMMA WalkForm ==
  ASSUME NEW ns, ns = [p \in DOMAIN ns |-> ns[p]], NEW key \in Seq(Chars), key # <<>>
  PROVE  WalkCreating(ns, key) = Walked(ns, key, Len(key) - 1)
<1> DEFINE Rec(f) == f = [n \in 0..Len(key) |->
                            IF n = 0 THEN ns
                            ELSE InsertChildNode(f[n-1], Upto(key, n-1), key[n], TrieNode)]
           upto == CHOOSE f : Rec(f)
           form == [n \in 0..Len(key) |-> Walked(ns, key, n)]
<1>1. WalkCreating(ns, key) = upto[Len(key) - 1]
  BY DEF WalkCreating
<1>2. Walked(ns, key, 0) = ns
  <2>1. {Upto(key, m) : m \in 1..0} = {}
    OBVIOUS
  <2> QED BY <2>1, Zenon DEF Walked
<1>3. \A n \in 1..Len(key) : Walked(ns, key, n)
           = InsertChildNode(Walked(ns, key, n - 1), Upto(key, n - 1), key[n], TrieNode)
  BY WalkStep
<1>4. Len(key) \in Nat \ {0}
  OBVIOUS
<1>5. Rec(form)
  <2>1. ASSUME NEW n \in 0..Len(key)
        PROVE  Walked(ns, key, n) = IF n = 0 THEN ns
                 ELSE InsertChildNode(form[n-1], Upto(key, n-1), key[n], TrieNode)
    <3>1. CASE n = 0
      BY <1>2, <3>1
    <3>2. CASE n # 0
      <4>1. n \in 1..Len(key) /\ n - 1 \in 0..Len(key)
        BY <1>4, <3>2
      <4>2. form[n - 1] = Walked(ns, key, n - 1)
        BY <4>1
      <4> QED BY <1>3, <3>2, <4>1, <4>2
    <3> QED BY <3>1, <3>2
  <2> QED BY <2>1
<1>6. Rec(upto)
  BY <1>5, Zenon
<1> HIDE DEF upto, form
<1> DEFINE S == {n \in Nat : n <= Len(key) => upto[n] = Walked(ns, key, n)}
<1>7. 0 \in S
  BY <1>2, <1>4, <1>6
<1>8. ASSUME NEW n \in Nat, n \in S PROVE n + 1 \in S
  <2> SUFFICES ASSUME n + 1 <= Len(key) PROVE upto[n + 1] = Walked(ns, key, n + 1)
    OBVIOUS
  <2>1. n + 1 \in 1..Len(key) /\ (n + 1) - 1 = n /\ upto[n] = Walked(ns, key, n)
    BY <1>4, <1>8
  <2>2. upto[n + 1] = InsertChildNode(upto[n], Upto(key, n), key[n + 1], TrieNode)
    BY <1>4, <1>6, <2>1
  <2>3. Walked(ns, key, n + 1)
          = InsertChildNode(Walked(ns, key, n), Upto(key, n), key[n + 1], TrieNode)
    BY <1>3, <2>1
  <2> QED BY <2>1, <2>2, <2>3
<1>9. Len(key) - 1 \in S
  <2> HIDE DEF S
  <2> QED BY <1>4, <1>7, <1>8, SetInduction
<1> QED BY <1>1, <1>4, <1>9

\* The walk passes over a key that is there, and stops before one that is not.
LEMMA WalkedDomain ==
  ASSUME NEW ns, NEW key \in Seq(Chars), key # <<>>
  PROVE  LET walked == Walked(ns, key, Len(key) - 1) IN
         /\ key \in DOMAIN walked <=> key \in DOMAIN ns
         /\ key \in DOMAIN ns => walked[key] = ns[key]
<1> DEFINE walked == Walked(ns, key, Len(key) - 1)
<1>1. Len(key) \in Nat \ {0}
  OBVIOUS
<1>2. ASSUME NEW m \in 1..Len(key) - 1 PROVE Upto(key, m) # key
  <2>1. m \in 0..Len(key) /\ m # Len(key)
    BY <1>1
  <2> QED BY <2>1, UptoType
<1>3. DOMAIN walked = DOMAIN ns \cup {Upto(key, m) : m \in 1..Len(key) - 1}
  BY DEF Walked
<1>4. \A q \in DOMAIN ns : walked[q] = ns[q]
  BY DEF Walked
<1> HIDE DEF walked
<1>5. key \in DOMAIN walked <=> key \in DOMAIN ns
  BY <1>2, <1>3
<1> QED BY <1>4, <1>5 DEF walked

\* A key that is stored has its whole path, and the walk changes nothing.
LEMMA WalkedStored ==
  ASSUME NEW ns, NodesInv(ns), NEW key \in DOMAIN ns
  PROVE  Walked(ns, key, Len(key) - 1) = ns
<1>1. key \in Seq(Chars) /\ \A n \in 0..Len(key) : Upto(key, n) \in DOMAIN ns
  BY DEF NodesInv
<1>2. \A m \in 1..Len(key) - 1 : m \in 0..Len(key)
  BY <1>1
<1>3. DOMAIN ns \cup {Upto(key, m) : m \in 1..Len(key) - 1} = DOMAIN ns
  BY <1>1, <1>2, Zenon
<1>4. ns = [p \in DOMAIN ns |-> ns[p]]
  BY DEF NodesInv
<1> QED BY <1>3, <1>4 DEF Walked

\* The nodes after a successful Insert.
Inserted(ns, key, v) ==
  WithNode(Walked(ns, key, Len(key) - 1), key, TrieNodeWithValue(v))

LEMMA InsertedNodes ==
  ASSUME NEW ns, NEW key \in Seq(Chars), key # <<>>, NEW v
  PROVE  LET new == Inserted(ns, key, v) IN
         /\ new = [p \in DOMAIN new |-> new[p]]
         /\ DOMAIN new = DOMAIN ns \cup {Upto(key, m) : m \in 1..Len(key)}
         /\ new[key] = TrieNodeWithValue(v)
         /\ \A q \in DOMAIN new \ {key} : new[q] = IF q \in DOMAIN ns THEN ns[q] ELSE TrieNode
         /\ key \in DOMAIN new
<1> DEFINE walked == Walked(ns, key, Len(key) - 1)
           new == Inserted(ns, key, v)
           paths == {Upto(key, m) : m \in 1..Len(key) - 1}
<1>1. Len(key) \in Nat \ {0} /\ Upto(key, Len(key)) = key
  BY UptoAll
<1>2. {Upto(key, m) : m \in 1..Len(key)} = paths \cup {key}
  <2>1. \A m : m \in 1..Len(key) <=> m \in 1..Len(key) - 1 \/ m = Len(key)
    BY <1>1
  <2> QED BY <1>1, <2>1
<1>3. DOMAIN walked = DOMAIN ns \cup paths
  BY DEF Walked
<1>4. \A q \in DOMAIN walked : walked[q] = IF q \in DOMAIN ns THEN ns[q] ELSE TrieNode
  BY DEF Walked
<1>5. new = [q \in DOMAIN walked \cup {key} |-> IF q = key THEN TrieNodeWithValue(v) ELSE walked[q]]
  BY DEF Inserted, WithNode
<1> HIDE DEF walked, new, paths
<1>6. DOMAIN new = DOMAIN ns \cup {Upto(key, m) : m \in 1..Len(key)}
  BY <1>2, <1>3, <1>5, Zenon
<1>7. new[key] = TrieNodeWithValue(v) /\ key \in DOMAIN new
  BY <1>5
<1>8. \A q \in DOMAIN new \ {key} : new[q] = IF q \in DOMAIN ns THEN ns[q] ELSE TrieNode
  BY <1>4, <1>5
<1>9. new = [p \in DOMAIN new |-> new[p]]
  BY <1>5
<1> QED BY <1>6, <1>7, <1>8, <1>9 DEF new

\* Insert adds one end of a key, and keeps the invariant of the nodes.
LEMMA InsertKeepsNodes ==
  ASSUME NEW ns, NodesInv(ns), NEW key \in Seq(Chars), key # <<>>, NEW v \in Stored,
         key \notin EndsOf(ns)
  PROVE  LET new == Inserted(ns, key, v) IN
         /\ NodesInv(new)
         /\ EndsOf(new) = EndsOf(ns) \cup {key}
         /\ \A q \in EndsOf(new) : new[q].value = IF q = key THEN v ELSE ns[q].value
<1> DEFINE new == Inserted(ns, key, v)
<1>1. /\ new = [p \in DOMAIN new |-> new[p]]
      /\ DOMAIN new = DOMAIN ns \cup {Upto(key, m) : m \in 1..Len(key)}
      /\ new[key] = TrieNodeWithValue(v)
      /\ \A q \in DOMAIN new \ {key} : new[q] = IF q \in DOMAIN ns THEN ns[q] ELSE TrieNode
      /\ key \in DOMAIN new
  BY InsertedNodes, Zenon
<1> HIDE DEF new
<1>2. new[key].is_end /\ new[key].value = v /\ ~TrieNode.is_end
  BY <1>1 DEF TrieNode, TrieNodeWithValue
<1>3. EndsOf(new) = EndsOf(ns) \cup {key}
  BY <1>1, <1>2 DEF EndsOf
<1>4. \A q \in EndsOf(new) : new[q].value = IF q = key THEN v ELSE ns[q].value
  BY <1>1, <1>2, <1>3 DEF EndsOf
<1>5. <<>> \in DOMAIN new /\ ~new[<<>>].is_end
  BY <1>1 DEF NodesInv
<1>6. ASSUME NEW p \in DOMAIN new
      PROVE  p \in Seq(Chars) /\ \A n \in 0..Len(p) : Upto(p, n) \in DOMAIN new
  <2>1. CASE p \in DOMAIN ns
    BY <1>1, <2>1 DEF NodesInv
  <2>2. CASE p \notin DOMAIN ns
    <3>1. PICK m \in 1..Len(key) : p = Upto(key, m)
      BY <1>1, <2>2
    <3>2. m \in 0..Len(key) /\ m \in Nat /\ Len(key) \in Nat
      OBVIOUS
    <3>3. p \in Seq(Chars) /\ Len(p) = m
      BY <3>1, <3>2, UptoType
    <3>4. ASSUME NEW n \in 0..m PROVE Upto(p, n) \in DOMAIN new
      <4>1. Upto(p, n) = Upto(key, n)
        BY <3>1, <3>2, UptoUpto
      <4>2. CASE n = 0
        BY <1>5, <4>1, <4>2, UptoAll
      <4>3. CASE n # 0
        <5>1. n \in 1..Len(key)
          BY <3>2, <4>3
        <5> QED BY <1>1, <4>1, <5>1
      <4> QED BY <4>2, <4>3
    <3> QED BY <3>3, <3>4
  <2> QED BY <2>1, <2>2
<1>7. ASSUME NEW p \in DOMAIN new
      PROVE  new[p] = TrieNode \/ \E w \in Stored : new[p] = TrieNodeWithValue(w)
  BY <1>1 DEF NodesInv
<1>8. ASSUME NEW p \in DOMAIN new \ {<<>>} PROVE \E q \in EndsOf(new) : IsPrefix(p, q)
  <2>1. CASE p \in DOMAIN ns
    BY <1>3, <2>1 DEF NodesInv
  <2>2. CASE p \notin DOMAIN ns
    <3>1. PICK m \in 1..Len(key) : p = Upto(key, m)
      BY <1>1, <2>2
    <3>2. m \in 0..Len(key)
      OBVIOUS
    <3>3. IsPrefix(p, key)
      BY <3>1, <3>2, UptoIsPrefix
    <3> QED BY <1>3, <3>3
  <2> QED BY <2>1, <2>2
<1>9. NodesInv(new)
  BY <1>1, <1>5, <1>6, <1>7, <1>8 DEF NodesInv
<1> QED BY <1>3, <1>4, <1>9 DEF new

-----------------------------------------------------------------------------
(* The unwinding of Remove. *)

\* Some path leaves the key after its first m characters.
Branches(ns, key, m) ==
  \E q \in DOMAIN ns : IsPrefix(Upto(key, m), q) /\ ~IsPrefix(q, key)

Released(ns, key, n) == {Upto(key, m) : m \in {k \in n..Len(key) : ~Branches(ns, key, k)}}

\* The nodes when the unwinding has come down to the n-th character.
Unwound(ns, key, n) == Restrict(ns, DOMAIN ns \ Released(ns, key, n))

\* What the lemmas on Remove(key) assume.
Removing(ns, key) == NodesInv(ns) /\ key \in DOMAIN ns \ {<<>>}

LEMMA RemovingFacts ==
  ASSUME NEW ns, NEW key, Removing(ns, key)
  PROVE  /\ key \in Seq(Chars) /\ Len(key) \in Nat \ {0}
         /\ \A n \in 0..Len(key) : Upto(key, n) \in DOMAIN ns
         /\ \A p \in DOMAIN ns : p \in Seq(Chars) /\ \A n \in 0..Len(p) : Upto(p, n) \in DOMAIN ns
BY UptoAll DEF Removing, NodesInv

\* Where a path leaves the key, it leaves every shorter part of it.
LEMMA BranchesDown ==
  ASSUME NEW ns, NEW key, Removing(ns, key), NEW m \in 0..Len(key), NEW n \in 0..m,
         Branches(ns, key, m)
  PROVE  Branches(ns, key, n)
<1>1. PICK q \in DOMAIN ns : IsPrefix(Upto(key, m), q) /\ ~IsPrefix(q, key)
  BY DEF Branches
<1>2. key \in Seq(Chars) /\ q \in Seq(Chars) /\ Len(key) \in Nat
  BY RemovingFacts
<1>3. n \in 0..Len(key)
  BY <1>2
<1>4. Upto(key, m) \in Seq(Chars) /\ Upto(key, n) \in Seq(Chars)
  BY <1>2, <1>3, UptoType
<1>5. IsPrefix(Upto(key, n), Upto(key, m))
  BY <1>2, PrefixesNest
<1>6. IsPrefix(Upto(key, n), q)
  BY <1>1, <1>2, <1>4, <1>5, PrefixTransitive
<1> QED BY <1>1, <1>6 DEF Branches

\* A released path is a part of the key; its length tells which.
LEMMA ReleasedPaths ==
  ASSUME NEW ns, NEW key, Removing(ns, key), NEW n \in 1..Len(key) + 1, NEW p \in Seq(Chars)
  PROVE  p \in Released(ns, key, n)
           <=> IsPrefix(p, key) /\ n <= Len(p) /\ ~Branches(ns, key, Len(p))
<1>1. key \in Seq(Chars) /\ Len(key) \in Nat /\ n \in Nat
  BY RemovingFacts
<1>2. ASSUME p \in Released(ns, key, n)
      PROVE  IsPrefix(p, key) /\ n <= Len(p) /\ ~Branches(ns, key, Len(p))
  <2>1. PICK m \in n..Len(key) : p = Upto(key, m) /\ ~Branches(ns, key, m)
    BY <1>2 DEF Released
  <2>2. m \in 0..Len(key) /\ n <= m
    BY <1>1
  <2>3. IsPrefix(p, key) /\ Len(p) = m
    BY <1>1, <2>1, <2>2, UptoType, UptoIsPrefix
  <2> QED BY <2>1, <2>2, <2>3
<1>3. ASSUME IsPrefix(p, key), n <= Len(p), ~Branches(ns, key, Len(p))
      PROVE  p \in Released(ns, key, n)
  <2>1. p = Upto(key, Len(p)) /\ Len(p) \in 0..Len(key)
    BY <1>1, <1>3, PrefixIsUpto
  <2>2. Len(p) \in n..Len(key)
    BY <1>1, <1>3, <2>1
  <2> QED BY <1>3, <2>1, <2>2 DEF Released
<1> QED BY <1>2, <1>3

\* The test of the unwinding finds the branches.
LEMMA TestFindsBranches ==
  ASSUME NEW ns, NEW key, Removing(ns, key), NEW n \in 1..Len(key)
  PROVE  UnwindTest(Unwound(ns, key, n + 1), Upto(key, n - 1), key[n]) <=> Branches(ns, key, n)
<1> DEFINE p == Upto(key, n)
           rest == Unwound(ns, key, n + 1)
<1>1. /\ key \in Seq(Chars) /\ Len(key) \in Nat /\ n \in Nat /\ n \in 0..Len(key)
      /\ n + 1 \in 1..Len(key) + 1
  BY RemovingFacts
<1>2. p \in Seq(Chars) /\ Len(p) = n
  BY <1>1, UptoType
<1>3. Append(Upto(key, n - 1), key[n]) = p
  BY <1>1, AppendUpto
<1>4. DOMAIN rest = DOMAIN ns \ Released(ns, key, n + 1)
  BY DEF Unwound, Restrict
<1>5. UnwindTest(rest, Upto(key, n - 1), key[n]) <=> \E c \in Chars : Append(p, c) \in DOMAIN rest
  BY <1>3, Zenon DEF UnwindTest, HasChildren, HasChild
<1> HIDE DEF p, rest
<1>6. ASSUME Branches(ns, key, n) PROVE \E c \in Chars : Append(p, c) \in DOMAIN rest
  <2>1. PICK q \in DOMAIN ns : IsPrefix(p, q) /\ ~IsPrefix(q, key)
    BY <1>6 DEF Branches, p
  <2>2. q \in Seq(Chars) /\ \A i \in 0..Len(q) : Upto(q, i) \in DOMAIN ns
    BY RemovingFacts
  <2>3. Len(q) \in Nat /\ n < Len(q)
    <3>1. Len(q) \in Nat /\ n <= Len(q)
      BY <1>2, <2>1, <2>2 DEF IsPrefix
    <3>2. ASSUME Len(q) = n PROVE FALSE
      <4>1. q = p
        BY <1>2, <2>1, <2>2, <3>2, PrefixIsUpto, UptoAll
      <4> QED BY <1>1, <2>1, <4>1, UptoIsPrefix DEF p
    <3> QED BY <1>1, <3>1, <3>2
  <2>4. q[n + 1] \in Chars /\ Append(p, q[n + 1]) = Upto(q, n + 1)
    BY <1>2, <2>1, <2>2, <2>3, NextCharacter
  <2>5. n + 1 \in 0..Len(q)
    BY <1>1, <2>3
  <2>6. Upto(q, n + 1) \in DOMAIN ns /\ Upto(q, n + 1) \in Seq(Chars) /\ Len(Upto(q, n + 1)) = n + 1
    BY <2>2, <2>5, UptoType
  <2>7. ASSUME IsPrefix(Upto(q, n + 1), key) PROVE Branches(ns, key, n + 1)
    <3>1. Upto(q, n + 1) = Upto(key, n + 1)
      BY <1>1, <2>6, <2>7, PrefixIsUpto
    <3>2. IsPrefix(Upto(q, n + 1), q)
      BY <2>2, <2>5, UptoIsPrefix
    <3> QED BY <2>1, <3>1, <3>2 DEF Branches
  <2>8. Upto(q, n + 1) \notin Released(ns, key, n + 1)
    BY <1>1, <2>6, <2>7, ReleasedPaths
  <2> QED BY <1>4, <2>4, <2>6, <2>8, Zenon
<1>7. ASSUME NEW c \in Chars, Append(p, c) \in DOMAIN rest PROVE Branches(ns, key, n)
  <2> DEFINE r == Append(p, c)
  <2>1. r \in Seq(Chars) /\ Len(r) = n + 1 /\ IsPrefix(p, r)
    BY <1>2, AppendExtends
  <2>2. r \in DOMAIN ns /\ r \notin Released(ns, key, n + 1)
    BY <1>4, <1>7
  <2> HIDE DEF r
  <2>3. CASE ~IsPrefix(r, key)
    BY <2>1, <2>2, <2>3 DEF Branches, p
  <2>4. CASE IsPrefix(r, key)
    <3>1. Branches(ns, key, n + 1)
      BY <1>1, <2>1, <2>2, <2>4, ReleasedPaths
    <3>2. n + 1 \in 0..Len(key) /\ n \in 0..n + 1
      BY <1>1, <2>1, <2>4 DEF IsPrefix
    <3> QED BY <3>1, <3>2, BranchesDown
  <2> QED BY <2>3, <2>4
<1> QED BY <1>5, <1>6, <1>7 DEF rest

\* One character of the unwinding.
LEMMA UnwindStep ==
  ASSUME NEW ns, NEW key, Removing(ns, key), NEW n \in 1..Len(key)
  PROVE  LET rest == Unwound(ns, key, n + 1)
             p == Upto(key, n - 1) IN
         Unwound(ns, key, n) = IF UnwindTest(rest, p, key[n]) THEN rest
                               ELSE RemoveChildNode(rest, p, key[n])
<1> DEFINE p == Upto(key, n)
           rest == Unwound(ns, key, n + 1)
<1>1. /\ key \in Seq(Chars) /\ Len(key) \in Nat /\ n \in Nat /\ n \in 0..Len(key)
      /\ n + 1 \in 1..Len(key) + 1 /\ n \in 1..Len(key) + 1
  BY RemovingFacts
<1>2. p \in Seq(Chars) /\ Len(p) = n /\ IsPrefix(p, key)
  BY <1>1, UptoType, UptoIsPrefix
<1>3. UnwindTest(rest, Upto(key, n - 1), key[n]) <=> Branches(ns, key, n)
  BY TestFindsBranches
<1>4. rest = [q \in DOMAIN ns \ Released(ns, key, n + 1) |-> ns[q]]
  BY DEF Unwound, Restrict
<1>5. Unwound(ns, key, n) = [q \in DOMAIN ns \ Released(ns, key, n) |-> ns[q]]
  BY DEF Unwound, Restrict
<1>6. Append(Upto(key, n - 1), key[n]) = p
  BY <1>1, AppendUpto
<1>7. \A q \in DOMAIN ns : q \in Seq(Chars)
  BY RemovingFacts
<1>8. \A q \in Seq(Chars) : IsPrefix(q, key) /\ Len(q) = n => q = p
  BY <1>1, PrefixIsUpto DEF p
<1> HIDE DEF p, rest
<1>9. CASE Branches(ns, key, n)
  <2>1. ASSUME NEW q \in DOMAIN ns
        PROVE  q \in Released(ns, key, n) <=> q \in Released(ns, key, n + 1)
    BY <1>1, <1>7, <1>9, ReleasedPaths
  <2>2. DOMAIN ns \ Released(ns, key, n) = DOMAIN ns \ Released(ns, key, n + 1)
    BY <2>1
  <2>3. Unwound(ns, key, n) = rest
    BY <1>4, <1>5, <2>2
  <2> QED BY <1>3, <1>9, <2>3 DEF rest
<1>10. CASE ~Branches(ns, key, n)
  <2>1. ASSUME NEW q \in DOMAIN ns
        PROVE  q \notin Released(ns, key, n) <=> q \notin Released(ns, key, n + 1) /\ ~IsPrefix(p, q)
    <3>0. q \in Seq(Chars) /\ Len(q) \in Nat
      BY <1>7
    <3>1. CASE IsPrefix(p, q)
      <4>1. IsPrefix(q, key) /\ n <= Len(q) /\ Len(q) \in 0..Len(key)
        BY <1>1, <1>2, <1>10, <3>0, <3>1 DEF Branches, IsPrefix, p
      <4>2. ~Branches(ns, key, Len(q))
        BY <1>1, <1>10, <4>1, BranchesDown
      <4> QED BY <1>1, <3>0, <3>1, <4>1, <4>2, ReleasedPaths
    <3>2. CASE ~IsPrefix(p, q)
      <4>1. ~(IsPrefix(q, key) /\ Len(q) = n)
        BY <1>2, <1>8, <3>0, <3>2, PrefixReflexive
      <4> QED BY <1>1, <3>0, <3>2, <4>1, ReleasedPaths
    <3> QED BY <3>1, <3>2
  <2>2. DOMAIN ns \ Released(ns, key, n) = {q \in DOMAIN rest : ~IsPrefix(p, q)}
    BY <1>4, <2>1
  <2>3. RemoveChildNode(rest, Upto(key, n - 1), key[n])
          = [q \in {r \in DOMAIN rest : ~IsPrefix(p, r)} |-> rest[q]]
    BY <1>6, Zenon DEF RemoveChildNode, Restrict
  <2>4. \A q \in DOMAIN rest : rest[q] = ns[q]
    BY <1>4
  <2>5. Unwound(ns, key, n) = RemoveChildNode(rest, Upto(key, n - 1), key[n])
    BY <1>5, <2>2, <2>3, <2>4
  <2> QED BY <1>3, <1>10, <2>5 DEF rest
<1> QED BY <1>9, <1>10

\* What the unwinding leaves.
LEMMA UnwindForm ==
  ASSUME NEW ns, NEW key, Removing(ns, key)
  PROVE  Unwind(ns, key) = Unwound(ns, key, 1)
<1> DEFINE Step(rest, n) == LET p == Upto(key, n-1) IN
                            IF UnwindTest(rest, p, key[n]) THEN rest
                            ELSE RemoveChildNode(rest, p, key[n])
           Rec(f) == f = [n \in 1..Len(key)+1 |-> IF n > Len(key) THEN ns ELSE Step(f[n+1], n)]
           from == CHOOSE f : Rec(f)
           form == [n \in 1..Len(key)+1 |-> Unwound(ns, key, n)]
<1>1. Unwind(ns, key) = from[1]
  BY DEF Unwind
<1>2. Len(key) \in Nat \ {0} /\ ns = [p \in DOMAIN ns |-> ns[p]]
  BY RemovingFacts DEF Removing, NodesInv
<1>3. Unwound(ns, key, Len(key) + 1) = ns
  <2>1. Released(ns, key, Len(key) + 1) = {}
    BY <1>2 DEF Released
  <2> QED BY <1>2, <2>1, Zenon DEF Unwound, Restrict
<1>4. \A n \in 1..Len(key) : Unwound(ns, key, n) = Step(Unwound(ns, key, n + 1), n)
  BY UnwindStep
<1> HIDE DEF Step
<1>5. Rec(form)
  <2>1. ASSUME NEW n \in 1..Len(key)+1
        PROVE  Unwound(ns, key, n) = IF n > Len(key) THEN ns ELSE Step(form[n+1], n)
    <3>1. CASE n > Len(key)
      <4>1. n = Len(key) + 1
        BY <1>2, <3>1
      <4> QED BY <1>3, <3>1, <4>1
    <3>2. CASE ~(n > Len(key))
      <4>1. n \in 1..Len(key) /\ n + 1 \in 1..Len(key)+1
        BY <1>2, <3>2
      <4>2. form[n + 1] = Unwound(ns, key, n + 1)
        BY <4>1
      <4> QED BY <1>4, <3>2, <4>1, <4>2
    <3> QED BY <3>1, <3>2
  <2> QED BY <2>1
<1>6. Rec(from)
  BY <1>5, Zenon
<1> HIDE DEF from, form
<1> DEFINE S == {j \in Nat : j <= Len(key) => from[(Len(key) + 1) - j] = Unwound(ns, key, (Len(key) + 1) - j)}
<1>7. 0 \in S
  BY <1>2, <1>3, <1>6
<1>8. ASSUME NEW j \in Nat, j \in S PROVE j + 1 \in S
  <2> SUFFICES ASSUME j + 1 <= Len(key)
               PROVE  from[(Len(key) + 1) - (j + 1)] = Unwound(ns, key, (Len(key) + 1) - (j + 1))
    OBVIOUS
  <2> DEFINE n == (Len(key) + 1) - (j + 1)
  <2>1. n \in 1..Len(key) /\ n + 1 = (Len(key) + 1) - j /\ ~(n > Len(key)) /\ n \in 1..Len(key)+1
    BY <1>2
  <2>2. from[n + 1] = Unwound(ns, key, n + 1)
    BY <1>2, <1>8, <2>1
  <2> HIDE DEF n
  <2>3. from[n] = Step(from[n + 1], n)
    BY <1>6, <2>1
  <2>4. from[n] = Unwound(ns, key, n)
    BY <1>4, <2>1, <2>2, <2>3
  <2> QED BY <2>4 DEF n
<1>9. Len(key) \in S
  <2> HIDE DEF S
  <2> QED BY <1>2, <1>7, <1>8, SetInduction
<1>10. from[(Len(key) + 1) - Len(key)] = Unwound(ns, key, (Len(key) + 1) - Len(key))
  BY <1>9
<1>11. (Len(key) + 1) - Len(key) = 1
  BY <1>2
<1> QED BY <1>1, <1>10, <1>11

\* The ends that Remove(key) releases, as PrefixMap has them.
Lost(ends, key) ==
  {p \in ends : IsPrefix(p, key) /\ \A q \in ends : IsPrefix(p, q) => IsPrefix(q, key)}

\* Remove keeps the invariant of the nodes, and releases these ends.
LEMMA RemoveKeepsNodes ==
  ASSUME NEW ns, NEW key, Removing(ns, key)
  PROVE  LET rest == Unwound(ns, key, 1) IN
         /\ NodesInv(rest)
         /\ DOMAIN rest \subseteq DOMAIN ns
         /\ \A q \in DOMAIN rest : rest[q] = ns[q]
         /\ EndsOf(rest) = EndsOf(ns) \ Lost(EndsOf(ns), key)
<1> DEFINE rest == Unwound(ns, key, 1)
           Clear(p) == \A q \in DOMAIN ns : IsPrefix(p, q) => IsPrefix(q, key)
<1>1. /\ key \in Seq(Chars) /\ Len(key) \in Nat /\ 1 \in 1..Len(key) + 1
      /\ \A p \in DOMAIN ns : p \in Seq(Chars) /\ \A n \in 0..Len(p) : Upto(p, n) \in DOMAIN ns
  BY RemovingFacts
<1>2. rest = [q \in DOMAIN ns \ Released(ns, key, 1) |-> ns[q]]
  BY DEF Unwound, Restrict
<1>3. ASSUME NEW p \in DOMAIN ns
      PROVE  p \in DOMAIN rest <=> p = <<>> \/ ~IsPrefix(p, key) \/ ~Clear(p)
  <2>0. p \in Seq(Chars) /\ Len(p) \in Nat
    BY <1>1
  <2>1. 1 <= Len(p) <=> p # <<>>
    BY <2>0
  <2>2. ASSUME IsPrefix(p, key) PROVE Branches(ns, key, Len(p)) <=> ~Clear(p)
    <3>1. p = Upto(key, Len(p))
      BY <1>1, <2>0, <2>2, PrefixIsUpto
    <3> QED BY <3>1, Zenon DEF Branches
  <2>3. p \in Released(ns, key, 1) <=> IsPrefix(p, key) /\ 1 <= Len(p) /\ ~Branches(ns, key, Len(p))
    BY <1>1, <2>0, ReleasedPaths
  <2> HIDE DEF Clear, rest
  <2> QED BY <1>2, <2>1, <2>2, <2>3
<1>4. DOMAIN rest \subseteq DOMAIN ns /\ \A q \in DOMAIN rest : rest[q] = ns[q]
  BY <1>2
<1>5. rest = [q \in DOMAIN rest |-> rest[q]]
  BY <1>2
<1> HIDE DEF rest
<1>6. <<>> \in DOMAIN rest /\ ~rest[<<>>].is_end
  BY <1>3, <1>4 DEF Removing, NodesInv
<1>7. ASSUME NEW p \in DOMAIN rest, NEW n \in 0..Len(p) PROVE Upto(p, n) \in DOMAIN rest
  <2> DEFINE r == Upto(p, n)
  <2>1. p \in Seq(Chars) /\ r \in DOMAIN ns
    BY <1>1, <1>4
  <2>2. r \in Seq(Chars) /\ IsPrefix(r, p)
    BY <2>1, UptoType, UptoIsPrefix
  <2> HIDE DEF r
  <2>3. ASSUME r \notin DOMAIN rest PROVE FALSE
    <3>1. r # <<>> /\ IsPrefix(r, key) /\ Clear(r)
      BY <1>3, <2>1, <2>3
    <3>2. IsPrefix(p, key)
      BY <1>4, <2>2, <3>1
    <3>3. Clear(p)
      BY <1>1, <2>1, <2>2, <3>1, PrefixTransitive
    <3>4. p # <<>>
      BY <2>1, <2>2, <3>1 DEF IsPrefix
    <3> QED BY <1>3, <1>4, <3>2, <3>3, <3>4
  <2> QED BY <2>3 DEF r
<1>8. ASSUME NEW p \in DOMAIN rest \ {<<>>} PROVE \E q \in EndsOf(rest) : IsPrefix(p, q)
  <2>1. p \in DOMAIN ns /\ p \in Seq(Chars)
    BY <1>1, <1>4
  <2>2. PICK r \in DOMAIN ns : IsPrefix(p, r) /\ ~IsPrefix(r, key)
    <3>1. CASE IsPrefix(p, key)
      BY <1>3, <2>1, <3>1
    <3>2. CASE ~IsPrefix(p, key)
      BY <2>1, <3>2, PrefixReflexive
    <3> QED BY <3>1, <3>2
  <2>3. r # <<>> /\ r \in Seq(Chars)
    BY <1>1, <2>1, <2>2 DEF IsPrefix
  <2>4. PICK q \in EndsOf(ns) : IsPrefix(r, q)
    BY <2>3 DEF Removing, NodesInv
  <2>5. q \in DOMAIN ns /\ q \in Seq(Chars) /\ ns[q].is_end
    BY <1>1 DEF EndsOf
  <2>6. ~IsPrefix(q, key)
    BY <1>1, <2>2, <2>3, <2>4, <2>5, PrefixTransitive
  <2>7. q \in EndsOf(rest)
    BY <1>3, <1>4, <2>5, <2>6 DEF EndsOf
  <2>8. IsPrefix(p, q)
    BY <2>1, <2>2, <2>3, <2>4, <2>5, PrefixTransitive
  <2> QED BY <2>7, <2>8
<1>9. NodesInv(rest)
  <2>1. ASSUME NEW p \in DOMAIN rest
        PROVE  rest[p] = TrieNode \/ \E v \in Stored : rest[p] = TrieNodeWithValue(v)
    BY <1>4 DEF Removing, NodesInv
  <2>2. \A p \in DOMAIN rest : p \in Seq(Chars)
    BY <1>1, <1>4
  <2> QED BY <1>5, <1>6, <1>7, <1>8, <2>1, <2>2 DEF NodesInv
<1>10. ASSUME NEW p \in EndsOf(ns) PROVE p \in EndsOf(rest) <=> p \notin Lost(EndsOf(ns), key)
  <2>1. p \in DOMAIN ns /\ p \in Seq(Chars) /\ p # <<>> /\ ns[p].is_end
    BY <1>1 DEF EndsOf, Removing, NodesInv
  <2>2. p \in EndsOf(rest) <=> p \in DOMAIN rest
    BY <1>4, <2>1 DEF EndsOf
  <2>3. Clear(p) => \A q \in EndsOf(ns) : IsPrefix(p, q) => IsPrefix(q, key)
    BY DEF EndsOf
  <2>4. ASSUME \A q \in EndsOf(ns) : IsPrefix(p, q) => IsPrefix(q, key),
               NEW r \in DOMAIN ns, IsPrefix(p, r)
        PROVE  IsPrefix(r, key)
    <3>1. r # <<>> /\ r \in Seq(Chars)
      BY <1>1, <2>1, <2>4 DEF IsPrefix
    <3>2. PICK q \in EndsOf(ns) : IsPrefix(r, q)
      BY <3>1 DEF Removing, NodesInv
    <3>3. q \in Seq(Chars)
      BY <1>1 DEF EndsOf
    <3>4. IsPrefix(q, key)
      BY <2>1, <2>4, <3>1, <3>2, <3>3, PrefixTransitive
    <3> QED BY <1>1, <3>1, <3>2, <3>3, <3>4, PrefixTransitive
  <2>5. p \in DOMAIN rest <=> ~IsPrefix(p, key) \/ ~Clear(p)
    BY <1>3, <2>1
  <2>6. Clear(p) <=> \A q \in EndsOf(ns) : IsPrefix(p, q) => IsPrefix(q, key)
    BY <2>3, <2>4
  <2> HIDE DEF Clear
  <2> QED BY <2>2, <2>5, <2>6 DEF Lost
<1>11. EndsOf(rest) \subseteq EndsOf(ns)
  BY <1>4 DEF EndsOf
<1>12. EndsOf(rest) = EndsOf(ns) \ Lost(EndsOf(ns), key)
  BY <1>10, <1>11
<1> QED BY <1>4, <1>9, <1>12 DEF rest

-----------------------------------------------------------------------------
(* The actions, in terms of the closed forms. *)

LEMMA InsertEffect ==
  ASSUME NodesInv(nodes), NEW t \in Threads, NEW key \in Keys, NEW v \in Stored, Insert(t, key, v)
  PROVE  LET new == key # <<>> /\ key \notin EndsOf(nodes) IN
         /\ flag_node[t] = None
         /\ nodes' = IF new THEN Inserted(nodes, key, v) ELSE nodes
         /\ ret' = <<"Insert", new>>
         /\ flag_node' = flag_node
<1> DEFINE walked == WalkCreating(nodes, key)
           new == key # <<>> /\ ~(key \in DOMAIN walked /\ walked[key].is_end)
<1>1. /\ flag_node[t] = None /\ flag_node' = flag_node /\ ret' = <<"Insert", new>>
      /\ nodes' = IF new THEN WithNode(walked, key, TrieNodeWithValue(v))
                  ELSE IF key = <<>> THEN nodes ELSE walked
  BY DEF Insert
<1>2. key \in Seq(Chars)
  BY KeysAreStrings
<1>3. CASE key = <<>>
  BY <1>1, <1>3
<1>4. CASE key # <<>>
  <2>1. walked = Walked(nodes, key, Len(key) - 1)
    BY <1>2, <1>4, WalkForm DEF NodesInv
  <2>2. /\ key \in DOMAIN walked <=> key \in DOMAIN nodes
        /\ key \in DOMAIN nodes => walked[key] = nodes[key]
    BY <1>2, <1>4, <2>1, WalkedDomain
  <2>3. key \in DOMAIN nodes => walked = nodes
    BY <2>1, WalkedStored
  <2> HIDE DEF walked
  <2>4. new <=> key \notin EndsOf(nodes)
    BY <1>4, <2>2 DEF EndsOf
  <2>5. ~new => walked = nodes
    BY <1>4, <2>2, <2>3
  <2> QED BY <1>1, <1>4, <2>1, <2>4, <2>5 DEF Inserted
<1> QED BY <1>3, <1>4

LEMMA RemoveEffect ==
  ASSUME NodesInv(nodes), NEW t \in Threads, NEW key \in Keys, Remove(t, key)
  PROVE  LET ok == key # <<>> /\ key \in DOMAIN nodes IN
         /\ flag_node[t] = None
         /\ nodes' = IF ok THEN Unwound(nodes, key, 1) ELSE nodes
         /\ flag_node' = [u \in Threads |->
                            IF flag_node[u] # None /\ flag_node[u].path \notin DOMAIN nodes'
                              THEN [flag_node[u] EXCEPT !.freed = TRUE] ELSE flag_node[u]]
         /\ ret' = <<"Remove", ok>>
<1> DEFINE ok == key # <<>> /\ key \in DOMAIN nodes
<1>1. /\ flag_node[t] = None
      /\ nodes' = IF ok THEN Unwind(nodes, key) ELSE nodes
      /\ flag_node' = [u \in Threads |->
                         IF flag_node[u] # None /\ flag_node[u].path \notin DOMAIN nodes'
                           THEN [flag_node[u] EXCEPT !.freed = TRUE] ELSE flag_node[u]]
      /\ ret' = <<"Remove", ok>>
  BY DEF Remove
<1>2. ok => Unwind(nodes, key) = Unwound(nodes, key, 1)
  BY UnwindForm DEF Removing
<1> QED BY <1>1, <1>2

-----------------------------------------------------------------------------
(* The invariant holds. *)

LEMMA InitInv == Init => TrieInv
<1> SUFFICES ASSUME Init PROVE TrieInv
  OBVIOUS
<1>1. DOMAIN nodes = {<<>>} /\ nodes[<<>>] = TrieNode /\ nodes = [p \in DOMAIN nodes |-> nodes[p]]
  BY DEF Init
<1>2. <<>> \in Seq(Chars) /\ \A n \in 0..Len(<<>>) : Upto(<<>>, n) = <<>>
  <2>1. <<>> \in Seq(Chars) /\ 0..Len(<<>>) = {0}
    OBVIOUS
  <2> QED BY <2>1, UptoAll, Zenon
<1>3. NodesInv(nodes)
  BY <1>1, <1>2 DEF NodesInv, TrieNode
<1>4. FlagsInv
  BY DEF Init, FlagsInv
<1> QED BY <1>3, <1>4 DEF TrieInv

LEMMA InsertInv ==
  ASSUME TrieInv, NEW t \in Threads, NEW key \in Keys, NEW v \in Stored, Insert(t, key, v)
  PROVE  TrieInv'
<1>1. NodesInv(nodes) /\ FlagsInv /\ key \in Seq(Chars)
  BY KeysAreStrings DEF TrieInv
<1>2. /\ nodes' = IF key # <<>> /\ key \notin EndsOf(nodes) THEN Inserted(nodes, key, v) ELSE nodes
      /\ flag_node' = flag_node
  BY <1>1, InsertEffect
<1>3. NodesInv(nodes') /\ EndsOf(nodes) \subseteq EndsOf(nodes')
  BY <1>1, <1>2, InsertKeepsNodes
<1>4. FlagsInv'
  BY <1>1, <1>2, <1>3 DEF FlagsInv
<1> QED BY <1>3, <1>4 DEF TrieInv

\* Remove leaves the nodes that PrefixMap keeps.
LEMMA RemoveNodes ==
  ASSUME TrieInv, NEW t \in Threads, NEW key \in Keys, Remove(t, key)
  PROVE  LET ok == key # <<>> /\ key \in DOMAIN nodes IN
         /\ NodesInv(nodes')
         /\ DOMAIN nodes' \subseteq DOMAIN nodes
         /\ \A q \in DOMAIN nodes' : nodes'[q] = nodes[q]
         /\ EndsOf(nodes') = EndsOf(nodes) \ (IF ok THEN Lost(EndsOf(nodes), key) ELSE {})
<1> DEFINE ok == key # <<>> /\ key \in DOMAIN nodes
<1>1. NodesInv(nodes) /\ nodes' = IF ok THEN Unwound(nodes, key, 1) ELSE nodes
  BY RemoveEffect DEF TrieInv
<1>2. CASE ok
  BY <1>1, <1>2, RemoveKeepsNodes DEF Removing
<1>3. CASE ~ok
  BY <1>1, <1>3
<1> QED BY <1>2, <1>3

LEMMA RemoveInv ==
  ASSUME TrieInv, NEW t \in Threads, NEW key \in Keys, Remove(t, key)
  PROVE  TrieInv'
<1>1. /\ NodesInv(nodes) /\ FlagsInv /\ NodesInv(nodes')
      /\ \A q \in DOMAIN nodes' : nodes'[q] = nodes[q]
  BY RemoveNodes DEF TrieInv
<1>2. flag_node' = [u \in Threads |->
                     IF flag_node[u] # None /\ flag_node[u].path \notin DOMAIN nodes'
                       THEN [flag_node[u] EXCEPT !.freed = TRUE] ELSE flag_node[u]]
  BY <1>1, RemoveEffect
<1>3. ASSUME NEW u \in Threads
      PROVE  /\ flag_node'[u] \in {None} \cup Flags
             /\ flag_node'[u] # None /\ ~flag_node'[u].freed => flag_node'[u].path \in EndsOf(nodes')
  <2>1. /\ flag_node[u] \in {None} \cup Flags
        /\ flag_node[u] # None /\ ~flag_node[u].freed => flag_node[u].path \in EndsOf(nodes)
    BY <1>1 DEF FlagsInv
  <2>2. CASE flag_node[u] # None /\ flag_node[u].path \notin DOMAIN nodes'
    <3>1. flag_node'[u] = [flag_node[u] EXCEPT !.freed = TRUE] /\ flag_node[u] \in Flags
      BY <1>2, <2>1, <2>2
    <3> QED BY <3>1, Zenon DEF Flags
  <2>3. CASE ~(flag_node[u] # None /\ flag_node[u].path \notin DOMAIN nodes')
    <3>1. flag_node'[u] = flag_node[u]
      BY <1>2, <2>3
    <3> QED BY <1>1, <2>1, <2>3, <3>1 DEF EndsOf
  <2> QED BY <2>2, <2>3
<1>4. FlagsInv'
  BY <1>2, <1>3, Zenon DEF FlagsInv
<1> QED BY <1>1, <1>4 DEF TrieInv

\* The value of a node that ends a key.
LEMMA EndValues ==
  ASSUME NodesInv(nodes), NEW key \in EndsOf(nodes)
  PROVE  nodes[key].value \in Stored /\ key # <<>>
BY DEF NodesInv, EndsOf, TrieNode, TrieNodeWithValue

LEMMA FindInv ==
  ASSUME TrieInv, NEW t \in Threads, NEW key \in Keys, NEW type \in Types,
         GetValueFind(t, key, type)
  PROVE  TrieInv'
<1> DEFINE flag == [path |-> key, value |-> nodes[key].value, freed |-> FALSE]
<1>1. NodesInv(nodes) /\ FlagsInv /\ nodes' = nodes
  BY DEF TrieInv, GetValueFind
<1>2. CASE key \in EndsOf(nodes) /\ flag_node' = [flag_node EXCEPT ![t] = flag]
  <2>1. flag \in Flags
    BY <1>1, <1>2, EndValues DEF Flags
  <2>2. flag_node' \in [Threads -> {None} \cup Flags]
    BY <1>1, <1>2, <2>1 DEF FlagsInv
  <2>3. flag_node'[t].path = key /\ \A u \in Threads \ {t} : flag_node'[u] = flag_node[u]
    BY <1>1, <1>2 DEF FlagsInv
  <2>4. FlagsInv'
    BY <1>1, <1>2, <2>2, <2>3 DEF FlagsInv
  <2> QED BY <1>1, <2>4 DEF TrieInv
<1>3. CASE flag_node' = flag_node
  BY <1>1, <1>3 DEF TrieInv, FlagsInv
<1> QED BY <1>2, <1>3, Zenon DEF GetValueFind, EndsOf

LEMMA ReadInv ==
  ASSUME TrieInv, NEW t \in Threads, GetValueRead(t)
  PROVE  TrieInv'
BY DEF TrieInv, FlagsInv, GetValueRead

LEMMA StepInv == TrieInv /\ [Next]_vars => TrieInv'
<1> SUFFICES ASSUME TrieInv, [Next]_vars PROVE TrieInv'
  OBVIOUS
<1>1. ASSUME NEW t \in Threads, NEW key \in Keys, NEW v \in Stored, Insert(t, key, v) PROVE TrieInv'
  BY <1>1, InsertInv
<1>2. ASSUME NEW t \in Threads, NEW key \in Keys, Remove(t, key) PROVE TrieInv'
  BY <1>2, RemoveInv
<1>3. ASSUME NEW t \in Threads, NEW key \in Keys, NEW type \in Types, GetValueFind(t, key, type)
      PROVE  TrieInv'
  BY <1>3, FindInv
<1>4. ASSUME NEW t \in Threads, GetValueRead(t) PROVE TrieInv'
  BY <1>4, ReadInv
<1>5. CASE UNCHANGED vars
  BY <1>5 DEF vars, TrieInv, FlagsInv
<1> QED BY <1>1, <1>2, <1>3, <1>4, <1>5 DEF Next

\* The invariant is one: the initial state has it and every step keeps it.
LEMMA AlwaysInv == Spec => []TrieInv
BY InitInv, StepInv, PTL DEF Spec

LEMMA InvWellFormed == TrieInv => TrieWellFormed
<1> SUFFICES ASSUME TrieInv, NEW p \in DOMAIN nodes \ {<<>>}
             PROVE  /\ Upto(p, Len(p) - 1) \in DOMAIN nodes
                    /\ nodes[p].is_end <=> nodes[p].value \in Stored
                    /\ nodes[p].is_end \/ HasChildren(nodes, p)
  BY DEF TrieWellFormed
<1>1. NodesInv(nodes)
  BY DEF TrieInv
<1>2. p \in Seq(Chars) /\ Len(p) \in Nat \ {0} /\ \A n \in 0..Len(p) : Upto(p, n) \in DOMAIN nodes
  BY <1>1, UptoAll DEF NodesInv
<1>3. Upto(p, Len(p) - 1) \in DOMAIN nodes
  BY <1>2
<1>4. nodes[p].is_end <=> nodes[p].value \in Stored
  BY <1>1, NoneAssumption DEF NodesInv, TrieNode, TrieNodeWithValue
<1>5. PICK q \in EndsOf(nodes) : IsPrefix(p, q)
  BY <1>1 DEF NodesInv
<1>6. q \in Seq(Chars) /\ Len(q) \in Nat /\ \A n \in 0..Len(q) : Upto(q, n) \in DOMAIN nodes
  BY <1>1 DEF NodesInv, EndsOf
<1>7. CASE Len(p) = Len(q)
  <2>1. p = q
    BY <1>2, <1>5, <1>6, <1>7, PrefixIsUpto, UptoAll
  <2> QED BY <1>3, <1>4, <1>5, <2>1 DEF EndsOf
<1>8. CASE Len(p) < Len(q)
  <2>1. q[Len(p) + 1] \in Chars /\ Append(p, q[Len(p) + 1]) = Upto(q, Len(p) + 1)
    BY <1>2, <1>5, <1>6, <1>8, NextCharacter
  <2>2. Len(p) + 1 \in 0..Len(q)
    BY <1>2, <1>6, <1>8
  <2>3. HasChildren(nodes, p)
    BY <1>6, <2>1, <2>2, Zenon DEF HasChildren, HasChild
  <2> QED BY <1>3, <1>4, <2>3
<1> QED BY <1>2, <1>5, <1>6, <1>7, <1>8 DEF IsPrefix

(* The trie keeps no garbage (TrieWellFormed): whatever is inserted and      *)
(* removed, by however many threads, every node hangs below its parent and  *)
(* lies on the path of a stored key (p0_trie.h, Insert and Remove).          *)
THEOREM NoGarbage == Spec => []TrieWellFormed
BY AlwaysInv, InvWellFormed, PTL

-----------------------------------------------------------------------------
(* The trie implements the map. *)

LEMMA FoundNone ==
  ASSUME NEW flag \in {None} \cup Flags
  PROVE  FoundOf(flag) = None <=> flag = None
<1>1. CASE flag = None
  BY <1>1 DEF FoundOf
<1>2. CASE flag # None
  <2>1. flag.path \in Keys /\ flag.value \in Stored /\ flag.freed \in BOOLEAN
    BY <1>2 DEF Flags
  <2> QED BY <1>2, <2>1, NoneAssumption DEF FoundOf
<1> QED BY <1>1, <1>2

LEMMA SamePrefix == \A p, q : Promise!IsPrefix(p, q) <=> IsPrefix(p, q)
BY DEF Promise!IsPrefix, IsPrefix

\* A record of PrefixMap that is marked lost.
LEMMA Losing ==
  ASSUME NEW r, NEW k, NEW v, NEW b, r = [key |-> k, value |-> v, lost |-> b]
  PROVE  [r EXCEPT !.lost = TRUE] = [key |-> k, value |-> v, lost |-> TRUE]
<1>1. PICK g : g = [r EXCEPT !.lost = TRUE]
  BY Zenon
<1>2. g = [key |-> k, value |-> v, lost |-> TRUE]
  BY <1>1, Zenon
<1> QED BY <1>1, <1>2, Zenon

LEMMA FoundIsNone ==
  ASSUME FlagsInv, NEW t \in Threads
  PROVE  Found[t] = FoundOf(flag_node[t]) /\ (Found[t] = None <=> flag_node[t] = None)
BY FoundNone DEF Found, FlagsInv

LEMMA StoredMapIs ==
  /\ DOMAIN StoredMap = EndsOf(nodes)
  /\ \A p \in EndsOf(nodes) : StoredMap[p] = nodes[p].value
BY DEF StoredMap, Ends, EndsOf

LEMMA InitRefines == Init => Promise!Init
<1> SUFFICES ASSUME Init PROVE Promise!Init
  OBVIOUS
<1>1. Ends = {}
  BY DEF Init, Ends, TrieNode
<1>2. StoredMap = [key \in {} |-> None]
  BY <1>1 DEF StoredMap
<1>3. Found = [t \in Threads |-> None]
  BY DEF Init, Found, FoundOf
<1> QED BY <1>2, <1>3 DEF Init, Promise!Init

LEMMA InsertRefines ==
  ASSUME TrieInv, NEW t \in Threads, NEW key \in Keys, NEW v \in Stored, Insert(t, key, v)
  PROVE  Promise!Insert(t, key, v)
<1> DEFINE new == key # <<>> /\ key \notin EndsOf(nodes)
<1>1. NodesInv(nodes) /\ FlagsInv /\ key \in Seq(Chars)
  BY KeysAreStrings DEF TrieInv
<1>2. /\ flag_node[t] = None
      /\ nodes' = IF new THEN Inserted(nodes, key, v) ELSE nodes
      /\ ret' = <<"Insert", new>>
      /\ flag_node' = flag_node
  BY <1>1, InsertEffect
<1>3. Found[t] = None /\ Found' = Found
  BY <1>1, <1>2, FoundIsNone DEF Found
<1>4. StoredMap' = IF new THEN [k \in EndsOf(nodes) \cup {key} |-> IF k = key THEN v ELSE StoredMap[k]]
                   ELSE StoredMap
  <2>1. CASE new
    <3>1. /\ EndsOf(nodes') = EndsOf(nodes) \cup {key}
          /\ \A q \in EndsOf(nodes') : nodes'[q].value = IF q = key THEN v ELSE nodes[q].value
      BY <1>1, <1>2, <2>1, InsertKeepsNodes
    <3>2. StoredMap' = [q \in EndsOf(nodes') |-> nodes'[q].value]
      BY DEF StoredMap, Ends, EndsOf
    <3>3. \A q \in EndsOf(nodes) : StoredMap[q] = nodes[q].value
      BY StoredMapIs
    <3> QED BY <2>1, <3>1, <3>2, <3>3
  <2>2. CASE ~new
    BY <1>2, <2>2 DEF StoredMap, Ends
  <2> QED BY <2>1, <2>2
<1> QED BY <1>2, <1>3, <1>4, StoredMapIs DEF Promise!Insert

LEMMA RemoveRefines ==
  ASSUME TrieInv, NEW t \in Threads, NEW key \in Keys, Remove(t, key)
  PROVE  Promise!Remove(t, key)
<1> DEFINE there == key # <<>> /\ key \in DOMAIN nodes
           ok == key # <<>> /\ \E q \in DOMAIN StoredMap : Promise!IsPrefix(key, q)
           gone == IF ok THEN Promise!Ending(key) ELSE {}
<1>1. NodesInv(nodes) /\ FlagsInv /\ FlagsInv' /\ key \in Seq(Chars)
  BY KeysAreStrings, RemoveInv DEF TrieInv
<1>2. /\ flag_node[t] = None
      /\ flag_node' = [u \in Threads |->
                         IF flag_node[u] # None /\ flag_node[u].path \notin DOMAIN nodes'
                           THEN [flag_node[u] EXCEPT !.freed = TRUE] ELSE flag_node[u]]
      /\ ret' = <<"Remove", there>>
  BY <1>1, RemoveEffect
<1>3. there <=> ok
  <2>1. ASSUME NEW q \in EndsOf(nodes), IsPrefix(key, q) PROVE key \in DOMAIN nodes
    <3>1. q \in Seq(Chars) /\ \A n \in 0..Len(q) : Upto(q, n) \in DOMAIN nodes
      BY <1>1 DEF NodesInv, EndsOf
    <3> QED BY <1>1, <2>1, <3>1, PrefixIsUpto
  <2>2. there <=> key # <<>> /\ \E q \in EndsOf(nodes) : IsPrefix(key, q)
    BY <1>1, <2>1 DEF NodesInv
  <2> QED BY <2>2, SamePrefix, StoredMapIs
<1>4. Promise!Ending(key) = Lost(EndsOf(nodes), key)
  BY SamePrefix, StoredMapIs DEF Promise!Ending, Lost
<1>5. /\ \A q \in DOMAIN nodes' : nodes'[q] = nodes[q]
      /\ EndsOf(nodes') = EndsOf(nodes) \ gone
  BY <1>3, <1>4, RemoveNodes
<1>A. ok \in Promise!Outcomes(key)
  <2>1. key \in DOMAIN StoredMap => ok
    BY <1>1, <1>3, EndValues, StoredMapIs DEF EndsOf, NodesInv
  <2>2. ok \in BOOLEAN
    OBVIOUS
  <2> QED BY <2>1, <2>2, Zenon, ZenonT(30) DEF Promise!Outcomes
<1>B. gone \in Promise!Losses(key, ok)
  BY DEF Promise!Losses
<1> HIDE DEF gone, ok
<1>6. StoredMap' = Restrict(StoredMap, EndsOf(nodes) \ gone)
  <2>1. \A q \in EndsOf(nodes') : q \in DOMAIN nodes' /\ q \in EndsOf(nodes)
    BY <1>5 DEF EndsOf
  <2>2. StoredMap' = [q \in EndsOf(nodes') |-> nodes'[q].value]
    BY DEF StoredMap, Ends, EndsOf
  <2> QED BY <1>5, <2>1, <2>2, StoredMapIs DEF Restrict
<1>7. ASSUME NEW u \in Threads
      PROVE  Found'[u] = IF Found[u] # None /\ Found[u].key \in gone
                           THEN [Found[u] EXCEPT !.lost = TRUE] ELSE Found[u]
  <2> DEFINE flag == flag_node[u]
  <2>1. /\ flag \in {None} \cup Flags
        /\ flag # None /\ ~flag.freed => flag.path \in EndsOf(nodes)
        /\ Found[u] = FoundOf(flag) /\ Found'[u] = FoundOf(flag_node'[u])
        /\ (Found[u] = None <=> flag = None)
    BY <1>1, FoundIsNone DEF FlagsInv, Found
  <2>2. CASE flag = None
    BY <1>2, <2>1, <2>2
  <2>3. CASE flag # None
    <3>1. /\ flag.path \in Keys /\ flag.value \in Stored /\ flag.freed \in BOOLEAN
          /\ flag = [path |-> flag.path, value |-> flag.value, freed |-> flag.freed]
      BY <2>1, <2>3 DEF Flags
    <3>2. Found[u] = [key |-> flag.path, value |-> flag.value, lost |-> flag.freed]
      BY <2>1, <2>3 DEF FoundOf
    <3>3. CASE flag.freed
      <4>0. flag.freed = TRUE
        BY <3>1, <3>3
      <4>1. flag_node'[u] = flag
        BY <1>2, <3>1, <4>0, Zenon
      <4>2. [Found[u] EXCEPT !.lost = TRUE] = Found[u]
        BY <3>2, <4>0, Losing
      <4> QED BY <2>1, <4>1, <4>2
    <3>4. CASE ~flag.freed
      <4>1. flag.path \in EndsOf(nodes) /\ (flag.path \in DOMAIN nodes' <=> flag.path \notin gone)
        BY <1>5, <2>1, <2>3, <3>4 DEF EndsOf
      <4>2. CASE flag.path \in gone
        <5>1. flag_node'[u] = [path |-> flag.path, value |-> flag.value, freed |-> TRUE]
          BY <1>2, <2>3, <3>1, <4>1, <4>2, Zenon
        <5>2. flag_node'[u] # None
          BY <3>1, <5>1, NoneAssumption, Zenon
        <5>3. Found'[u] = [key |-> flag.path, value |-> flag.value, lost |-> TRUE]
          BY <2>1, <5>1, <5>2 DEF FoundOf
        <5>4. [Found[u] EXCEPT !.lost = TRUE] = Found'[u]
          BY <3>2, <5>3, Losing
        <5>5. Found[u].key = flag.path
          BY <3>2
        <5> QED BY <2>1, <2>3, <4>2, <5>4, <5>5
      <4>3. CASE flag.path \notin gone
        <5>1. flag_node'[u] = flag
          BY <1>2, <4>1, <4>3
        <5>2. Found[u].key = flag.path
          BY <3>2
        <5> QED BY <2>1, <4>3, <5>1, <5>2
      <4> QED BY <4>2, <4>3
    <3> QED BY <3>1, <3>3, <3>4
  <2> QED BY <2>2, <2>3
<1>8. Found' = [u \in Threads |-> IF Found[u] # None /\ Found[u].key \in gone
                                    THEN [Found[u] EXCEPT !.lost = TRUE] ELSE Found[u]]
  BY <1>7 DEF Found
<1>9. Found[t] = None /\ StoredMap' = Restrict(StoredMap, DOMAIN StoredMap \ gone)
  BY <1>1, <1>2, <1>6, FoundIsNone, StoredMapIs
<1>10. ret' = <<"Remove", ok>>
  BY <1>2, <1>3, Zenon
<1> QED BY <1>A, <1>B, <1>8, <1>9, <1>10, Zenon DEF Promise!Remove, Promise!Restrict, Restrict

LEMMA FindRefines ==
  ASSUME TrieInv, NEW t \in Threads, NEW key \in Keys, NEW type \in Types,
         GetValueFind(t, key, type)
  PROVE  Promise!Lookup(t, key, type)
<1> DEFINE flag == [path |-> key, value |-> nodes[key].value, freed |-> FALSE]
           hit == key \in EndsOf(nodes) /\ nodes[key].value[1] = type
<1>1. NodesInv(nodes) /\ FlagsInv /\ flag_node[t] = None /\ nodes' = nodes
  BY DEF TrieInv, GetValueFind
<1>2. IF hit THEN flag_node' = [flag_node EXCEPT ![t] = flag] /\ ret' = ret
             ELSE ret' = <<"GetValue", FALSE>> /\ flag_node' = flag_node
  BY <1>1, EndValues, Zenon DEF GetValueFind, EndsOf
<1>3. Found[t] = None /\ StoredMap' = StoredMap
  BY <1>1, FoundIsNone DEF StoredMap, Ends
<1>4. hit <=> key \in DOMAIN StoredMap /\ StoredMap[key][1] = type
  BY StoredMapIs
<1>5. CASE hit
  <2>1. flag # None /\ StoredMap[key] = nodes[key].value
    BY <1>1, <1>5, EndValues, NoneAssumption, StoredMapIs, Zenon
  <2>2. FoundOf(flag) = [key |-> key, value |-> StoredMap[key], lost |-> FALSE]
    BY <2>1 DEF FoundOf
  <2> HIDE DEF flag
  <2>3. Found' = [Found EXCEPT ![t] = FoundOf(flag)]
    BY <1>1, <1>2, <1>5, Zenon DEF Found, FlagsInv
  <2> QED BY <1>2, <1>3, <1>4, <1>5, <2>2, <2>3, Zenon DEF Promise!Lookup
<1>6. CASE ~hit
  <2>1. Found' = Found
    BY <1>2, <1>6, Zenon DEF Found
  <2> QED BY <1>2, <1>3, <1>4, <1>6, <2>1, Zenon DEF Promise!Lookup
<1> QED BY <1>5, <1>6

LEMMA ReadRefines ==
  ASSUME TrieInv, NEW t \in Threads, GetValueRead(t)
  PROVE  Promise!Deliver(t)
<1>1. FlagsInv /\ flag_node[t] # None /\ nodes' = nodes /\ flag_node' = [flag_node EXCEPT ![t] = None]
  BY DEF TrieInv, GetValueRead
<1>2. Found[t] # None /\ StoredMap' = StoredMap
  BY <1>1, FoundIsNone DEF StoredMap, Ends
<1>3. Found[t].lost = flag_node[t].freed /\ Found[t].value = flag_node[t].value
  <2>1. Found[t] = [key |-> flag_node[t].path, value |-> flag_node[t].value, lost |-> flag_node[t].freed]
    BY <1>1, FoundIsNone DEF FoundOf
  <2> QED BY <2>1
<1>4. Found' = [Found EXCEPT ![t] = None]
  BY <1>1, Zenon DEF Found, FoundOf, FlagsInv
<1>5. Promise!Stored = Stored
  BY DEF Promise!Stored, Stored
<1> QED BY <1>2, <1>3, <1>4, <1>5 DEF GetValueRead, Promise!Deliver

LEMMA StepRefines == TrieInv /\ [Next]_vars => [Promise!Next]_Promise!vars
<1> SUFFICES ASSUME TrieInv, [Next]_vars PROVE [Promise!Next]_Promise!vars
  OBVIOUS
<1>1. ASSUME NEW t \in Threads, NEW key \in Keys, NEW v \in Stored, Insert(t, key, v)
      PROVE  Promise!Next
  <2>1. Promise!Insert(t, key, v) /\ v \in Promise!Stored
    BY <1>1, InsertRefines DEF Promise!Stored, Stored
  <2> QED BY <2>1 DEF Promise!Next
<1>2. ASSUME NEW t \in Threads, NEW key \in Keys, Remove(t, key) PROVE Promise!Next
  BY <1>2, RemoveRefines DEF Promise!Next
<1>3. ASSUME NEW t \in Threads, NEW key \in Keys, NEW type \in Types, GetValueFind(t, key, type)
      PROVE  Promise!Next
  BY <1>3, FindRefines DEF Promise!Next
<1>4. ASSUME NEW t \in Threads, GetValueRead(t) PROVE Promise!Next
  BY <1>4, ReadRefines DEF Promise!Next
<1>5. CASE UNCHANGED vars
  BY <1>5 DEF vars, Promise!vars, StoredMap, Ends, Found
<1> QED BY <1>1, <1>2, <1>3, <1>4, <1>5 DEF Next

(* The trie is the map that PrefixMap describes (ImplementsPromise): Insert  *)
(* never overwrites, Remove forgets its argument when no longer key is       *)
(* stored and never a key with extensions off the path of its argument, and  *)
(* a GetValue delivers what it found unless its key was forgotten meanwhile  *)
(* (p0_trie.h, Insert to GetValue).                                          *)
THEOREM TrieImplementsMap == Spec => ImplementsPromise
<1>1. TrieInv /\ [Next]_vars => [Promise!Next]_Promise!vars
  BY StepRefines
<1>2. Spec => Promise!Init
  BY InitRefines DEF Spec
<1> QED BY <1>1, <1>2, AlwaysInv, PTL DEF Spec, ImplementsPromise, Promise!Spec
=============================================================================
