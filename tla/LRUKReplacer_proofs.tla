------------------------- MODULE LRUKReplacer_proofs -------------------------
(***************************************************************************)
(* What the operations of the LRU-K replacer preserve, for every number of *)
(* frames and every k >= 2.                                                *)
(***************************************************************************)
EXTENDS LRUKReplacer, FiniteSetTheorems, WellFoundedInduction, TLAPS

\* Leaves that name no prover are tried with these, in this order.
USE SMT, Zenon, SMTT(30), ZenonT(30)

-----------------------------------------------------------------------------
(* The lists. *)

\* Erasing f keeps the other elements, their order and their multiplicity.
LEMMA EraseLemma ==
  ASSUME NEW S, NEW list \in Seq(S), NoRepeats(list), NEW f \in Elements(list)
  PROVE  LET e == Erase(list, f)
         IN  /\ e \in Seq(S)
             /\ NoRepeats(e)
             /\ Elements(e) = Elements(list) \ {f}
             /\ \A i, j \in DOMAIN e : i < j =>
                  \E m, n \in DOMAIN list : m < n /\ e[i] = list[m] /\ e[j] = list[n]
<1> DEFINE p == IteratorOf(list, f)
           e == Erase(list, f)
           At(i) == IF i < p THEN i ELSE i + 1
<1>1. p \in 1 .. Len(list) /\ list[p] = f
  BY DEF IteratorOf, Elements
<1>2. Len(list) \in Nat /\ list \in [1 .. Len(list) -> S] /\ DOMAIN list = 1 .. Len(list)
  OBVIOUS
<1>3. Len(list) - 1 \in Nat
  BY <1>1, <1>2
<1>4. /\ e = [i \in 1 .. Len(list) - 1 |-> IF i < p THEN list[i] ELSE list[i + 1]]
      /\ DOMAIN e = 1 .. Len(list) - 1
  BY DEF Erase
<1>5. \A i \in DOMAIN e : At(i) \in DOMAIN list /\ At(i) # p /\ e[i] = list[At(i)]
  BY <1>1, <1>2, <1>4
<1>6. e \in Seq(S)
  <2>1. e \in [1 .. Len(list) - 1 -> S]
    BY <1>2, <1>4, <1>5
  <2> QED BY <1>3, <2>1
<1>7. \A i, j \in DOMAIN e : i < j => At(i) < At(j)
  BY <1>1, <1>2, <1>4
<1>8. NoRepeats(e)
  <2> SUFFICES ASSUME NEW i \in DOMAIN e, NEW j \in DOMAIN e, e[i] = e[j]
               PROVE  i = j
    BY DEF NoRepeats
  <2>1. At(i) = At(j)
    BY <1>5 DEF NoRepeats
  <2>2. i \in Int /\ j \in Int
    BY <1>4
  <2> QED BY <1>7, <2>1, <2>2, <1>1
<1>9. Elements(e) = Elements(list) \ {f}
  <2>1. ASSUME NEW x \in Elements(e) PROVE x \in Elements(list) \ {f}
    BY <1>1, <1>2, <1>5 DEF Elements, NoRepeats
  <2>2. ASSUME NEW x \in Elements(list), x # f PROVE x \in Elements(e)
    <3>1. PICK m \in DOMAIN list : list[m] = x
      BY DEF Elements
    <3>2. m # p
      BY <1>1, <2>2, <3>1
    <3>3. CASE m < p
      <4>1. m \in DOMAIN e /\ e[m] = x
        BY <1>1, <1>2, <1>4, <3>1, <3>3
      <4> QED BY <4>1 DEF Elements
    <3>4. CASE m > p
      <4>1. m - 1 \in DOMAIN e /\ e[m - 1] = x
        BY <1>1, <1>2, <1>4, <3>1, <3>4
      <4> QED BY <4>1 DEF Elements
    <3> QED BY <1>1, <1>2, <3>2, <3>3, <3>4
  <2> QED BY <2>1, <2>2
<1>10. \A i, j \in DOMAIN e : i < j =>
         \E m, n \in DOMAIN list : m < n /\ e[i] = list[m] /\ e[j] = list[n]
  BY <1>5, <1>7
<1> QED BY <1>6, <1>8, <1>9, <1>10

\* Pushing a new element to the front shifts the others by one.
LEMMA PushFrontLemma ==
  ASSUME NEW S, NEW list \in Seq(S), NoRepeats(list), NEW f \in S, f \notin Elements(list)
  PROVE  LET e == PushFront(list, f)
         IN  /\ e \in Seq(S)
             /\ NoRepeats(e)
             /\ Elements(e) = Elements(list) \cup {f}
             /\ DOMAIN e = 1 .. Len(list) + 1
             /\ e[1] = f
             /\ \A i \in DOMAIN e : i # 1 => i - 1 \in DOMAIN list /\ e[i] = list[i - 1]
<1> DEFINE e == PushFront(list, f)
<1>1. Len(list) \in Nat /\ list \in [1 .. Len(list) -> S] /\ DOMAIN list = 1 .. Len(list)
  OBVIOUS
<1>2. /\ e = [i \in 1 .. Len(list) + 1 |-> IF i = 1 THEN f ELSE list[i - 1]]
      /\ DOMAIN e = 1 .. Len(list) + 1
  BY DEF PushFront
<1>3. e[1] = f
  BY <1>1, <1>2
<1>4. \A i \in DOMAIN e : i # 1 => i - 1 \in DOMAIN list /\ e[i] = list[i - 1]
  BY <1>1, <1>2
<1>5. e \in Seq(S)
  <2>1. e \in [1 .. Len(list) + 1 -> S]
    BY <1>1, <1>2
  <2>2. Len(list) + 1 \in Nat
    BY <1>1
  <2> QED BY <2>1, <2>2
<1>6. NoRepeats(e)
  <2> SUFFICES ASSUME NEW i \in DOMAIN e, NEW j \in DOMAIN e, e[i] = e[j]
               PROVE  i = j
    BY DEF NoRepeats
  <2>1. i \in Int /\ j \in Int
    BY <1>2
  <2>2. CASE i # 1 /\ j # 1
    BY <1>4, <2>1, <2>2 DEF NoRepeats
  <2>3. CASE i = 1 \/ j = 1
    BY <1>3, <1>4, <2>1, <2>3 DEF Elements
  <2> QED BY <2>2, <2>3
<1>7. Elements(e) = Elements(list) \cup {f}
  <2>1. ASSUME NEW x \in Elements(e) PROVE x \in Elements(list) \cup {f}
    BY <1>3, <1>4 DEF Elements
  <2>2. f \in Elements(e)
    <3>1. 1 \in DOMAIN e
      BY <1>1, <1>2
    <3> QED BY <1>3, <3>1 DEF Elements
  <2>3. ASSUME NEW x \in Elements(list) PROVE x \in Elements(e)
    <3>1. PICK m \in DOMAIN list : list[m] = x
      BY DEF Elements
    <3>2. m + 1 \in DOMAIN e /\ e[m + 1] = x
      BY <1>1, <1>2, <3>1
    <3> QED BY <3>2 DEF Elements
  <2> QED BY <2>1, <2>2, <2>3
<1> QED BY <1>2, <1>3, <1>4, <1>5, <1>6, <1>7

-----------------------------------------------------------------------------
(* The operations. *)

\* The evictable frames are finitely many, so curr_size_ is a natural number.
LEMMA EvictableFinite ==
  ASSUME NEW r
  PROVE  IsFiniteSet(EvictableFrames(r)) /\ Cardinality(EvictableFrames(r)) \in Nat
<1>1. IsFiniteSet(Frames)
  BY FS_Interval, ReplacerSizeAssumption DEF Frames
<1>2. EvictableFrames(r) \subseteq Frames
  BY DEF EvictableFrames
<1> QED BY <1>1, <1>2, FS_Subset, FS_CardinalityType

\* A new replacer is consistent.
LEMMA EmptyReplacerConsistent ==
  EmptyReplacer \in Replacers /\ Consistent(EmptyReplacer)
<1> DEFINE r == EmptyReplacer
<1>1. r \in Replacers
  BY DEF EmptyReplacer, Replacers
<1>2. ListsMatchCounts(r)
  BY KAssumption DEF ListsMatchCounts, EmptyReplacer, NoRepeats, Elements
<1>3. EvictableFrames(r) = {}
  BY DEF EmptyReplacer, EvictableFrames
<1>4. SizeCountsEvictable(r)
  BY <1>3, FS_EmptySet, Zenon DEF SizeCountsEvictable, EmptyReplacer
<1> QED BY <1>1, <1>2, <1>4 DEF Consistent

\* RecordAccess keeps the replacer consistent: on the k-th access the frame
\* is in history_list_, so the iterator that is erased exists.
LEMMA RecordAccessConsistent ==
  ASSUME NEW r \in Replacers, Consistent(r), NEW f \in Frames
  PROVE  RecordAccess(r, f) \in Replacers /\ Consistent(RecordAccess(r, f))
<1> DEFINE s == RecordAccess(r, f)
           n == r.access_count[f] + 1
<1>1. /\ r.history_list \in Seq(Frames) /\ NoRepeats(r.history_list)
      /\ r.cache_list \in Seq(Frames) /\ NoRepeats(r.cache_list)
      /\ r.access_count \in [Frames -> Nat]
      /\ n \in Nat /\ n > 0
      /\ r.is_evictable \in [Frames -> BOOLEAN]
      /\ r.curr_size \in Nat
  BY DEF Replacers, Consistent, ListsMatchCounts
<1>2. /\ Elements(r.history_list) =
           {g \in Frames : 0 < r.access_count[g] /\ r.access_count[g] < k}
      /\ Elements(r.cache_list) = {g \in Frames : r.access_count[g] >= k}
  BY DEF Consistent, ListsMatchCounts
<1>3. /\ s.access_count = [r.access_count EXCEPT ![f] = n]
      /\ s.is_evictable = r.is_evictable
      /\ s.curr_size = r.curr_size
      /\ s = [access_count |-> s.access_count, is_evictable |-> s.is_evictable,
              history_list |-> s.history_list, cache_list |-> s.cache_list,
              curr_size |-> s.curr_size]
  BY <1>1, KAssumption DEF RecordAccess, Replacers
<1>4. /\ s.history_list \in Seq(Frames) /\ NoRepeats(s.history_list)
      /\ s.cache_list \in Seq(Frames) /\ NoRepeats(s.cache_list)
      /\ Elements(s.history_list) =
           IF n < k THEN Elements(r.history_list) \cup {f} ELSE Elements(r.history_list) \ {f}
      /\ Elements(s.cache_list) =
           IF n >= k THEN Elements(r.cache_list) \cup {f} ELSE Elements(r.cache_list)
  <2>1. CASE n = k
    <3>1. s.history_list = Erase(r.history_list, f) /\ s.cache_list = PushFront(r.cache_list, f)
      BY <2>1, <1>1 DEF RecordAccess, Replacers
    <3>2. f \in Elements(r.history_list) /\ f \notin Elements(r.cache_list)
      BY <2>1, <1>1, <1>2, KAssumption
    <3>3. /\ s.history_list \in Seq(Frames) /\ NoRepeats(s.history_list)
          /\ Elements(s.history_list) = Elements(r.history_list) \ {f}
      BY <1>1, <3>1, <3>2, EraseLemma
    <3>4. /\ s.cache_list \in Seq(Frames) /\ NoRepeats(s.cache_list)
          /\ Elements(s.cache_list) = Elements(r.cache_list) \cup {f}
      BY <1>1, <3>1, <3>2, PushFrontLemma
    <3>5. ~ (n < k) /\ n >= k
      BY <2>1, KAssumption
    <3> QED BY <3>3, <3>4, <3>5
  <2>2. CASE n > k
    <3>1. f \in Elements(r.cache_list) /\ f \notin Elements(r.history_list)
      BY <2>2, <1>1, <1>2, KAssumption
    <3> DEFINE c == Erase(r.cache_list, f)
    <3>2. s.history_list = r.history_list /\ s.cache_list = PushFront(c, f)
      BY <2>2, <1>1, <3>1, KAssumption DEF RecordAccess, Replacers
    <3>3. c \in Seq(Frames) /\ NoRepeats(c) /\ Elements(c) = Elements(r.cache_list) \ {f}
      BY <1>1, <3>1, EraseLemma
    <3> HIDE DEF c
    <3>4. /\ s.cache_list \in Seq(Frames) /\ NoRepeats(s.cache_list)
          /\ Elements(s.cache_list) = Elements(c) \cup {f}
      BY <3>2, <3>3, PushFrontLemma
    <3>5. ~ (n < k) /\ n >= k
      BY <1>1, <2>2, KAssumption
    <3>6. Elements(s.cache_list) = Elements(r.cache_list) \cup {f}
      BY <3>3, <3>4
    <3>7. Elements(s.history_list) = Elements(r.history_list) \ {f}
      BY <3>1, <3>2
    <3> QED BY <1>1, <3>2, <3>4, <3>5, <3>6, <3>7
  <2>3. CASE n < k /\ f \in Elements(r.history_list)
    <3>1. s.history_list = r.history_list /\ s.cache_list = r.cache_list
      BY <2>3, <1>1, KAssumption DEF RecordAccess, Replacers
    <3> QED BY <1>1, <2>3, <3>1, KAssumption
  <2>4. CASE n < k /\ f \notin Elements(r.history_list)
    <3>1. s.history_list = PushFront(r.history_list, f) /\ s.cache_list = r.cache_list
      BY <2>4, <1>1, KAssumption DEF RecordAccess, Replacers
    <3> QED BY <1>1, <2>4, <3>1, PushFrontLemma, KAssumption
  <2> QED BY <1>1, <2>1, <2>2, <2>3, <2>4, KAssumption
<1> HIDE DEF s
<1>5. s.access_count \in [Frames -> Nat] /\ s.access_count[f] = n
  BY <1>1, <1>3
<1>6. s \in Replacers
  BY <1>1, <1>3, <1>4, <1>5, Zenon DEF Replacers
<1>7. ListsMatchCounts(s)
  <2>1. Elements(s.history_list) =
          {g \in Frames : 0 < s.access_count[g] /\ s.access_count[g] < k}
    BY <1>1, <1>2, <1>3, <1>4, KAssumption
  <2>2. Elements(s.cache_list) = {g \in Frames : s.access_count[g] >= k}
    BY <1>1, <1>2, <1>3, <1>4, KAssumption
  <2> QED BY <1>4, <2>1, <2>2 DEF ListsMatchCounts
<1>8. SizeCountsEvictable(s)
  <2>1. EvictableFrames(s) = EvictableFrames(r)
    BY <1>3 DEF EvictableFrames
  <2> QED BY <1>1, <1>3, <2>1 DEF Consistent, SizeCountsEvictable, EvictableFrames
<1> QED BY <1>6, <1>7, <1>8 DEF Consistent, s

\* SetEvictable keeps the replacer consistent: the size moves exactly when
\* the flag does.
LEMMA SetEvictableConsistent ==
  ASSUME NEW r \in Replacers, Consistent(r), NEW f \in Frames, NEW b \in BOOLEAN
  PROVE  SetEvictable(r, f, b) \in Replacers /\ Consistent(SetEvictable(r, f, b))
<1> DEFINE s == SetEvictable(r, f, b)
<1>1. CASE r.access_count[f] = 0 \/ b = r.is_evictable[f]
  <2>1. s = r
    BY <1>1, Zenon DEF SetEvictable, Replacers
  <2> QED BY <2>1
<1>2. CASE r.access_count[f] # 0 /\ b # r.is_evictable[f]
  <2>1. /\ s.access_count = r.access_count
        /\ s.history_list = r.history_list
        /\ s.cache_list = r.cache_list
        /\ s.is_evictable = [r.is_evictable EXCEPT ![f] = b]
        /\ s.curr_size = IF b THEN r.curr_size + 1 ELSE r.curr_size - 1
        /\ s = [access_count |-> s.access_count, is_evictable |-> s.is_evictable,
                history_list |-> s.history_list, cache_list |-> s.cache_list,
                curr_size |-> s.curr_size]
    BY <1>2, Zenon DEF SetEvictable, Replacers
  <2> HIDE DEF s
  <2>2. /\ r.is_evictable \in [Frames -> BOOLEAN]
        /\ r.access_count \in [Frames -> Nat]
        /\ r.curr_size \in Nat
        /\ r.curr_size = Cardinality(EvictableFrames(r))
        /\ \A g \in EvictableFrames(r) : r.access_count[g] > 0
    BY DEF Replacers, Consistent, SizeCountsEvictable
  <2>3. ListsMatchCounts(s)
    BY <2>1 DEF Consistent, ListsMatchCounts
  <2>4. \A g \in EvictableFrames(s) : s.access_count[g] > 0
    BY <1>2, <2>1, <2>2 DEF EvictableFrames
  <2>5. s.curr_size = Cardinality(EvictableFrames(s))
    <3>1. CASE b
      <4>1. f \notin EvictableFrames(r) /\ EvictableFrames(s) = EvictableFrames(r) \cup {f}
        BY <1>2, <2>1, <2>2, <3>1, Zenon DEF EvictableFrames
      <4>2. Cardinality(EvictableFrames(s)) = Cardinality(EvictableFrames(r)) + 1
        BY <4>1, EvictableFinite, FS_AddElement, Zenon
      <4> QED BY <2>1, <2>2, <3>1, <4>2
    <3>2. CASE ~ b
      <4>1. f \in EvictableFrames(r) /\ EvictableFrames(s) = EvictableFrames(r) \ {f}
        BY <1>2, <2>1, <2>2, <3>2 DEF EvictableFrames
      <4>2. Cardinality(EvictableFrames(s)) = Cardinality(EvictableFrames(r)) - 1
        BY <4>1, EvictableFinite, FS_RemoveElement, ZenonT(30)
      <4> QED BY <2>1, <2>2, <3>2, <4>2
    <3> QED BY <3>1, <3>2
  <2>6. s.curr_size \in Nat
    BY <2>5, EvictableFinite
  <2>7. s \in Replacers
    BY <2>1, <2>2, <2>6, Zenon DEF Replacers
  <2> QED BY <2>3, <2>4, <2>5, <2>7 DEF Consistent, SizeCountsEvictable, s
<1> QED BY <1>1, <1>2

\* Taking an evictable frame out of the list its count says keeps the
\* replacer consistent: this is what Evict and Remove do.
LEMMA ForgetConsistent ==
  ASSUME NEW r \in Replacers, Consistent(r), NEW f \in EvictableFrames(r)
  PROVE  LET s == Forget(r, f, r.access_count[f] < k)
         IN  /\ s \in Replacers
             /\ Consistent(s)
             /\ EvictableFrames(s) = EvictableFrames(r) \ {f}
<1> DEFINE young == r.access_count[f] < k
           s == Forget(r, f, young)
<1>1. /\ r.history_list \in Seq(Frames) /\ NoRepeats(r.history_list)
      /\ r.cache_list \in Seq(Frames) /\ NoRepeats(r.cache_list)
      /\ r.access_count \in [Frames -> Nat]
      /\ r.is_evictable \in [Frames -> BOOLEAN]
      /\ r.curr_size = Cardinality(EvictableFrames(r))
      /\ f \in Frames /\ r.access_count[f] > 0
      /\ \A g \in EvictableFrames(r) : r.access_count[g] > 0
  BY DEF Replacers, Consistent, ListsMatchCounts, SizeCountsEvictable, EvictableFrames
<1>2. /\ Elements(r.history_list) =
           {g \in Frames : 0 < r.access_count[g] /\ r.access_count[g] < k}
      /\ Elements(r.cache_list) = {g \in Frames : r.access_count[g] >= k}
  BY DEF Consistent, ListsMatchCounts
<1>3. /\ s.access_count = [r.access_count EXCEPT ![f] = 0]
      /\ s.is_evictable = [r.is_evictable EXCEPT ![f] = FALSE]
      /\ s.history_list = IF young THEN Erase(r.history_list, f) ELSE r.history_list
      /\ s.cache_list = IF young THEN r.cache_list ELSE Erase(r.cache_list, f)
      /\ s.curr_size = r.curr_size - 1
      /\ s = [access_count |-> s.access_count, is_evictable |-> s.is_evictable,
              history_list |-> s.history_list, cache_list |-> s.cache_list,
              curr_size |-> s.curr_size]
  BY DEF Forget
<1> HIDE DEF s
<1>4. /\ s.history_list \in Seq(Frames) /\ NoRepeats(s.history_list)
      /\ s.cache_list \in Seq(Frames) /\ NoRepeats(s.cache_list)
      /\ Elements(s.history_list) = Elements(r.history_list) \ {f}
      /\ Elements(s.cache_list) = Elements(r.cache_list) \ {f}
  <2>1. CASE young
    <3>1. f \in Elements(r.history_list) /\ f \notin Elements(r.cache_list)
      BY <1>1, <1>2, <2>1, KAssumption
    <3>2. /\ s.history_list \in Seq(Frames) /\ NoRepeats(s.history_list)
          /\ Elements(s.history_list) = Elements(r.history_list) \ {f}
      BY <1>1, <1>3, <2>1, <3>1, EraseLemma
    <3>3. Elements(s.cache_list) = Elements(r.cache_list) \ {f}
      BY <1>3, <2>1, <3>1
    <3> QED BY <1>1, <1>3, <2>1, <3>2, <3>3
  <2>2. CASE ~ young
    <3>1. f \notin Elements(r.history_list) /\ f \in Elements(r.cache_list)
      BY <1>1, <1>2, <2>2, KAssumption
    <3>2. /\ s.cache_list \in Seq(Frames) /\ NoRepeats(s.cache_list)
          /\ Elements(s.cache_list) = Elements(r.cache_list) \ {f}
      BY <1>1, <1>3, <2>2, <3>1, EraseLemma
    <3>3. Elements(s.history_list) = Elements(r.history_list) \ {f}
      BY <1>3, <2>2, <3>1
    <3> QED BY <1>1, <1>3, <2>2, <3>2, <3>3
  <2> QED BY <2>1, <2>2
<1>5. ListsMatchCounts(s)
  <2>1. Elements(s.history_list) =
          {g \in Frames : 0 < s.access_count[g] /\ s.access_count[g] < k}
    BY <1>1, <1>2, <1>3, <1>4, KAssumption
  <2>2. Elements(s.cache_list) = {g \in Frames : s.access_count[g] >= k}
    BY <1>1, <1>2, <1>3, <1>4, KAssumption
  <2> QED BY <1>4, <2>1, <2>2 DEF ListsMatchCounts
<1>6. EvictableFrames(s) = EvictableFrames(r) \ {f}
  BY <1>1, <1>3 DEF EvictableFrames
<1>7. s.curr_size = Cardinality(EvictableFrames(s)) /\ s.curr_size \in Nat
  <2>1. Cardinality(EvictableFrames(s)) = Cardinality(EvictableFrames(r)) - 1
    BY <1>6, EvictableFinite, FS_RemoveElement, Zenon
  <2> QED BY <1>1, <1>3, <2>1, EvictableFinite
<1>8. \A g \in EvictableFrames(s) : s.access_count[g] > 0
  BY <1>1, <1>3, <1>6 DEF EvictableFrames
<1>9. s \in Replacers
  <2>1. s.access_count \in [Frames -> Nat] /\ s.is_evictable \in [Frames -> BOOLEAN]
    BY <1>1, <1>3
  <2> QED BY <1>3, <1>4, <1>7, <2>1, Zenon DEF Replacers
<1> QED BY <1>5, <1>6, <1>7, <1>8, <1>9 DEF Consistent, SizeCountsEvictable, s

\* A non-empty set of naturals with an upper bound has a greatest element.
LEMMA GreatestElement ==
  ASSUME NEW n \in Nat, NEW E \in SUBSET (0 .. n), E # {}
  PROVE  \E m \in E : \A x \in E : x <= m
<1> DEFINE T == {n - x : x \in E}
<1>0. n \in Int /\ \A x \in E : x \in Int /\ 0 <= x /\ x <= n
  OBVIOUS
<1>1. T \subseteq Nat /\ T # {}
  <2>1. \A x \in E : n - x \in Nat
    BY <1>0
  <2>2. PICK x : x \in E
    OBVIOUS
  <2>3. n - x \in T
    BY <2>2
  <2> QED BY <2>1, <2>3
<1>2. PICK t \in T : \A y \in T : ~ (<<y, t>> \in OpToRel(<, Nat))
  BY <1>1, WFMin, NatLessThanWellFounded, Zenon
<1>3. PICK m \in E : t = n - m
  OBVIOUS
<1>4. \A y \in T : ~ (y < t)
  BY <1>1, <1>2, Zenon DEF OpToRel
<1>5. ASSUME NEW x \in E PROVE x <= m
  <2>1. n - x \in T
    OBVIOUS
  <2>2. ~ (n - x < n - m)
    BY <1>3, <1>4, <2>1
  <2> QED BY <1>0, <2>2
<1> QED BY <1>5

\* The scan of a list from its back stops at its last evictable element.
LEMMA LastEvictableLemma ==
  ASSUME NEW r, NEW list \in Seq(Frames), HasEvictable(r, list)
  PROVE  \E i \in DOMAIN list :
           /\ LastEvictable(r, list) = list[i]
           /\ r.is_evictable[list[i]]
           /\ \A j \in DOMAIN list : j > i => ~ r.is_evictable[list[j]]
<1> DEFINE E == {i \in DOMAIN list : r.is_evictable[list[i]]}
<1>1. E \subseteq 0 .. Len(list) /\ E # {} /\ Len(list) \in Nat
  BY DEF HasEvictable
<1>2. PICK m \in E : \A x \in E : x <= m
  BY <1>1, GreatestElement, Zenon
<1>3. \A j \in DOMAIN list : j > m => ~ r.is_evictable[list[j]]
  BY <1>1, <1>2
<1>4. \E i \in DOMAIN list :
        /\ r.is_evictable[list[i]]
        /\ \A j \in DOMAIN list : j > i => ~ r.is_evictable[list[j]]
  BY <1>2, <1>3
<1> QED BY <1>4, Zenon DEF LastEvictable

\* Evict succeeds exactly when some frame is evictable.  Its victim is then
\* an evictable frame, in the list its access count says.
LEMMA EvictLemma ==
  ASSUME NEW r \in Replacers, Consistent(r)
  PROVE  /\ EvictSucceeds(r) <=> EvictableFrames(r) # {}
         /\ EvictSucceeds(r) =>
              /\ Victim(r) \in EvictableFrames(r)
              /\ HasEvictable(r, r.history_list) <=> r.access_count[Victim(r)] < k
<1> DEFINE h == r.history_list
           c == r.cache_list
<1>1. /\ h \in Seq(Frames) /\ c \in Seq(Frames)
      /\ r.access_count \in [Frames -> Nat]
      /\ r.curr_size = Cardinality(EvictableFrames(r))
      /\ Elements(h) = {g \in Frames : 0 < r.access_count[g] /\ r.access_count[g] < k}
      /\ Elements(c) = {g \in Frames : r.access_count[g] >= k}
      /\ \A g \in EvictableFrames(r) : r.access_count[g] > 0
  BY DEF Replacers, Consistent, ListsMatchCounts, SizeCountsEvictable
<1>2. HasEvictable(r, h) <=> \E f \in EvictableFrames(r) : f \in Elements(h)
  BY <1>1 DEF HasEvictable, Elements, EvictableFrames
<1>3. HasEvictable(r, c) <=> \E f \in EvictableFrames(r) : f \in Elements(c)
  BY <1>1 DEF HasEvictable, Elements, EvictableFrames
<1>4. EvictableFrames(r) \subseteq Frames
  BY DEF EvictableFrames
<1>5. \A f \in EvictableFrames(r) : f \in Elements(h) \/ f \in Elements(c)
  BY <1>1, <1>4, KAssumption
<1>6. r.curr_size # 0 <=> EvictableFrames(r) # {}
  BY <1>1, EvictableFinite, FS_EmptySet
<1>7. EvictSucceeds(r) <=> EvictableFrames(r) # {}
  BY <1>2, <1>3, <1>5, <1>6 DEF EvictSucceeds
<1>8. ASSUME HasEvictable(r, h)
      PROVE  Victim(r) \in EvictableFrames(r) /\ r.access_count[Victim(r)] < k
  <2>1. Victim(r) = LastEvictable(r, h)
    BY <1>8 DEF Victim
  <2>2. PICK i \in DOMAIN h : LastEvictable(r, h) = h[i] /\ r.is_evictable[h[i]]
    BY <1>1, <1>8, LastEvictableLemma
  <2>3. h[i] \in Elements(h)
    BY DEF Elements
  <2> QED BY <1>1, <2>1, <2>2, <2>3 DEF EvictableFrames
<1>9. ASSUME ~ HasEvictable(r, h), HasEvictable(r, c)
      PROVE  Victim(r) \in EvictableFrames(r) /\ ~ (r.access_count[Victim(r)] < k)
  <2>1. Victim(r) = LastEvictable(r, c)
    BY <1>9 DEF Victim
  <2>2. PICK i \in DOMAIN c : LastEvictable(r, c) = c[i] /\ r.is_evictable[c[i]]
    BY <1>1, <1>9, LastEvictableLemma
  <2>3. c[i] \in Elements(c)
    BY DEF Elements
  <2> QED BY <1>1, <2>1, <2>2, <2>3, KAssumption DEF EvictableFrames
<1> QED BY <1>7, <1>8, <1>9 DEF EvictSucceeds

\* Evict keeps the replacer consistent and its victim is no longer evictable.
LEMMA EvictConsistent ==
  ASSUME NEW r \in Replacers, Consistent(r), EvictSucceeds(r)
  PROVE  /\ Evict(r) \in Replacers
         /\ Consistent(Evict(r))
         /\ EvictableFrames(Evict(r)) = EvictableFrames(r) \ {Victim(r)}
<1>1. /\ Victim(r) \in EvictableFrames(r)
      /\ HasEvictable(r, r.history_list) <=> r.access_count[Victim(r)] < k
  BY EvictLemma
<1>2. Evict(r) = Forget(r, Victim(r), r.access_count[Victim(r)] < k)
  BY <1>1, Zenon DEF Evict, Forget
<1> QED BY <1>1, <1>2, ForgetConsistent

\* So does Remove when it does not throw.
LEMMA RemoveConsistent ==
  ASSUME NEW r \in Replacers, Consistent(r), NEW f \in Frames, ~ RemoveThrows(r, f)
  PROVE  Remove(r, f) \in Replacers /\ Consistent(Remove(r, f))
<1>1. CASE r.access_count[f] = 0
  BY <1>1 DEF Remove
<1>2. CASE r.access_count[f] # 0
  <2>1. f \in EvictableFrames(r)
    BY <1>2 DEF RemoveThrows, EvictableFrames
  <2>2. Remove(r, f) = Forget(r, f, r.access_count[f] < k)
    BY <1>2 DEF Remove
  <2> QED BY <2>1, <2>2, ForgetConsistent
<1> QED BY <1>1, <1>2

=============================================================================
