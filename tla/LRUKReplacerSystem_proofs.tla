---------------------- MODULE LRUKReplacerSystem_proofs ----------------------
(***************************************************************************)
(* The replacer keeps its lists, its size and its eviction order whatever  *)
(* the calls, for every number of frames, every k >= 2 and every bound on  *)
(* the number of recorded accesses.                                        *)
(***************************************************************************)
EXTENDS LRUKReplacerSystem, LRUKReplacer_proofs

\* Leaves that name no prover are tried with these, in this order.
USE SMT, Zenon, SMTT(30), ZenonT(30)

-----------------------------------------------------------------------------
(* The order of a list of frames by a time. *)

\* Erasing an element keeps the order of the others.
LEMMA EraseDescending ==
  ASSUME NEW list \in Seq(Frames), NoRepeats(list), NEW f \in Elements(list),
         NEW time, Descending(list, time)
  PROVE  Descending(Erase(list, f), time)
BY EraseLemma DEF Descending

\* The order of a list depends on the times of its elements only.
LEMMA DescendingLocal ==
  ASSUME NEW list \in Seq(Frames), NEW time, NEW new,
         \A g \in Elements(list) : new[g] = time[g],
         Descending(list, time)
  PROVE  Descending(list, new)
BY DEF Descending, Elements

\* A frame later than all others may be pushed to the front.
LEMMA PushFrontDescending ==
  ASSUME NEW list \in Seq(Frames), NoRepeats(list), NEW f \in Frames, f \notin Elements(list),
         NEW time, Descending(list, time),
         \A g \in Elements(list) : time[f] > time[g]
  PROVE  Descending(PushFront(list, f), time)
<1> DEFINE e == PushFront(list, f)
<1>1. /\ DOMAIN e = 1 .. Len(list) + 1
      /\ e[1] = f
      /\ \A i \in DOMAIN e : i # 1 => i - 1 \in DOMAIN list /\ e[i] = list[i - 1]
  BY PushFrontLemma
<1> HIDE DEF e
<1>2. SUFFICES ASSUME NEW i \in DOMAIN e, NEW j \in DOMAIN e, i < j
               PROVE  time[e[i]] > time[e[j]]
  BY DEF Descending, e
<1>3. i \in Int /\ j \in Int /\ i >= 1 /\ j # 1 /\ j - 1 \in DOMAIN list /\ e[j] = list[j - 1]
  BY <1>1, <1>2
<1>4. CASE i = 1
  <2>1. list[j - 1] \in Elements(list)
    BY <1>3 DEF Elements
  <2> QED BY <1>1, <1>3, <1>4, <2>1
<1>5. CASE i # 1
  <2>1. i - 1 \in DOMAIN list /\ e[i] = list[i - 1] /\ i - 1 < j - 1
    BY <1>1, <1>2, <1>3, <1>5
  <2> QED BY <1>3, <2>1 DEF Descending
<1> QED BY <1>4, <1>5

-----------------------------------------------------------------------------
(* The invariant. *)

\* The constructor establishes the inductive invariant.
LEMMA InitInv == Init => Inv
<1> SUFFICES ASSUME Init PROVE Inv
  OBVIOUS
<1>1. EmptyReplacer \in Replacers /\ Consistent(EmptyReplacer)
  BY EmptyReplacerConsistent
<1>2. TypeOK
  BY <1>1, MaxClockAssumption, ReplacerSizeAssumption DEF Init, TypeOK, FrameIds, Calls, Outcomes
<1>3. ListsInv /\ SizeInv
  BY <1>1 DEF Init, ListsInv, SizeInv, Consistent
<1>4. OrderInv
  BY DEF Init, OrderInv, StampsMatchCounts, Descending, EmptyReplacer
<1> QED BY <1>2, <1>3, <1>4 DEF Inv

\* What the invariant says of the replacer, in the form the lemmas on its
\* operations take.
LEMMA InvConsistent ==
  ASSUME Inv
  PROVE  /\ replacer \in Replacers
         /\ Consistent(replacer)
         /\ replacer.history_list \in Seq(Frames) /\ NoRepeats(replacer.history_list)
         /\ replacer.cache_list \in Seq(Frames) /\ NoRepeats(replacer.cache_list)
         /\ replacer.access_count \in [Frames -> Nat]
         /\ stamps \in [Frames -> Seq(Nat)]
         /\ clock \in Nat /\ clock <= MaxClock
BY MaxClockAssumption
   DEF Inv, TypeOK, ListsInv, SizeInv, Consistent, ListsMatchCounts, Replacers

\* A frame that is forgotten leaves the order of the other frames alone.
LEMMA ForgetOrder ==
  ASSUME Inv, NEW f \in EvictableFrames(replacer),
         replacer' = Forget(replacer, f, replacer.access_count[f] < k),
         stamps' = [stamps EXCEPT ![f] = << >>],
         clock' = clock
  PROVE  OrderInv'
<1> DEFINE h == replacer.history_list
           c == replacer.cache_list
           young == replacer.access_count[f] < k
<1> USE InvConsistent
<1>1. /\ Elements(h) = {g \in Frames : 0 < replacer.access_count[g] /\ replacer.access_count[g] < k}
      /\ Elements(c) = {g \in Frames : replacer.access_count[g] >= k}
      /\ f \in Frames /\ replacer.access_count[f] > 0
      /\ \A g \in Frames : Len(stamps[g]) = replacer.access_count[g]
      /\ Descending(h, FirstAccess) /\ Descending(c, LastAccess)
  BY DEF Inv, ListsInv, ListsMatchCounts, SizeInv, SizeCountsEvictable, EvictableFrames,
         OrderInv, StampsMatchCounts
<1>2. /\ replacer'.access_count = [replacer.access_count EXCEPT ![f] = 0]
      /\ replacer'.history_list = IF young THEN Erase(h, f) ELSE h
      /\ replacer'.cache_list = IF young THEN c ELSE Erase(c, f)
  BY DEF Forget
<1>3. StampsMatchCounts'
  BY <1>1, <1>2 DEF Inv, OrderInv, StampsMatchCounts
<1>4. \A g \in Frames \ {f} : stamps'[g] = stamps[g]
  OBVIOUS
<1>5. \A g \in Frames : g # f /\ Len(stamps[g]) > 0 =>
        FirstAccess'[g] = FirstAccess[g] /\ LastAccess'[g] = LastAccess[g]
  BY <1>4 DEF FirstAccess, LastAccess, Tracked
<1>6. Descending(replacer'.history_list, FirstAccess)
      /\ replacer'.history_list \in Seq(Frames)
      /\ Elements(replacer'.history_list) = Elements(h) \ {f}
  <2>1. CASE young
    <3>1. f \in Elements(h)
      BY <1>1, <2>1
    <3> QED BY <1>1, <1>2, <2>1, <3>1, EraseLemma, EraseDescending
  <2>2. CASE ~ young
    <3>1. f \notin Elements(h)
      BY <1>1, <2>2
    <3> QED BY <1>1, <1>2, <2>2, <3>1
  <2> QED BY <2>1, <2>2
<1>7. Descending(replacer'.cache_list, LastAccess)
      /\ replacer'.cache_list \in Seq(Frames)
      /\ Elements(replacer'.cache_list) = Elements(c) \ {f}
  <2>1. CASE young
    <3>1. f \notin Elements(c)
      BY <1>1, <2>1, KAssumption
    <3> QED BY <1>1, <1>2, <2>1, <3>1
  <2>2. CASE ~ young
    <3>1. f \in Elements(c)
      BY <1>1, <2>2, KAssumption
    <3> QED BY <1>1, <1>2, <2>2, <3>1, EraseLemma, EraseDescending
  <2> QED BY <2>1, <2>2
<1>8. Descending(replacer'.history_list, FirstAccess')
  <2>1. \A g \in Elements(replacer'.history_list) : FirstAccess'[g] = FirstAccess[g]
    BY <1>1, <1>5, <1>6
  <2> QED BY <1>6, <2>1, DescendingLocal, Zenon
<1>9. Descending(replacer'.cache_list, LastAccess')
  <2>1. \A g \in Elements(replacer'.cache_list) : LastAccess'[g] = LastAccess[g]
    BY <1>1, <1>5, <1>7, KAssumption
  <2> QED BY <1>7, <2>1, DescendingLocal, Zenon
<1> QED BY <1>3, <1>8, <1>9 DEF OrderInv, Descending

\* Access times are integers, the first and the last one in particular.
LEMMA StampTypes ==
  ASSUME NEW s \in Seq(Nat), Len(s) > 0
  PROVE  s # << >> /\ s[1] \in Int /\ s[Len(s)] \in Int
<1>1. 1 \in DOMAIN s /\ Len(s) \in DOMAIN s /\ s # << >>
  OBVIOUS
<1>2. s[1] \in Nat /\ s[Len(s)] \in Nat
  BY <1>1
<1> QED BY <1>1, <1>2

\* A new access time bounds the ones before it.
LEMMA StampAppend ==
  ASSUME NEW s \in Seq(Nat), NEW t \in Nat, \A i \in DOMAIN s : s[i] <= t,
         NEW j \in DOMAIN Append(s, t + 1)
  PROVE  Append(s, t + 1)[j] <= t + 1
<1>1. DOMAIN s = 1 .. Len(s) /\ Len(s) \in Nat
  OBVIOUS
<1>2. j \in 1 .. Len(s) + 1
  OBVIOUS
<1>3. CASE j = Len(s) + 1
  <2>1. Append(s, t + 1)[j] = t + 1
    BY <1>3
  <2> QED BY <2>1
<1>4. CASE j # Len(s) + 1
  <2>1. j \in DOMAIN s
    BY <1>1, <1>2, <1>4
  <2>2. Append(s, t + 1)[j] = s[j] /\ s[j] \in Nat
    BY <1>1, <2>1
  <2>3. s[j] <= t /\ s[j] \in Int
    BY <2>1, <2>2
  <2> QED BY <2>2, <2>3
<1> QED BY <1>3, <1>4

\* An access moves its frame to the front of cache_list_, or, the first one,
\* to the front of history_list_; it is later than every access before.
LEMMA RecordAccessOrder ==
  ASSUME Inv, NEW f \in Frames,
         replacer' = RecordAccess(replacer, f),
         stamps' = [stamps EXCEPT ![f] = Append(stamps[f], clock + 1)],
         clock' = clock + 1
  PROVE  OrderInv'
<1> DEFINE h == replacer.history_list
           c == replacer.cache_list
           n == replacer.access_count[f] + 1
<1> USE InvConsistent
<1>1. /\ Elements(h) = {g \in Frames : 0 < replacer.access_count[g] /\ replacer.access_count[g] < k}
      /\ Elements(c) = {g \in Frames : replacer.access_count[g] >= k}
      /\ \A g \in Frames : Len(stamps[g]) = replacer.access_count[g]
      /\ \A g \in Frames : \A i \in DOMAIN stamps[g] : stamps[g][i] <= clock
      /\ Descending(h, FirstAccess) /\ Descending(c, LastAccess)
  BY DEF Inv, ListsInv, ListsMatchCounts, OrderInv, StampsMatchCounts
<1>2. /\ replacer'.access_count = [replacer.access_count EXCEPT ![f] = n]
      /\ replacer'.history_list =
           IF n = k THEN Erase(h, f)
           ELSE IF n < k /\ f \notin Elements(h) THEN PushFront(h, f) ELSE h
      /\ replacer'.cache_list =
           IF n < k THEN c
           ELSE PushFront(IF n > k /\ f \in Elements(c) THEN Erase(c, f) ELSE c, f)
  BY DEF RecordAccess
<1>3. /\ \A g \in Frames \ {f} : stamps'[g] = stamps[g]
      /\ stamps'[f] = Append(stamps[f], clock + 1)
      /\ Len(stamps'[f]) = Len(stamps[f]) + 1
      /\ stamps'[f][Len(stamps'[f])] = clock + 1
      /\ \A i \in DOMAIN stamps[f] : stamps'[f][i] = stamps[f][i]
      /\ DOMAIN stamps'[f] = 1 .. Len(stamps[f]) + 1
  OBVIOUS
<1>3a. f \in Tracked'
  <2>1. stamps'[f] # << >>
    BY <1>3
  <2> QED BY <2>1 DEF Tracked
<1>4. StampsMatchCounts'
  <2>1. ASSUME NEW g \in Frames
        PROVE  Len(stamps'[g]) = replacer'.access_count[g]
    BY <1>1, <1>2, <1>3
  <2>2. ASSUME NEW g \in Frames, NEW i \in DOMAIN stamps'[g]
        PROVE  stamps'[g][i] <= clock + 1
    <3>1. CASE g # f
      <4>1. i \in DOMAIN stamps[g] /\ stamps'[g][i] = stamps[g][i] /\ stamps[g] \in Seq(Nat)
        BY <1>3, <2>2, <3>1
      <4>2. stamps[g][i] <= clock /\ stamps[g][i] \in Nat
        BY <1>1, <4>1
      <4> QED BY <4>1, <4>2
    <3>2. CASE g = f
      BY <1>1, <1>3, <2>2, <3>2, StampAppend
    <3> QED BY <3>1, <3>2
  <2> QED BY <2>1, <2>2 DEF StampsMatchCounts
<1>5. /\ \A g \in Frames : g # f /\ Len(stamps[g]) > 0 =>
           FirstAccess'[g] = FirstAccess[g] /\ LastAccess'[g] = LastAccess[g]
      /\ \A g \in Frames : Len(stamps[g]) > 0 =>
           FirstAccess[g] <= clock /\ LastAccess[g] <= clock
  BY <1>1, <1>3 DEF FirstAccess, LastAccess, Tracked
<1>5a. \A g \in Frames : Len(stamps[g]) > 0 =>
         FirstAccess[g] \in Int /\ LastAccess[g] \in Int
  <2> SUFFICES ASSUME NEW g \in Frames, Len(stamps[g]) > 0
               PROVE  FirstAccess[g] \in Int /\ LastAccess[g] \in Int
    OBVIOUS
  <2>1. stamps[g] # << >> /\ stamps[g][1] \in Int /\ stamps[g][Len(stamps[g])] \in Int
    BY StampTypes
  <2> QED BY <2>1 DEF FirstAccess, LastAccess, Tracked
<1>5b. /\ \A g \in Elements(h) : g \in Frames /\ Len(stamps[g]) > 0
       /\ \A g \in Elements(c) : g \in Frames /\ Len(stamps[g]) > 0
  BY <1>1, KAssumption
<1>6. LastAccess'[f] = clock + 1
  BY <1>3, <1>3a DEF LastAccess
<1>7. FirstAccess'[f] = IF Len(stamps[f]) = 0 THEN clock + 1 ELSE FirstAccess[f]
  <2>1. FirstAccess'[f] = stamps'[f][1]
    BY <1>3a DEF FirstAccess
  <2>2. CASE Len(stamps[f]) = 0
    BY <1>3, <2>1, <2>2
  <2>3. CASE Len(stamps[f]) # 0
    <3>1. 1 \in DOMAIN stamps[f] /\ stamps[f] # << >>
      BY <2>3
    <3>2. FirstAccess[f] = stamps[f][1]
      BY <3>1 DEF FirstAccess, Tracked
    <3> QED BY <1>3, <2>1, <2>3, <3>1, <3>2
  <2> QED BY <2>2, <2>3
<1>8. Descending(replacer'.history_list, FirstAccess')
  <2>1. CASE n = k
    <3>1. f \in Elements(h)
      BY <1>1, <2>1, KAssumption
    <3> DEFINE e == Erase(h, f)
    <3>2. e \in Seq(Frames) /\ Elements(e) = Elements(h) \ {f} /\ Descending(e, FirstAccess)
      BY <1>1, <3>1, EraseLemma, EraseDescending
    <3>3. \A g \in Elements(e) : FirstAccess'[g] = FirstAccess[g]
      BY <1>1, <1>5, <3>2
    <3> HIDE DEF e
    <3>4. Descending(e, FirstAccess')
      BY <3>2, <3>3, DescendingLocal, Zenon
    <3> QED BY <1>2, <2>1, <3>4 DEF e
  <2>2. CASE n < k /\ f \notin Elements(h)
    <3>1. replacer.access_count[f] = 0
      BY <1>1, <2>2, KAssumption
    <3>2. FirstAccess'[f] = clock + 1
      BY <1>1, <1>7, <3>1
    <3>3. \A g \in Elements(h) : FirstAccess'[g] = FirstAccess[g] /\ FirstAccess[g] <= clock
      BY <1>5, <1>5b, <2>2
    <3>4. Descending(h, FirstAccess')
      BY <1>1, <3>3, DescendingLocal, Zenon
    <3>5. \A g \in Elements(h) : FirstAccess'[f] > FirstAccess'[g]
      <4> SUFFICES ASSUME NEW g \in Elements(h) PROVE FirstAccess'[f] > FirstAccess'[g]
        OBVIOUS
      <4>1. FirstAccess'[g] \in Int /\ FirstAccess'[g] <= clock
        BY <1>5a, <1>5b, <3>3, Zenon
      <4> QED BY <3>2, <4>1
    <3>6. Descending(PushFront(h, f), FirstAccess')
      BY <2>2, <3>4, <3>5, PushFrontDescending
    <3> QED BY <1>2, <2>2, <3>6, KAssumption
  <2>3. CASE n # k /\ ~ (n < k /\ f \notin Elements(h))
    <3>1. \A g \in Elements(h) : FirstAccess'[g] = FirstAccess[g]
      BY <1>1, <1>5, <1>7, <2>3, KAssumption
    <3>2. Descending(h, FirstAccess')
      BY <1>1, <3>1, DescendingLocal
    <3> QED BY <1>2, <2>3, <3>2
  <2> QED BY <2>1, <2>2, <2>3
<1>9. Descending(replacer'.cache_list, LastAccess')
  <2>1. CASE n < k
    <3>0. f \notin Elements(c)
      BY <1>1, <2>1, KAssumption
    <3>1. \A g \in Elements(c) : LastAccess'[g] = LastAccess[g]
      BY <1>5, <1>5b, <3>0
    <3>2. Descending(c, LastAccess')
      BY <1>1, <3>1, DescendingLocal, Zenon
    <3> QED BY <1>2, <2>1, <3>2
  <2>2. CASE ~ (n < k)
    <3> DEFINE e == IF n > k /\ f \in Elements(c) THEN Erase(c, f) ELSE c
    <3>1. n > k <=> f \in Elements(c)
      BY <1>1, <2>2, KAssumption
    <3>2. /\ e \in Seq(Frames) /\ NoRepeats(e)
          /\ Elements(e) = Elements(c) \ {f}
          /\ Descending(e, LastAccess)
      <4>1. CASE f \in Elements(c)
        BY <1>1, <3>1, <4>1, EraseLemma, EraseDescending
      <4>2. CASE f \notin Elements(c)
        BY <1>1, <3>1, <4>2
      <4> QED BY <4>1, <4>2
    <3>3. \A g \in Elements(e) :
            /\ LastAccess'[g] = LastAccess[g]
            /\ LastAccess[g] <= clock
            /\ LastAccess[g] \in Int
      BY <1>5, <1>5a, <1>5b, <3>2
    <3> HIDE DEF e
    <3>4. Descending(e, LastAccess')
      BY <3>2, <3>3, DescendingLocal, Zenon
    <3>5. \A g \in Elements(e) : LastAccess'[f] > LastAccess'[g]
      <4> SUFFICES ASSUME NEW g \in Elements(e) PROVE LastAccess'[f] > LastAccess'[g]
        OBVIOUS
      <4>1. LastAccess'[g] \in Int /\ LastAccess'[g] <= clock
        BY <3>3, Zenon
      <4> QED BY <1>6, <4>1
    <3>6. Descending(PushFront(e, f), LastAccess')
      BY <3>2, <3>4, <3>5, PushFrontDescending, Zenon
    <3> QED BY <1>2, <2>2, <3>6 DEF e
  <2> QED BY <2>1, <2>2
<1> QED BY <1>4, <1>8, <1>9 DEF OrderInv, Descending

\* A call that leaves the lists and the accesses alone keeps their order.
LEMMA SameOrder ==
  ASSUME Inv, UNCHANGED <<clock, stamps>>,
         replacer'.access_count = replacer.access_count,
         replacer'.history_list = replacer.history_list,
         replacer'.cache_list = replacer.cache_list
  PROVE  OrderInv'
<1>1. StampsMatchCounts'
  BY DEF Inv, OrderInv, StampsMatchCounts
<1>2. FirstAccess' = FirstAccess /\ LastAccess' = LastAccess
  BY DEF FirstAccess, LastAccess, Tracked
<1>3. Descending(replacer.history_list, FirstAccess) /\ Descending(replacer.cache_list, LastAccess)
  BY DEF Inv, OrderInv
<1>4. Descending(replacer'.history_list, FirstAccess') /\ Descending(replacer'.cache_list, LastAccess')
  BY <1>2, <1>3
<1> QED BY <1>1, <1>4 DEF OrderInv, Descending

\* Every call preserves the invariant.
LEMMA NextInv == Inv /\ [Next]_vars => Inv'
<1> SUFFICES ASSUME Inv, [Next]_vars PROVE Inv'
  OBVIOUS
<1> USE InvConsistent
<1>1. ASSUME replacer' \in Replacers, Consistent(replacer'), ret' \in Calls,
             clock' \in 0 .. MaxClock, stamps' \in [Frames -> Seq(Nat)], OrderInv'
      PROVE  Inv'
  BY <1>1 DEF Inv, TypeOK, ListsInv, SizeInv, Consistent
<1>2. Frames \subseteq FrameIds /\ 0 \in FrameIds
  BY ReplacerSizeAssumption DEF Frames, FrameIds
<1>3. clock \in 0 .. MaxClock
  BY DEF Inv, TypeOK
<1>4. EvictableFrames(replacer) \subseteq Frames
  BY DEF EvictableFrames
<1>5. CASE UNCHANGED vars
  <2>1. OrderInv'
    BY <1>5, SameOrder DEF vars
  <2> QED BY <1>5, <2>1 DEF Inv, vars, TypeOK, ListsInv, SizeInv
<1>6. CASE DoEvict /\ EvictSucceeds(replacer)
  <2> DEFINE v == Victim(replacer)
  <2>1. /\ replacer' = Evict(replacer)
        /\ stamps' = [stamps EXCEPT ![v] = << >>]
        /\ clock' = clock
        /\ ret' = [op |-> "Evict", frame |-> v, outcome |-> "true"]
    BY <1>6 DEF DoEvict, Returned
  <2>2. /\ v \in EvictableFrames(replacer)
        /\ HasEvictable(replacer, replacer.history_list) <=> replacer.access_count[v] < k
    BY <1>6, EvictLemma
  <2>3. Evict(replacer) = Forget(replacer, v, replacer.access_count[v] < k)
    BY <2>2, Zenon DEF Evict, Forget
  <2>4. OrderInv'
    BY <2>1, <2>2, <2>3, ForgetOrder, Zenon
  <2>5. replacer' \in Replacers /\ Consistent(replacer')
    BY <1>6, <2>1, EvictConsistent
  <2>6. ret' \in Calls
    BY <1>2, <1>4, <2>1, <2>2 DEF Calls, Outcomes
  <2>7. stamps' \in [Frames -> Seq(Nat)] /\ clock' \in 0 .. MaxClock
    <3>1. v \in Frames /\ << >> \in Seq(Nat)
      BY <1>4, <2>2
    <3> QED BY <1>3, <2>1, <3>1
  <2> QED BY <1>1, <2>4, <2>5, <2>6, <2>7
<1>7. ASSUME NEW f \in FrameIds, DoRecordAccess(f), f <= replacer_size PROVE Inv'
  <2>1. /\ replacer' = RecordAccess(replacer, f)
        /\ clock' = clock + 1 /\ clock < MaxClock
        /\ stamps' = [stamps EXCEPT ![f] = Append(stamps[f], clock + 1)]
        /\ ret' = [op |-> "RecordAccess", frame |-> f, outcome |-> "done"]
    BY <1>7, ReplacerSizeAssumption DEF DoRecordAccess, Returned, FrameIds
  <2>2. f \in Frames
    BY <1>7 DEF FrameIds, Frames
  <2>3. OrderInv'
    BY <2>1, <2>2, RecordAccessOrder, Zenon
  <2>4. replacer' \in Replacers /\ Consistent(replacer')
    BY <2>1, <2>2, RecordAccessConsistent
  <2>5. ret' \in Calls
    BY <2>1 DEF Calls, Outcomes
  <2>6. clock' \in 0 .. MaxClock
    BY <1>3, <2>1, MaxClockAssumption
  <2>7. stamps' \in [Frames -> Seq(Nat)]
    BY <2>1, <2>2
  <2> QED BY <1>1, <2>3, <2>4, <2>5, <2>6, <2>7
<1>8. ASSUME NEW f \in FrameIds, NEW b \in BOOLEAN, DoSetEvictable(f, b), f <= replacer_size
      PROVE  Inv'
  <2>1. /\ replacer' = SetEvictable(replacer, f, b)
        /\ UNCHANGED <<clock, stamps>>
        /\ ret' = [op |-> "SetEvictable", frame |-> f, outcome |-> "done"]
    BY <1>8, ReplacerSizeAssumption DEF DoSetEvictable, Returned, FrameIds
  <2>2. f \in Frames
    BY <1>8 DEF FrameIds, Frames
  <2>3. /\ replacer'.access_count = replacer.access_count
        /\ replacer'.history_list = replacer.history_list
        /\ replacer'.cache_list = replacer.cache_list
    BY <2>1 DEF SetEvictable, Replacers
  <2>4. OrderInv'
    BY <2>1, <2>3, SameOrder
  <2>5. replacer' \in Replacers /\ Consistent(replacer')
    BY <2>1, <2>2, SetEvictableConsistent
  <2>6. ret' \in Calls
    BY <2>1 DEF Calls, Outcomes
  <2> QED BY <1>1, <1>3, <2>1, <2>4, <2>5, <2>6
<1>9. ASSUME NEW f \in Frames, DoRemove(f), ~ RemoveThrows(replacer, f) PROVE Inv'
  <2>1. /\ replacer' = Remove(replacer, f)
        /\ clock' = clock
        /\ stamps' = [stamps EXCEPT ![f] = << >>]
        /\ ret' = [op |-> "Remove", frame |-> f, outcome |-> "done"]
    BY <1>9 DEF DoRemove, Returned
  <2>2. OrderInv'
    <3>1. CASE replacer.access_count[f] = 0
      <4>1. replacer' = replacer
        BY <2>1, <3>1 DEF Remove
      <4>2. stamps[f] = << >>
        BY <3>1 DEF Inv, OrderInv, StampsMatchCounts
      <4>3. stamps' = stamps
        BY <2>1, <4>2
      <4> QED BY <2>1, <4>1, <4>3, SameOrder
    <3>2. CASE replacer.access_count[f] # 0
      <4>1. f \in EvictableFrames(replacer)
        BY <1>9, <3>2 DEF RemoveThrows, EvictableFrames
      <4>2. replacer' = Forget(replacer, f, replacer.access_count[f] < k)
        BY <2>1, <3>2 DEF Remove
      <4> QED BY <2>1, <4>1, <4>2, ForgetOrder, Zenon
    <3> QED BY <3>1, <3>2
  <2>3. replacer' \in Replacers /\ Consistent(replacer')
    BY <1>9, <2>1, RemoveConsistent
  <2>4. ret' \in Calls
    BY <1>2, <2>1 DEF Calls, Outcomes
  <2>5. stamps' \in [Frames -> Seq(Nat)]
    BY <2>1
  <2> QED BY <1>1, <1>3, <2>1, <2>2, <2>3, <2>4, <2>5
<1>10. ASSUME UNCHANGED <<replacer, clock, stamps>>,
              NEW op \in {"Evict", "RecordAccess", "SetEvictable", "Remove"},
              NEW f \in FrameIds, NEW o \in Outcomes, Returned(op, f, o)
       PROVE  Inv'
  <2>1. ret' \in Calls
    BY <1>10 DEF Returned, Calls
  <2>2. OrderInv'
    BY <1>10, SameOrder
  <2> QED BY <1>1, <1>3, <1>10, <2>1, <2>2
<1>11. CASE DoEvict /\ ~ EvictSucceeds(replacer)
  BY <1>2, <1>10, <1>11 DEF DoEvict, Outcomes
<1>12. ASSUME NEW f \in FrameIds, DoRecordAccess(f), ~ (f <= replacer_size) PROVE Inv'
  BY <1>10, <1>12 DEF DoRecordAccess, Outcomes
<1>13. ASSUME NEW f \in FrameIds, NEW b \in BOOLEAN, DoSetEvictable(f, b), ~ (f <= replacer_size)
       PROVE  Inv'
  BY <1>10, <1>13 DEF DoSetEvictable, Outcomes
<1>14. ASSUME NEW f \in FrameIds, DoRemove(f), f \in Frames => RemoveThrows(replacer, f)
       PROVE  Inv'
  <2>1. UNCHANGED <<replacer, clock, stamps>> /\ Returned("Remove", f, "throw")
    BY <1>14, ReplacerSizeAssumption DEF DoRemove, FrameIds, Frames
  <2> QED BY <1>10, <2>1 DEF Calls, Outcomes
<1> QED BY <1>5, <1>6, <1>7, <1>8, <1>9, <1>11, <1>12, <1>13, <1>14 DEF Next

\* The invariant holds whatever the sequence of calls.
THEOREM Invariance == Spec => []Inv
<1>1. Init => Inv
  BY InitInv
<1>2. Inv /\ [Next]_vars => Inv'
  BY NextInv
<1> QED BY <1>1, <1>2, PTL DEF Spec

\* Type correctness; in particular curr_size_, a size_t, never goes below 0.
THEOREM TypeCorrect == Spec => []TypeOK
<1>1. Inv => TypeOK
  BY DEF Inv
<1> QED BY <1>1, Invariance, PTL

\* Each tracked frame is once in the list its access count says.
THEOREM ListsCorrect == Spec => []ListsInv
<1>1. Inv => ListsInv
  BY DEF Inv
<1> QED BY <1>1, Invariance, PTL

\* Size() counts the evictable frames (lru_k_replacer.h:92).
THEOREM SizeCorrect == Spec => []SizeInv
<1>1. Inv => SizeInv
  BY DEF Inv
<1> QED BY <1>1, Invariance, PTL

\* The history list is in order of first access and the cache list in order of
\* latest access, whatever the sequence of calls.
THEOREM OrderCorrect == Spec => []OrderInv
<1>1. Inv => OrderInv
  BY DEF Inv
<1> QED BY <1>1, Invariance, PTL

-----------------------------------------------------------------------------
(* The order of eviction. *)

\* Of two evictable frames of a list, the one Evict stops at is not the later.
LEMMA LastIsOldest ==
  ASSUME NEW r, NEW list \in Seq(Frames), HasEvictable(r, list),
         NEW time, Descending(list, time),
         \A x \in Elements(list) : time[x] \in Int,
         NEW g \in Elements(list), r.is_evictable[g]
  PROVE  /\ LastEvictable(r, list) \in Elements(list)
         /\ time[LastEvictable(r, list)] <= time[g]
<1>1. PICK i \in DOMAIN list :
        /\ LastEvictable(r, list) = list[i]
        /\ \A j \in DOMAIN list : j > i => ~ r.is_evictable[list[j]]
  BY LastEvictableLemma
<1>2. PICK j \in DOMAIN list : list[j] = g
  BY DEF Elements
<1>3. i \in Int /\ j \in Int /\ j <= i
  BY <1>1, <1>2
<1>4. list[i] \in Elements(list) /\ time[list[i]] \in Int /\ time[g] \in Int
  BY DEF Elements
<1>5. CASE j = i
  BY <1>1, <1>2, <1>4, <1>5
<1>6. CASE j < i
  <2>1. time[list[j]] > time[list[i]]
    BY <1>6 DEF Descending
  <2> QED BY <1>1, <1>2, <1>4, <2>1
<1> QED BY <1>3, <1>5, <1>6

\* The victim of a successful Evict obeys the rule.
LEMMA VictimObeysRule ==
  ASSUME Inv, EvictSucceeds(replacer)
  PROVE  VictimRule(Victim(replacer))
<1> DEFINE h == replacer.history_list
           c == replacer.cache_list
           v == Victim(replacer)
<1>1. /\ replacer \in Replacers /\ Consistent(replacer)
      /\ h \in Seq(Frames) /\ c \in Seq(Frames)
      /\ stamps \in [Frames -> Seq(Nat)]
      /\ replacer.access_count \in [Frames -> Nat]
  BY InvConsistent
<1>2. /\ Elements(h) = {g \in Frames : 0 < replacer.access_count[g] /\ replacer.access_count[g] < k}
      /\ Elements(c) = {g \in Frames : replacer.access_count[g] >= k}
      /\ \A g \in Frames : Len(stamps[g]) = replacer.access_count[g]
      /\ Descending(h, FirstAccess) /\ Descending(c, LastAccess)
      /\ \A g \in Candidates :
           g \in Frames /\ replacer.is_evictable[g] /\ replacer.access_count[g] > 0
  BY DEF Inv, ListsInv, ListsMatchCounts, OrderInv, StampsMatchCounts, SizeInv,
         SizeCountsEvictable, Candidates, EvictableFrames
<1>3. \A g \in Candidates : IF Young(g) THEN g \in Elements(h) ELSE g \in Elements(c)
  BY <1>1, <1>2, KAssumption DEF Young
<1>4. \A g \in Frames : Len(stamps[g]) > 0 => FirstAccess[g] \in Int /\ LastAccess[g] \in Int
  <2> SUFFICES ASSUME NEW g \in Frames, Len(stamps[g]) > 0
               PROVE  FirstAccess[g] \in Int /\ LastAccess[g] \in Int
    OBVIOUS
  <2>1. stamps[g] # << >> /\ stamps[g][1] \in Int /\ stamps[g][Len(stamps[g])] \in Int
    BY <1>1, StampTypes
  <2> QED BY <2>1 DEF FirstAccess, LastAccess, Tracked
<1>5. /\ \A g \in Elements(h) : FirstAccess[g] \in Int
      /\ \A g \in Elements(c) : LastAccess[g] \in Int
  BY <1>1, <1>2, <1>4, KAssumption
<1>6. v \in Candidates /\ (HasEvictable(replacer, h) <=> Young(v))
  BY <1>1, <1>2, EvictLemma DEF Candidates, Young
<1>7. CASE HasEvictable(replacer, h)
  <2>1. v = LastEvictable(replacer, h)
    BY <1>7 DEF Victim
  <2>2. ASSUME NEW g \in Candidates, Young(g) PROVE FirstAccess[v] <= FirstAccess[g]
    <3>1. g \in Elements(h) /\ replacer.is_evictable[g]
      BY <1>2, <1>3, <2>2
    <3> QED BY <1>1, <1>2, <1>5, <1>7, <2>1, <3>1, LastIsOldest, Zenon
  <2> QED BY <1>6, <1>7, <2>2 DEF VictimRule
<1>8. CASE ~ HasEvictable(replacer, h)
  <2>1. v = LastEvictable(replacer, c) /\ HasEvictable(replacer, c)
    BY <1>8 DEF Victim, EvictSucceeds
  <2>2. ASSUME NEW g \in Candidates PROVE ~ Young(g)
    <3>1. SUFFICES ASSUME Young(g) PROVE FALSE
      OBVIOUS
    <3>2. g \in Elements(h) /\ replacer.is_evictable[g]
      BY <1>2, <1>3, <3>1
    <3> QED BY <1>8, <3>2 DEF HasEvictable, Elements
  <2>3. ASSUME NEW g \in Candidates PROVE LastAccess[v] <= LastAccess[g]
    <3>1. g \in Elements(c) /\ replacer.is_evictable[g]
      BY <1>2, <1>3, <2>2
    <3> QED BY <1>1, <1>2, <1>5, <2>1, <3>1, LastIsOldest, Zenon
  <2> QED BY <1>6, <2>2, <2>3 DEF VictimRule
<1> QED BY <1>7, <1>8

\* Evict (lru_k_replacer.cpp) takes frames with fewer than k accesses first, the
\* earliest arrival of them first; of the others it takes none before one whose
\* last and whose k-th previous access are both older.
THEOREM EvictionOrderHolds == Spec => EvictionOrder
<1>1. Inv /\ [Next]_vars => [DoEvict => \A f \in Frames : Evicts(f) => VictimRule(f)]_vars
  <2> SUFFICES ASSUME Inv, DoEvict, NEW f \in Frames, Evicts(f)
               PROVE  VictimRule(f)
    OBVIOUS
  <2>1. EvictSucceeds(replacer) /\ f = Victim(replacer)
    BY DEF DoEvict, Evicts, Returned
  <2> QED BY <2>1, VictimObeysRule
<1> QED BY <1>1, Invariance, PTL DEF Spec, EvictionOrder

\* Evict fails only when nothing is evictable, and forgets its victim.
THEOREM EvictTotalHolds == Spec => EvictTotal
<1> DEFINE Total == IF Candidates = {}
                    THEN ret'.outcome = "false"
                    ELSE /\ ret'.outcome = "true"
                         /\ replacer'.access_count[ret'.frame] = 0
                         /\ EvictableFrames(replacer') = Candidates \ {ret'.frame}
<1>1. Inv /\ [Next]_vars => [DoEvict => Total]_vars
  <2> SUFFICES ASSUME Inv, DoEvict PROVE Total
    OBVIOUS
  <2> DEFINE v == Victim(replacer)
  <2>1. EvictSucceeds(replacer) <=> Candidates # {}
    BY InvConsistent, EvictLemma DEF Candidates
  <2>2. CASE Candidates = {}
    BY <2>1, <2>2 DEF DoEvict, Returned
  <2>3. CASE Candidates # {}
    <3>1. /\ ret' = [op |-> "Evict", frame |-> v, outcome |-> "true"]
          /\ replacer' = Evict(replacer)
      BY <2>1, <2>3 DEF DoEvict, Returned
    <3>2. EvictableFrames(replacer') = Candidates \ {v}
      BY <2>1, <2>3, <3>1, InvConsistent, EvictConsistent DEF Candidates
    <3>3. v \in Frames
      BY <2>1, <2>3, InvConsistent, EvictLemma DEF EvictableFrames
    <3>4. replacer'.access_count[v] = 0
      BY <3>1, <3>3, InvConsistent DEF Evict, Forget
    <3> QED BY <2>3, <3>1, <3>2, <3>4
  <2> QED BY <2>2, <2>3
<1> QED BY <1>1, Invariance, PTL DEF Spec, EvictTotal

=============================================================================
