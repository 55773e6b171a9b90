---------------------------- MODULE LRUKReplacer ----------------------------
(***************************************************************************)
(* The LRU-K replacer of the buffer pool (buffer/lru_k_replacer.cpp), as   *)
(* operations on its state.  The state is one record r:                    *)
(*   access_count  accesses recorded since the frame was last (re)admitted *)
(*   is_evictable  the frame may be chosen as a victim                     *)
(*   history_list  frames with fewer than k accesses, newest arrival first *)
(*   cache_list    frames with at least k accesses, latest access first    *)
(*   curr_size     what Size() returns                                     *)
(* history_map_ and cache_map_ hold the iterators of the list elements:    *)
(* every statement that changes a list changes its map with it, so a map   *)
(* is the function from the frames of the list to their positions.         *)
(*                                                                         *)
(* Every method runs under latch_: one call is one atomic step.  The       *)
(* module LRUKReplacerSystem takes those steps one at a time, the module   *)
(* BufferPool strings several together under its own latch.                *)
(***************************************************************************)
EXTENDS Integers, Sequences, FiniteSets

CONSTANTS
  replacer_size,  \* num_frames of the constructor
  k               \* the K of LRU-K

ASSUME ReplacerSizeAssumption == replacer_size \in Nat
\* With k = 1 RecordAccess erases an iterator that was never stored.
ASSUME KAssumption == k \in Nat /\ k >= 2

\* The frame ids the methods accept: the check is frame_id > replacer_size_.
Frames == 0 .. replacer_size

Replacers ==
  [access_count : [Frames -> Nat],
   is_evictable : [Frames -> BOOLEAN],
   history_list : Seq(Frames),
   cache_list   : Seq(Frames),
   curr_size    : Nat]

EmptyReplacer ==
  [access_count |-> [f \in Frames |-> 0],
   is_evictable |-> [f \in Frames |-> FALSE],
   history_list |-> << >>,
   cache_list   |-> << >>,
   curr_size    |-> 0]

-----------------------------------------------------------------------------
(* The two std::list members. *)

Elements(list) == {list[i] : i \in DOMAIN list}

\* The iterator history_map_[f] or cache_map_[f].
IteratorOf(list, f) == CHOOSE i \in DOMAIN list : list[i] = f

\* erase(iterator) of a list that holds f.
Erase(list, f) ==
  LET p == IteratorOf(list, f)
  IN  [i \in 1 .. Len(list) - 1 |-> IF i < p THEN list[i] ELSE list[i + 1]]

PushFront(list, f) ==
  [i \in 1 .. Len(list) + 1 |-> IF i = 1 THEN f ELSE list[i - 1]]

\* The scan from rbegin() to rend() stops at the last evictable element.
HasEvictable(r, list) == \E i \in DOMAIN list : r.is_evictable[list[i]]

\* Mutant: the scan runs from begin() to end().
FirstEvictable(r, list) ==
  list[CHOOSE i \in DOMAIN list :
         /\ r.is_evictable[list[i]]
         /\ \A j \in DOMAIN list : j < i => ~ r.is_evictable[list[j]]]

LastEvictable(r, list) ==
  list[CHOOSE i \in DOMAIN list :
         /\ r.is_evictable[list[i]]
         /\ \A j \in DOMAIN list : j > i => ~ r.is_evictable[list[j]]]

-----------------------------------------------------------------------------
(* Evict: its result, its victim and its effect. *)

\* Mutant: only history_list_ is scanned.
EvictSucceedsHistoryOnly(r) == r.curr_size # 0 /\ HasEvictable(r, r.history_list)

EvictSucceeds(r) ==
  /\ r.curr_size # 0
  /\ HasEvictable(r, r.history_list) \/ HasEvictable(r, r.cache_list)

Victim(r) ==
  IF HasEvictable(r, r.history_list)
  THEN LastEvictable(r, r.history_list)
  ELSE LastEvictable(r, r.cache_list)

\* Mutant: access_count_ is not reset.
ForgetKeepsCount(r, f, inHistory) ==
  [r EXCEPT
     !.is_evictable = [r.is_evictable EXCEPT ![f] = FALSE],
     !.history_list = IF inHistory THEN Erase(@, f) ELSE @,
     !.cache_list = IF inHistory THEN @ ELSE Erase(@, f),
     !.curr_size = @ - 1]

\* Mutant: curr_size_ is not decremented.
ForgetKeepsSize(r, f, inHistory) ==
  [ForgetKeepsCount(r, f, inHistory) EXCEPT
     !.access_count = [r.access_count EXCEPT ![f] = 0],
     !.curr_size = r.curr_size]

\* What Evict and Remove leave of a frame they take out of the list it is in.
Forget(r, f, inHistory) ==
  [access_count |-> [r.access_count EXCEPT ![f] = 0],
   is_evictable |-> [r.is_evictable EXCEPT ![f] = FALSE],
   history_list |-> IF inHistory THEN Erase(r.history_list, f) ELSE r.history_list,
   cache_list   |-> IF inHistory THEN r.cache_list ELSE Erase(r.cache_list, f),
   curr_size    |-> r.curr_size - 1]

Evict(r) == Forget(r, Victim(r), HasEvictable(r, r.history_list))

-----------------------------------------------------------------------------
(* RecordAccess. *)

\* Mutant: from the (k+1)-th access on the frame keeps its place in cache_list_.
RecordAccessNoMove(r, f) ==
  LET n == r.access_count[f] + 1
      h == r.history_list
      c == r.cache_list
  IN  [r EXCEPT
         !.access_count = [r.access_count EXCEPT ![f] = n],
         !.history_list = IF n = k THEN Erase(h, f) ELSE IF n = 1 THEN PushFront(h, f) ELSE h,
         !.cache_list = IF n = k THEN PushFront(c, f) ELSE c]

RecordAccess(r, f) ==
  LET n == r.access_count[f] + 1
      h == r.history_list
      c == r.cache_list
  IN  [access_count |-> [r.access_count EXCEPT ![f] = n],
       is_evictable |-> r.is_evictable,
       history_list |-> IF n = k
                        THEN Erase(h, f)
                        ELSE IF n < k /\ f \notin Elements(h) THEN PushFront(h, f) ELSE h,
       cache_list   |-> IF n < k
                        THEN c
                        ELSE PushFront(IF n > k /\ f \in Elements(c) THEN Erase(c, f) ELSE c, f),
       curr_size    |-> r.curr_size]

-----------------------------------------------------------------------------
(* SetEvictable. *)

\* Mutant: the flag the frame already has is not looked at.
SetEvictableAlwaysCounts(r, f, set_evictable) ==
  IF r.access_count[f] = 0
  THEN r
  ELSE [r EXCEPT
          !.is_evictable = [r.is_evictable EXCEPT ![f] = set_evictable],
          !.curr_size = IF set_evictable THEN r.curr_size + 1 ELSE r.curr_size - 1]

SetEvictable(r, f, set_evictable) ==
  IF r.access_count[f] = 0
  THEN r
  ELSE [r EXCEPT
          !.is_evictable = [r.is_evictable EXCEPT ![f] = set_evictable],
          !.curr_size = IF set_evictable = r.is_evictable[f]
                        THEN r.curr_size
                        ELSE IF set_evictable THEN r.curr_size + 1 ELSE r.curr_size - 1]

-----------------------------------------------------------------------------
(* Remove: it throws for a tracked frame that is not evictable. *)

RemoveThrows(r, f) == r.access_count[f] # 0 /\ ~ r.is_evictable[f]

Remove(r, f) ==
  IF r.access_count[f] = 0
  THEN r
  ELSE Forget(r, f, r.access_count[f] < k)

-----------------------------------------------------------------------------
(* What every reachable replacer satisfies. *)

NoRepeats(list) ==
  \A i, j \in DOMAIN list : list[i] = list[j] => i = j

\* Each tracked frame is in exactly one list, once: history_list_ below k
\* accesses, cache_list_ from the k-th on.
ListsMatchCounts(r) ==
  /\ NoRepeats(r.history_list)
  /\ NoRepeats(r.cache_list)
  /\ Elements(r.history_list) = {f \in Frames : 0 < r.access_count[f] /\ r.access_count[f] < k}
  /\ Elements(r.cache_list) = {f \in Frames : r.access_count[f] >= k}

EvictableFrames(r) == {f \in Frames : r.is_evictable[f]}

\* Only tracked frames are evictable, and curr_size_ counts them.
SizeCountsEvictable(r) ==
  /\ \A f \in EvictableFrames(r) : r.access_count[f] > 0
  /\ r.curr_size = Cardinality(EvictableFrames(r))

Consistent(r) == ListsMatchCounts(r) /\ SizeCountsEvictable(r)

=============================================================================
