------------------------- MODULE LRUKReplacerSystem -------------------------
(***************************************************************************)
(* The LRU-K replacer used through its public methods, in any order and by *)
(* any number of threads: latch_ makes each call one step.  Two history    *)
(* variables, which the code does not have, say what LRU-K is about: the   *)
(* time of every recorded access of a frame since it was last forgotten.   *)
(***************************************************************************)
EXTENDS LRUKReplacer

CONSTANT MaxClock  \* bound on the number of recorded accesses

ASSUME MaxClockAssumption == MaxClock \in Nat

VARIABLES
  replacer,  \* the LRUKReplacer object
  ret,       \* the last call: its name, its argument or output, its outcome
  clock,     \* history: the number of accesses recorded so far
  stamps     \* history: per frame, the times of its accesses

vars == <<replacer, ret, clock, stamps>>

\* frame_id_t arguments; the last one is beyond the size the replacer accepts.
FrameIds == 0 .. replacer_size + 1

Outcomes == {"true", "false", "done", "throw"}
Calls == [op : {"None", "Evict", "RecordAccess", "SetEvictable", "Remove"},
          frame : FrameIds, outcome : Outcomes]

Returned(op, f, outcome) == ret' = [op |-> op, frame |-> f, outcome |-> outcome]

\* Types: curr_size_, a size_t that every method decrements unchecked, never
\* goes below 0, and the lists hold frames the replacer was made for.
TypeOK ==
  /\ replacer \in Replacers
  /\ ret \in Calls
  /\ clock \in 0 .. MaxClock
  /\ stamps \in [Frames -> Seq(Nat)]

Init ==
  /\ replacer = EmptyReplacer
  /\ ret = [op |-> "None", frame |-> 0, outcome |-> "done"]
  /\ clock = 0
  /\ stamps = [f \in Frames |-> << >>]

-----------------------------------------------------------------------------

DoEvict ==
  \/ /\ EvictSucceeds(replacer)
     /\ replacer' = Evict(replacer)
     /\ stamps' = [stamps EXCEPT ![Victim(replacer)] = << >>]
     /\ Returned("Evict", Victim(replacer), "true")
     /\ UNCHANGED clock
  \/ /\ ~ EvictSucceeds(replacer)
     /\ Returned("Evict", 0, "false")
     /\ UNCHANGED <<replacer, clock, stamps>>

DoRecordAccess(f) ==
  \/ /\ f <= replacer_size
     /\ clock < MaxClock
     /\ replacer' = RecordAccess(replacer, f)
     /\ clock' = clock + 1
     /\ stamps' = [stamps EXCEPT ![f] = Append(stamps[f], clock + 1)]
     /\ Returned("RecordAccess", f, "done")
  \/ /\ f > replacer_size
     /\ Returned("RecordAccess", f, "throw")
     /\ UNCHANGED <<replacer, clock, stamps>>

DoSetEvictable(f, set_evictable) ==
  \/ /\ f <= replacer_size
     /\ replacer' = SetEvictable(replacer, f, set_evictable)
     /\ Returned("SetEvictable", f, "done")
     /\ UNCHANGED <<clock, stamps>>
  \/ /\ f > replacer_size
     /\ Returned("SetEvictable", f, "throw")
     /\ UNCHANGED <<replacer, clock, stamps>>

DoRemove(f) ==
  \/ /\ f <= replacer_size
     /\ ~ RemoveThrows(replacer, f)
     /\ replacer' = Remove(replacer, f)
     /\ stamps' = [stamps EXCEPT ![f] = << >>]
     /\ Returned("Remove", f, "done")
     /\ UNCHANGED clock
  \/ /\ f \in Frames => RemoveThrows(replacer, f)
     /\ Returned("Remove", f, "throw")
     /\ UNCHANGED <<replacer, clock, stamps>>

Next ==
  \/ DoEvict
  \/ \E f \in FrameIds :
       \/ DoRecordAccess(f)
       \/ \E set_evictable \in BOOLEAN : DoSetEvictable(f, set_evictable)
       \/ DoRemove(f)

Spec == Init /\ [][Next]_vars

-----------------------------------------------------------------------------
(* Safety. *)

\* At any time each tracked frame sits once in the list its access count
\* says, and an untracked frame in none: the iterator that the next
\* RecordAccess, Evict or Remove erases is a valid one.
ListsInv == ListsMatchCounts(replacer)

\* Size() is the number of evictable frames after any sequence of calls
\* (lru_k_replacer.h:92), and an evictable frame is a tracked one.  It is what
\* makes the early return of Evict on curr_size_ = 0 right.
SizeInv == SizeCountsEvictable(replacer)

Tracked == {f \in Frames : stamps[f] # << >>}
FirstAccess == [f \in Tracked |-> stamps[f][1]]
LastAccess == [f \in Tracked |-> stamps[f][Len(stamps[f])]]

\* The access times are the ones access_count_ counts, in order.
StampsMatchCounts ==
  \A f \in Frames :
    /\ Len(stamps[f]) = replacer.access_count[f]
    /\ \A i \in DOMAIN stamps[f] : stamps[f][i] <= clock

\* The order the two lists keep: arrivals in history_list_, latest accesses
\* in cache_list_, the oldest at the back, where Evict starts its scan.
Descending(list, time) ==
  \A i, j \in DOMAIN list : i < j => time[list[i]] > time[list[j]]

OrderInv ==
  /\ StampsMatchCounts
  /\ Descending(replacer.history_list, FirstAccess)
  /\ Descending(replacer.cache_list, LastAccess)

\* The inductive invariant of the proofs.
Inv == TypeOK /\ ListsInv /\ SizeInv /\ OrderInv

-----------------------------------------------------------------------------
(* What a call may do. *)

Candidates == EvictableFrames(replacer)
Young(f) == Len(stamps[f]) < k

Evicts(f) == ret' = [op |-> "Evict", frame |-> f, outcome |-> "true"]

KthPrevious(f) == stamps[f][Len(stamps[f]) - k + 1]

\* Evict takes an evictable frame.  One with fewer than k accesses goes
\* before any other, and among those the one whose access history starts
\* earliest (lru_k_replacer.h:63-65); only when there is none, a frame with k
\* accesses or more.  Which of these, the header decides by the k-th previous
\* access and the code by the last one: the rule leaves open the frames on
\* which the two differ (MaxBackwardKDistance) and asks that no other one was
\* left alone for longer by both.
VictimRule(f) ==
  /\ f \in Candidates
  /\ IF \E g \in Candidates : Young(g)
     THEN Young(f) /\ \A g \in Candidates : Young(g) => FirstAccess[f] <= FirstAccess[g]
     ELSE \A g \in Candidates : \/ LastAccess[f] <= LastAccess[g]
                                 \/ KthPrevious(f) <= KthPrevious(g)

EvictionOrder == [][DoEvict => \A f \in Frames : Evicts(f) => VictimRule(f)]_vars

\* Evict fails only when nothing is evictable (the fall-through return at the
\* end of the method is never taken), and forgets its victim entirely.
EvictTotal ==
  [][DoEvict =>
       IF Candidates = {}
       THEN ret'.outcome = "false"
       ELSE /\ ret'.outcome = "true"
            /\ replacer'.access_count[ret'.frame] = 0
            /\ EvictableFrames(replacer') = Candidates \ {ret'.frame}]_vars

\* The documented policy (lru_k_replacer.h:29-31, 60-61): the victim's k-th
\* previous access is the oldest, of all evictable frames with k accesses.  The
\* code does not keep it (LRUKReplacer_kdistance.cfg).
MaxBackwardKDistance ==
  [][DoEvict =>
       \A f \in Frames :
         Evicts(f) /\ ~ Young(f) =>
           \A g \in Candidates : ~ Young(g) => KthPrevious(f) <= KthPrevious(g)]_vars

=============================================================================
