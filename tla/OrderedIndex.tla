---------------------------- MODULE OrderedIndex ----------------------------
(***************************************************************************)
(* What Insert and Remove of a unique-key index promise, whatever threads  *)
(* do at the same time: each takes effect at one moment, on the whole set  *)
(* of keys, and its answer is right at that moment.  Reads change nothing. *)
(***************************************************************************)
CONSTANTS Threads, Keys, Prefill

VARIABLES keys, res  \* the set of keys, and each thread's last result

Answer(t, op, key, ok) ==
  res'[t].op = op /\ res'[t].key = key /\ res'[t].ok = ok

OthersKeep(t) == \A u \in Threads \ {t} : res'[u] = res[u]

Init == keys = Prefill /\ \A t \in Threads : res[t].op = "none"

\* True if and only if the key is new.
Insert(t, key) ==
  /\ keys' = keys \cup {key}
  /\ Answer(t, "insert", key, key \notin keys)
  /\ OthersKeep(t)

Remove(t, key) ==
  /\ keys' = keys \ {key}
  /\ Answer(t, "remove", key, key \in keys)
  /\ OthersKeep(t)

\* A read's answer, or a call that has none yet.
Read(t) ==
  /\ keys' = keys
  /\ res'[t].op \notin {"insert", "remove"}
  /\ OthersKeep(t)

Next == \E t \in Threads : Read(t) \/ \E key \in Keys : Insert(t, key) \/ Remove(t, key)

Spec == Init /\ [][Next]_<<keys, res>>

=============================================================================
