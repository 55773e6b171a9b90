------------------------------ MODULE HashMap -------------------------------
(***************************************************************************)
(* What a hash table promises (include/container/hash/hash_table.h): a map *)
(* from keys to values.  Insert adds or updates one key, Remove takes one  *)
(* away and says whether it was there, Find returns the value.  Between    *)
(* the return of one call and the return of the next nothing changes.      *)
(***************************************************************************)
CONSTANTS Keys, Values, NotFound

VARIABLES
  map,  \* the value of each key, NotFound for none
  ret   \* the call that returned last, with its result; << >> during a call

vars == <<map, ret>>

Init ==
  /\ map = [key \in Keys |-> NotFound]
  /\ ret = << >>

Call == ret' = << >> /\ UNCHANGED map

Insert(key, value) ==
  /\ map' = [map EXCEPT ![key] = value]
  /\ ret' = <<"Insert", key, value>>

Remove(key) ==
  /\ map' = [map EXCEPT ![key] = NotFound]
  /\ ret' = <<"Remove", key, map[key] # NotFound>>

Find(key) ==
  /\ UNCHANGED map
  /\ ret' = <<"Find", key, map[key]>>

Next ==
  \/ Call
  \/ \E key \in Keys :
       \/ Remove(key)
       \/ Find(key)
       \/ \E value \in Values : Insert(key, value)

Spec == Init /\ [][Next]_vars

=============================================================================
