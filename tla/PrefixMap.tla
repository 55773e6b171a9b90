----------------------------- MODULE PrefixMap -----------------------------
(***************************************************************************)
(* What the trie of p0_trie.h promises to its callers, without nodes: a    *)
(* map from non-empty keys to typed values.  The comment of Remove and its *)
(* code differ on keys of which one begins with the other; the promise is  *)
(* what the two have in common, and leaves the rest open:                  *)
(*  - what Remove returns for a string that is no key but begins one;      *)
(*  - whether a key that others extend is forgotten when it is removed;    *)
(*  - whether a key goes with the last one that extends it.                *)
(* A GetValue that succeeds delivers the value it found, provided that the *)
(* key was not forgotten between the lookup and the delivery.              *)
(***************************************************************************)
EXTENDS Naturals, Sequences, Functions

CONSTANTS Keys,      \* the strings used as keys, the empty one included
          Types,     \* the template arguments T
          Values,    \* the payloads of a type
          Garbage,   \* what a read of released memory delivers
          Threads,   \* the callers
          None       \* no result, no lookup in progress

VARIABLES map,       \* the stored keys, each with <<type, payload>>
          found,     \* for every thread, the key and value its GetValue found
          ret        \* the outcome of the last call that returned

vars == <<map, found, ret>>

Stored == Types \X Values

Init == map = [key \in {} |-> None] /\ found = [t \in Threads |-> None] /\ ret = None

Insert(t, key, v) ==
  /\ found[t] = None
  /\ LET new == key # <<>> /\ key \notin DOMAIN map IN
     /\ map' = IF new THEN [k \in DOMAIN map \cup {key} |-> IF k = key THEN v ELSE map[k]] ELSE map
     /\ ret' = <<"Insert", new>>
  /\ UNCHANGED found

IsPrefix(p, q) == Len(p) <= Len(q) /\ \A i \in 1..Len(p) : p[i] = q[i]

\* The stored keys that begin key and that only such keys extend, key included
\* if no longer one is stored.
Ending(key) ==
  {p \in DOMAIN map : /\ IsPrefix(p, key)
                      /\ \A q \in DOMAIN map : IsPrefix(p, q) => IsPrefix(q, key)}

\* What Remove(key) may return: true for a stored key, false for the empty string
\* and for one that no stored key begins with.
Outcomes(key) ==
  {ok \in BOOLEAN : /\ key \in DOMAIN map => ok
                    /\ ok => key # <<>> /\ \E q \in DOMAIN map : IsPrefix(key, q)}

\* What a Remove(key) that returns ok may forget: key, which must go if it ends
\* its path, and keys that end with it; no other key in any case.
Losses(key, ok) ==
  {gone \in SUBSET (Ending(key) \cup ({key} \cap DOMAIN map)) :
     IF ok THEN Ending(key) \cap {key} \subseteq gone ELSE gone = {}}

Remove(t, key) ==
  /\ found[t] = None
  /\ \E ok \in Outcomes(key) : \E gone \in Losses(key, ok) :
     /\ map' = Restrict(map, DOMAIN map \ gone)
     /\ found' = [u \in Threads |-> IF found[u] # None /\ found[u].key \in gone
                                      THEN [found[u] EXCEPT !.lost = TRUE]
                                      ELSE found[u]]
     /\ ret' = <<"Remove", ok>>

Lookup(t, key, type) ==
  /\ found[t] = None
  /\ IF key \in DOMAIN map /\ map[key][1] = type
       THEN /\ found' = [found EXCEPT ![t] = [key |-> key, value |-> map[key], lost |-> FALSE]]
            /\ UNCHANGED ret
       ELSE ret' = <<"GetValue", FALSE>> /\ UNCHANGED found
  /\ UNCHANGED map

Deliver(t) ==
  /\ found[t] # None
  /\ \E v \in IF found[t].lost THEN {Garbage} \cup Stored ELSE {found[t].value} :
       ret' = <<"GetValue", TRUE, v>>
  /\ found' = [found EXCEPT ![t] = None]
  /\ UNCHANGED map

Next ==
  \E t \in Threads :
    \/ \E key \in Keys : \/ \E v \in Stored : Insert(t, key, v)
                         \/ Remove(t, key)
                         \/ \E type \in Types : Lookup(t, key, type)
    \/ Deliver(t)

Spec == Init /\ [][Next]_vars
=============================================================================
