------------------------------- MODULE Trie -------------------------------
(***************************************************************************)
(* The concurrent trie of include/primer/p0_trie.h.  A node is identified  *)
(* by the characters on its path from the root; the children_ map of a     *)
(* node is the set of nodes one character further down, so erasing a child *)
(* releases the subtree below it.  Insert and Remove hold the write latch  *)
(* from their first access to their last one: each is one step.  GetValue  *)
(* finds the terminal node under the read latch, releases the latch, and   *)
(* only then reads the node: two steps.                                    *)
(***************************************************************************)
EXTENDS Naturals, Sequences, Functions

CONSTANTS Chars, Keys, Types, Values, Garbage, Threads, None

ASSUME KeysAreStrings == Keys \subseteq Seq(Chars)

VARIABLES nodes,     \* root_: the node at every path
          flag_node, \* for every thread between RUnlock and the read: its node
          ret        \* the outcome of the last call that returned

vars == <<nodes, flag_node, ret>>

Stored == Types \X Values

\* None is neither a value nor what a lookup in progress is recorded as.
ASSUME NoneAssumption ==
  /\ None \notin Stored
  /\ \A key \in Keys, v \in Stored, gone \in BOOLEAN :
       /\ None # [path |-> key, value |-> v, freed |-> gone]
       /\ None # [key |-> key, value |-> v, lost |-> gone]

\* The first n characters of a key; a string that another one begins with.
Upto(key, n) == SubSeq(key, 1, n)

IsPrefix(p, q) == Len(p) <= Len(q) /\ \A i \in 1..Len(p) : p[i] = q[i]

\* The two node classes: TrieNode has no value, TrieNodeWithValue has is_end_ set.
TrieNode == [is_end |-> FALSE, value |-> None]

TrieNodeWithValue(v) == [is_end |-> TRUE, value |-> v]

HasChild(ns, p, c) == Append(p, c) \in DOMAIN ns

HasChildren(ns, p) == \E c \in Chars : HasChild(ns, p, c)

\* The nodes with one more of them, or another one, at the path p.
WithNode(ns, p, node) == [q \in DOMAIN ns \cup {p} |-> IF q = p THEN node ELSE ns[q]]

InsertChildNode(ns, p, c, node) ==
  IF HasChild(ns, p, c) THEN ns ELSE WithNode(ns, Append(p, c), node)

RemoveChildNode(ns, p, c) ==
  Restrict(ns, {q \in DOMAIN ns : ~IsPrefix(Append(p, c), q)})

\* The walk of Insert: every missing node before the last character is created.
WalkCreating(ns, key) ==
  LET upto[n \in 0..Len(key)] ==
        IF n = 0 THEN ns
        ELSE InsertChildNode(upto[n-1], Upto(key, n-1), key[n], TrieNode)
  IN  upto[Len(key) - 1]

UnwindAlways(ns, p, c) == \* (mutant) a node goes whatever hangs below it
  FALSE

\* The second loop of Remove: from the last character up, the child goes unless
\* it has children.
UnwindTest(ns, p, c) == HasChildren(ns, Append(p, c))

UnwindOnce(ns, key) == \* (mutant) only the terminal node is considered
  LET p == Upto(key, Len(key) - 1) IN
  IF UnwindTest(ns, p, key[Len(key)]) THEN ns ELSE RemoveChildNode(ns, p, key[Len(key)])

Unwind(ns, key) ==
  LET from[n \in 1..Len(key)+1] ==
        IF n > Len(key) THEN ns
        ELSE LET p == Upto(key, n-1) IN
             IF UnwindTest(from[n+1], p, key[n]) THEN from[n+1]
             ELSE RemoveChildNode(from[n+1], p, key[n])
  IN  from[1]

-----------------------------------------------------------------------------

Init ==
  /\ nodes = [p \in {<<>>} |-> TrieNode]
  /\ flag_node = [t \in Threads |-> None]
  /\ ret = None

Insert(t, key, v) ==
  /\ flag_node[t] = None
  /\ LET walked == WalkCreating(nodes, key)
         new == key # <<>> /\ ~(key \in DOMAIN walked /\ walked[key].is_end) IN
     /\ nodes' = IF new THEN WithNode(walked, key, TrieNodeWithValue(v))
                 ELSE IF key = <<>> THEN nodes ELSE walked
     /\ ret' = <<"Insert", new>>
  /\ UNCHANGED flag_node

\* Remove finds the whole path or gives up; then it unwinds.  A thread whose
\* node is released on the way is left with a dangling pointer.
Remove(t, key) ==
  /\ flag_node[t] = None
  /\ LET ok == key # <<>> /\ key \in DOMAIN nodes
         rest == IF ok THEN Unwind(nodes, key) ELSE nodes IN
     /\ nodes' = rest
     /\ flag_node' = [u \in Threads |->
                        IF flag_node[u] # None /\ flag_node[u].path \notin DOMAIN rest
                          THEN [flag_node[u] EXCEPT !.freed = TRUE] ELSE flag_node[u]]
     /\ ret' = <<"Remove", ok>>

\* GetValue<T> up to RUnlock: the path must exist, end a key, and hold a T.
GetValueFind(t, key, type) ==
  /\ flag_node[t] = None
  /\ IF key # <<>> /\ key \in DOMAIN nodes /\ nodes[key].is_end /\ nodes[key].value[1] = type
       THEN /\ flag_node' = [flag_node EXCEPT ![t] =
                               [path |-> key, value |-> nodes[key].value, freed |-> FALSE]]
            /\ UNCHANGED ret
       ELSE ret' = <<"GetValue", FALSE>> /\ UNCHANGED flag_node
  /\ UNCHANGED nodes

\* `return flag_node->GetValue()' without the latch.  The memory of a released
\* node may hold anything, another node's value included.
GetValueRead(t) ==
  /\ flag_node[t] # None
  /\ \E v \in IF flag_node[t].freed THEN {Garbage} \cup Stored ELSE {flag_node[t].value} :
       ret' = <<"GetValue", TRUE, v>>
  /\ flag_node' = [flag_node EXCEPT ![t] = None]
  /\ UNCHANGED nodes

Next ==
  \E t \in Threads :
    \/ \E key \in Keys : \/ \E v \in Stored : Insert(t, key, v)
                         \/ Remove(t, key)
                         \/ \E type \in Types : GetValueFind(t, key, type)
    \/ GetValueRead(t)

Spec == Init /\ [][Next]_vars

-----------------------------------------------------------------------------

(* No garbage: every node but the root hangs below its parent, is a        *)
(* TrieNodeWithValue exactly when it is terminal, and lies on the path of  *)
(* some key (p0_trie.h: Remove should also remove nodes that are no longer *)
(* part of another key).                                                   *)
TrieWellFormed ==
  \A p \in DOMAIN nodes \ {<<>>} :
    /\ Upto(p, Len(p) - 1) \in DOMAIN nodes
    /\ nodes[p].is_end <=> nodes[p].value \in Stored
    /\ nodes[p].is_end \/ HasChildren(nodes, p)

(* A GetValue that has found its node reads it while it is still a node of *)
(* the trie (the class comment calls Trie a concurrent key-value store).   *)
ReadsLiveNodes == \A t \in Threads : flag_node[t] # None => ~flag_node[t].freed

Ends == {p \in DOMAIN nodes : nodes[p].is_end}

(* Remove takes away the key it is given and no other, and returns whether *)
(* the key was there (p0_trie.h:345-356: "True if the key exists and is    *)
(* removed, false otherwise", and nodes that are the "terminal node of     *)
(* another key" stay).  The code does not keep it: its loop looks at       *)
(* HasChildren() alone.                                                    *)
RemovesItsKeyOnly ==
  [][\A t \in Threads, key \in Keys :
       Remove(t, key) => ret' = <<"Remove", key \in Ends>> /\ Ends' = Ends \ {key}]_vars

\* The map that the nodes stand for, and the lookups in progress.
StoredMap == [p \in Ends |-> nodes[p].value]

FoundOf(flag) ==
  IF flag = None THEN None ELSE [key |-> flag.path, value |-> flag.value, lost |-> flag.freed]

Found == [t \in Threads |-> FoundOf(flag_node[t])]

Promise == INSTANCE PrefixMap WITH map <- StoredMap, found <- Found

(* Insert, Remove and GetValue act on the nodes as PrefixMap says they act *)
(* on the map: nothing is overwritten, Remove forgets the key it is given  *)
(* when no longer one is stored, and never another key that has extensions *)
(* off the path of its argument; GetValue finds what is stored.            *)
ImplementsPromise == Promise!Spec
=============================================================================
