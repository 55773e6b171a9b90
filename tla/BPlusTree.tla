----------------------------- MODULE BPlusTree -----------------------------
(***************************************************************************)
(* Threads that look up, insert, remove and scan in one B+ tree, holding   *)
(* page latches hand over hand (storage/index/b_plus_tree.cpp,             *)
(* storage/index/index_iterator.cpp).                                      *)
(*                                                                         *)
(* A step of a thread ends where it may have to wait for a latch, or where *)
(* it reads or writes without one.  What a thread does to pages it has     *)
(* write-latched is one step: nobody else can look.                        *)
(***************************************************************************)
EXTENDS BPlusTreePages

CONSTANTS
  Finders, Inserters, Removers,   \* threads, by the operations they call
  Scanners,                       \* threads that scan from Begin()
  KeyScanners,                    \* threads that scan from Begin(key)
  Prefill, PrefillLate,           \* keys inserted, in this order, before the threads start
  MaxOps                          \* operations a thread performs

ASSUME CallersAssumption == Prefill \cup PrefillLate \subseteq Keys /\ MaxOps \in Nat

Threads == Finders \cup Inserters \cup Removers \cup Scanners \cup KeyScanners

ROOT == 0  \* the latch root_page_id_latch_; every other latch is a page's

VARIABLES
  tree,
  th,       \* what each thread is doing
  wlatch,   \* latches each thread holds in write mode
  ops,      \* operations each thread has started
  res,      \* result of each thread's last operation
  present   \* for each thread that reads: the keys that were in the tree at
            \* some time (may) and at all times (must) since it started

vars == <<tree, th, wlatch, ops, res, present>>

\*   page  the page it has latched last and walks on from
\*   want  the page it has pinned and waits to latch
\*   node  the page CoalesceOrRedistribute looks at
\*   dels  the transaction's deleted page set
\*   idx   the iterator's position, out the keys the scan has returned
Idle == [pc |-> "idle", op |-> "none", key |-> 0, page |-> INVALID, want |-> INVALID,
         node |-> INVALID, dels |-> {}, idx |-> 0, out |-> << >>]

\* FindLeaf begins: the root page is pinned.
AtRoot(op, key, root) == [Idle EXCEPT !.pc = "latch", !.op = op, !.key = key, !.want = root]

NoResult == [op |-> "none", key |-> 0, ok |-> FALSE, out |-> << >>]

Reads == {"find", "scan", "scan_from"}

\* Mutant: the parent is let go before the child is latched.
RLatchesLetGoEarly(t) ==
  IF th[t].op \in Reads /\ th[t].page # INVALID /\ th[t].want = INVALID THEN {th[t].page} ELSE {}

RLatches(t) == IF th[t].op \in Reads /\ th[t].page # INVALID THEN {th[t].page} ELSE {}

CanWLatch(t, l) == \A u \in Threads \ {t} : l \notin wlatch[u] \cup RLatches(u)
CanRLatch(t, l) == \A u \in Threads \ {t} : l \notin wlatch[u]

Pinned(p) == \E t \in Threads : p \in {th[t].page, th[t].want}

-----------------------------------------------------------------------------

Init ==
  /\ tree = Filled(Filled(EmptyTree, Prefill), PrefillLate)
  /\ th = [t \in Threads |-> Idle]
  /\ wlatch = [t \in Threads |-> {}]
  /\ ops = [t \in Threads |-> 0]
  /\ res = [t \in Threads |-> NoResult]
  /\ present = [t \in Threads |-> [must |-> {}, may |-> {}]]

MayStart(t) == th[t].pc = "idle" /\ ops[t] < MaxOps

\* Which keys the operation of t is answerable for.
Scope(t) == IF th[t].op = "find" THEN {th[t].key} ELSE IF th[t].op \in Reads THEN Keys ELSE {}

\* Ghost bookkeeping, a conjunct of every step: it constrains nothing else.
Witness ==
  present' = [t \in Threads |->
    LET now == Contents(tree') \cap Scope(t)' IN
      IF th'[t].op \notin Reads THEN [must |-> {}, may |-> {}]
      ELSE IF th[t].op = "none"
           THEN [must |-> Contents(tree) \cap now, may |-> (Contents(tree) \cap Scope(t)') \cup now]
           ELSE [must |-> present[t].must \cap now, may |-> present[t].may \cup now]]

Return(t, result) ==
  /\ th' = [th EXCEPT ![t] = Idle]
  /\ res' = [res EXCEPT ![t] = result]

Result(t, ok) == [op |-> th[t].op, key |-> th[t].key, ok |-> ok, out |-> th[t].out]

\* The operation ends in an assertion that fails or a read of a page that is
\* no longer one of the tree's.
Broken(key) == [op |-> "broken", key |-> key, ok |-> FALSE, out |-> << >>]

-----------------------------------------------------------------------------
(* Searching *)

\* FindLeaf(SEARCH) up to RUnlock: the root latch is taken and given back, and
\* the page that is the root at this moment is pinned but not latched.
FetchRoot(t, op, key) ==
  /\ CanRLatch(t, ROOT)
  /\ IF tree.root = INVALID
     THEN /\ th' = [th EXCEPT ![t] = Idle]
          /\ res' = [res EXCEPT ![t] = Broken(key)]
     ELSE /\ th' = [th EXCEPT ![t] = AtRoot(op, key, tree.root)]
          /\ res' = [res EXCEPT ![t] = NoResult]
  /\ UNCHANGED <<tree, wlatch>>

GetValue(t, key) ==
  /\ MayStart(t)
  /\ FetchRoot(t, "find", key)
  /\ ops' = [ops EXCEPT ![t] = @ + 1]

\* Begin reads root_page_id_ before it takes the latch.
Begin(t, op, key) ==
  /\ MayStart(t)
  /\ IF tree.root = INVALID
     THEN /\ th' = th
          /\ res' = [res EXCEPT ![t] = [op |-> op, key |-> key, ok |-> TRUE, out |-> << >>]]
     ELSE /\ th' = [th EXCEPT ![t] = [Idle EXCEPT !.pc = "begin", !.op = op, !.key = key]]
          /\ res' = [res EXCEPT ![t] = NoResult]
  /\ ops' = [ops EXCEPT ![t] = @ + 1]
  /\ UNCHANGED <<tree, wlatch>>

BeginFetch(t) ==
  /\ th[t].pc = "begin"
  /\ FetchRoot(t, th[t].op, th[t].key)
  /\ UNCHANGED ops

\* The child FindLeaf goes to.
ChildFor(t, node) == IF th[t].op = "scan" THEN node.array[1][2] ELSE Lookup(node, th[t].key)

\* Only a page that left the tree has no entry to follow.
IsGone(node) == node.type = "none" \/ (~IsLeaf(node) /\ Size(node) = 0)

\* The page waited for is latched; if it is internal its child is pinned next.
\* kept are the write latches that remain.
Arrive(t, kept) ==
  LET node == tree.nodes[th[t].want]
  IN  /\ wlatch' = [wlatch EXCEPT ![t] = kept]
      /\ IF IsGone(node)
         THEN Return(t, Broken(th[t].key))
         ELSE /\ th' = [th EXCEPT
                   ![t].page = th[t].want,
                   ![t].want = IF IsLeaf(node) THEN INVALID ELSE ChildFor(t, node),
                   ![t].pc = IF IsLeaf(node) THEN "leaf" ELSE "latch"]
              /\ UNCHANGED res
      /\ UNCHANGED <<tree, ops>>

LatchRead(t) ==
  /\ th[t].pc = "latch" /\ th[t].op \in Reads
  /\ CanRLatch(t, th[t].want)
  /\ Arrive(t, {})

FindInLeaf(t) ==
  /\ th[t].pc = "leaf" /\ th[t].op = "find"
  /\ Return(t, Result(t, HasKey(tree.nodes[th[t].page], th[t].key)))
  /\ UNCHANGED <<tree, wlatch, ops>>

-----------------------------------------------------------------------------
(* Scanning: for (it = Begin(...); !it.IsEnd(); ++it) use *it *)

\* The iterator is made: it holds the leaf's read latch until it moves on.
MakeIterator(t) ==
  /\ th[t].pc = "leaf" /\ th[t].op \in {"scan", "scan_from"}
  /\ th' = [th EXCEPT
       ![t].pc = "scan",
       ![t].idx = IF th[t].op = "scan" THEN 1 ELSE KeyIndex(tree.nodes[th[t].page], th[t].key)]
  /\ UNCHANGED <<tree, wlatch, ops, res>>

IsEnd(t) ==
  LET leaf == tree.nodes[th[t].page] IN leaf.next = INVALID /\ th[t].idx = Size(leaf) + 1

EndScan(t) ==
  /\ th[t].pc = "scan"
  /\ IsEnd(t)
  /\ Return(t, Result(t, TRUE))
  /\ UNCHANGED <<tree, wlatch, ops>>

\* operator* and operator++: the next leaf is latched before this one is let go.
Advance(t) ==
  LET leaf == tree.nodes[th[t].page]
      last == th[t].idx = Size(leaf) /\ leaf.next # INVALID
  IN  /\ th[t].pc = "scan"
      /\ ~IsEnd(t)
      /\ th[t].idx <= Size(leaf)
      /\ last => CanRLatch(t, leaf.next)
      /\ th' = [th EXCEPT
           ![t].out = Append(@, leaf.array[th[t].idx][1]),
           ![t].page = IF last THEN leaf.next ELSE @,
           ![t].idx = IF last THEN 1 ELSE @ + 1]
      /\ UNCHANGED <<tree, wlatch, ops, res>>

\* operator* past the last entry: whatever the page holds there.
ReadPastEnd(t) ==
  /\ th[t].pc = "scan"
  /\ ~IsEnd(t)
  /\ th[t].idx > Size(tree.nodes[th[t].page])
  /\ Return(t, Broken(th[t].key))
  /\ UNCHANGED <<tree, wlatch, ops>>

-----------------------------------------------------------------------------
(* Inserting and removing *)

EnterInsert(t, key) ==
  /\ MayStart(t)
  /\ CanWLatch(t, ROOT)
  /\ ops' = [ops EXCEPT ![t] = @ + 1]
  /\ IF tree.root = INVALID
     THEN /\ tree' = StartNewTree(tree, key)
          /\ res' = [res EXCEPT ![t] = [op |-> "insert", key |-> key, ok |-> TRUE, out |-> << >>]]
          /\ UNCHANGED <<th, wlatch>>
     ELSE /\ th' = [th EXCEPT ![t] = AtRoot("insert", key, tree.root)]
          /\ wlatch' = [wlatch EXCEPT ![t] = {ROOT}]
          /\ res' = [res EXCEPT ![t] = NoResult]
          /\ UNCHANGED tree

EnterRemove(t, key) ==
  /\ MayStart(t)
  /\ CanWLatch(t, ROOT)
  /\ ops' = [ops EXCEPT ![t] = @ + 1]
  /\ IF tree.root = INVALID
     THEN /\ res' = [res EXCEPT ![t] = [op |-> "remove", key |-> key, ok |-> FALSE, out |-> << >>]]
          /\ UNCHANGED <<th, wlatch>>
     ELSE /\ th' = [th EXCEPT ![t] = AtRoot("remove", key, tree.root)]
          /\ wlatch' = [wlatch EXCEPT ![t] = {ROOT}]
          /\ res' = [res EXCEPT ![t] = NoResult]
  /\ UNCHANGED tree

\* Mutant: a leaf is split when it is about to be full.
InsertSafeOffByOne(node) == Size(node) < GetMaxSize(node)

\* The change below cannot reach above this page.
InsertSafe(node) ==
  IF IsLeaf(node) THEN Size(node) < GetMaxSize(node) - 1 ELSE Size(node) < GetMaxSize(node)

RemoveSafe(node, isroot) == IF isroot THEN Size(node) > 2 ELSE Size(node) > GetMinSize(node)

Safe(t, node) ==
  IF th[t].op = "insert" THEN InsertSafe(node) ELSE RemoveSafe(node, th[t].page = INVALID)

LatchWrite(t) ==
  LET page == th[t].want
  IN  /\ th[t].pc = "latch" /\ th[t].op \in {"insert", "remove"}
      /\ CanWLatch(t, page)
      /\ Arrive(t, IF Safe(t, tree.nodes[page]) THEN {page} ELSE wlatch[t] \cup {page})

\* Mutant: the duplicate-key return keeps its latches.
InsertInLeafKeepsLatches(t) ==
  LET leaf == th[t].page
      found == HasKey(tree.nodes[leaf], th[t].key)
  IN  /\ th[t].pc = "leaf" /\ th[t].op = "insert"
      /\ tree' = IF found THEN tree ELSE InsertIntoLeaf(tree, leaf, th[t].key)
      /\ wlatch' = IF found THEN wlatch ELSE [wlatch EXCEPT ![t] = {}]
      /\ Return(t, Result(t, ~found))
      /\ UNCHANGED ops

InsertInLeaf(t) ==
  LET leaf == th[t].page
      found == HasKey(tree.nodes[leaf], th[t].key)
  IN  /\ th[t].pc = "leaf" /\ th[t].op = "insert"
      /\ tree' = IF found THEN tree ELSE InsertIntoLeaf(tree, leaf, th[t].key)
      /\ wlatch' = [wlatch EXCEPT ![t] = {}]
      /\ Return(t, Result(t, ~found))
      /\ UNCHANGED ops

RemoveInLeaf(t) ==
  LET leaf == th[t].page
  IN  /\ th[t].pc = "leaf" /\ th[t].op = "remove"
      /\ IF HasKey(tree.nodes[leaf], th[t].key)
         THEN /\ tree' = RemoveFromLeaf(tree, leaf, th[t].key)
              /\ th' = [th EXCEPT ![t].pc = "fix", ![t].node = leaf]
              /\ res' = [res EXCEPT ![t] = Result(t, TRUE)]
              /\ UNCHANGED wlatch
         ELSE /\ Return(t, Result(t, FALSE))
              /\ wlatch' = [wlatch EXCEPT ![t] = {}]
              /\ UNCHANGED tree
      /\ UNCHANGED ops

\* Every latch is released; the pages in dels are deleted after that.
Release(t, dels) ==
  /\ wlatch' = [wlatch EXCEPT ![t] = {}]
  /\ th' = [th EXCEPT ![t] =
       IF dels = {} THEN Idle ELSE [Idle EXCEPT !.pc = "purge", !.op = "remove", !.dels = dels]]

\* Mutants: the old root is never deleted, or always.
FixRootKeeps(t) ==
  /\ th[t].pc = "fix" /\ IsRoot(tree.nodes[th[t].node])
  /\ tree' = AdjustRoot(tree)
  /\ Release(t, th[t].dels)
  /\ UNCHANGED <<ops, res>>

\* CoalesceOrRedistribute at a page that needs no sibling.
FixRoot(t) ==
  LET root == th[t].node
  IN  /\ th[t].pc = "fix" /\ IsRoot(tree.nodes[root])
      /\ tree' = AdjustRoot(tree)
      /\ Release(t, th[t].dels \cup IF tree'.root = root THEN {} ELSE {root})
      /\ UNCHANGED <<ops, res>>

FixNothing(t) ==
  LET node == tree.nodes[th[t].node]
  IN  /\ th[t].pc = "fix" /\ ~IsRoot(node) /\ Size(node) >= GetMinSize(node)
      /\ Release(t, th[t].dels)
      /\ UNCHANGED <<tree, ops, res>>

\* At any other page: the left sibling, or the right one of a first child, is
\* latched; it gives an entry if it can spare one, else the two become one.
FixWithSibling(t) ==
  LET p == th[t].node
      parent == tree.nodes[p].parent
      above == tree.nodes[parent].array
      i == ValueIndex(tree.nodes[parent], p)
      from_prev == i > 1
      sibling == above[IF from_prev THEN i - 1 ELSE i + 1][2]
      left == IF from_prev THEN sibling ELSE p
      right == IF from_prev THEN p ELSE sibling
      at == IF from_prev THEN i ELSE i + 1
  IN  /\ th[t].pc = "fix" /\ ~IsRoot(tree.nodes[p]) /\ Size(tree.nodes[p]) < GetMinSize(tree.nodes[p])
      /\ CanWLatch(t, sibling)
      /\ IF Size(tree.nodes[sibling]) > GetMinSize(tree.nodes[sibling])
         THEN /\ tree' = IF from_prev THEN MoveLastToFrontOf(tree, left, right, parent, at)
                         ELSE MoveFirstToEndOf(tree, left, right, parent, at)
              /\ Release(t, th[t].dels)
         ELSE /\ tree' = Coalesce(tree, left, right, parent, at)
              /\ wlatch' = [wlatch EXCEPT ![t] = @ \cup {sibling}]
              /\ th' = [th EXCEPT ![t].node = parent, ![t].dels = @ \cup {right}]
      /\ UNCHANGED <<ops, res>>

\* DeletePage for each page of the deleted page set; it refuses a page that
\* somebody has pinned, and Remove does not look at what it returns.
Purge(t) ==
  /\ th[t].pc = "purge"
  /\ tree' = [tree EXCEPT !.nodes = [p \in PageIds |-> IF p \in th[t].dels /\ ~Pinned(p) THEN NoPage ELSE @[p]]]
  /\ th' = [th EXCEPT ![t] = Idle]
  /\ UNCHANGED <<wlatch, ops, res>>

-----------------------------------------------------------------------------

Start(t) ==
  \/ \E key \in Keys : \/ t \in Finders /\ GetValue(t, key)
                       \/ t \in Inserters /\ EnterInsert(t, key)
                       \/ t \in Removers /\ EnterRemove(t, key)
                       \/ t \in KeyScanners /\ Begin(t, "scan_from", key)
  \/ t \in Scanners /\ Begin(t, "scan", 0)

Continue(t) ==
  \/ BeginFetch(t) \/ LatchRead(t) \/ FindInLeaf(t)
  \/ MakeIterator(t) \/ Advance(t) \/ ReadPastEnd(t) \/ EndScan(t)
  \/ LatchWrite(t) \/ InsertInLeaf(t) \/ RemoveInLeaf(t)
  \/ FixRoot(t) \/ FixNothing(t) \/ FixWithSibling(t) \/ Purge(t)

Next == (\E t \in Threads : Start(t) \/ Continue(t)) /\ Witness

\* A thread that can take its next step does so: threads are scheduled, and a
\* latch that is free is granted.
Spec == Init /\ [][Next]_vars /\ \A t \in Threads : WF_vars(Continue(t) /\ Witness)

-----------------------------------------------------------------------------
(* Properties *)

Fixing == \E t \in Threads : th[t].pc = "fix"

\* Whenever no Remove is between deleting its record and repairing the tree:
\* pages are within their minimum and maximum sizes, parents and the leaf
\* chain are right, all leaves are equally deep, and every key is in the leaf
\* a search for it ends in (Insert, Split, CoalesceOrRedistribute, AdjustRoot);
\* the page ids of the model suffice.
TreeWellFormed == tree.next_page_id <= MaxPages + 1 /\ (~Fixing => WellFormed(tree))

\* Insert and Remove take effect at one moment with the right answer, with
\* any other operation in progress (latch crabbing in FindLeaf).
Index == INSTANCE OrderedIndex WITH keys <- Contents(tree), Prefill <- Prefill \cup PrefillLate
ImplementsIndex == Index!Spec

Moves(t) == th'[t] # th[t] \/ ops'[t] # ops[t]
Rewritten(p) ==
  \/ tree'.nodes[p].array # tree.nodes[p].array
  \/ tree'.nodes[p].next # tree.nodes[p].next

\* A page's entries and links, and root_page_id_, change only while no other
\* thread has the page, or the root latch, latched in any mode: no step of
\* Insert or Remove reaches a page whose latch FindLeaf let go too early.
\* (Parent page ids are left out: Split and Coalesce write them in children
\* they have not latched.)
ChangesAreLatched ==
  [][\A t, u \in Threads : Moves(t) /\ u # t =>
       /\ \A p \in wlatch[u] \cup RLatches(u) : p # ROOT => ~Rewritten(p)
       /\ ROOT \in wlatch[u] => tree'.root = tree.root]_vars

Finished(t, op) == th[t].op = op /\ th[t].pc # "idle" /\ res'[t].op = op /\ th'[t].pc = "idle"

\* GetValue answers true only for a key that was in the tree at some moment of
\* the call, and false only for one that was absent at some moment.
ReadsLinearizable ==
  [][\A t \in Threads : Finished(t, "find") =>
       IF res'[t].ok THEN th[t].key \in present[t].may ELSE th[t].key \notin present[t].must]_vars

\* A scan from Begin() returns keys in ascending order, every key that was
\* there during the whole scan, and no key that never was (operator++).
ScansComplete ==
  [][\A t \in Threads : Finished(t, "scan") =>
       LET out == res'[t].out
           keys == {out[i] : i \in DOMAIN out}
       IN  /\ Ascending(out)
           /\ present[t].must \subseteq keys
           /\ keys \subseteq present[t].may]_vars

\* No operation comes to a page that left the tree, and none reads past the
\* last entry of a page but a scan from a key that is larger than every key of
\* its leaf (FindLeaf, the deleted page set; Begin(key)).
NothingBroken ==
  [][\A t \in Threads : res'[t].op = "broken" /\ res[t].op # "broken" =>
       th[t].op = "scan_from" /\ th[t].pc = "scan"]_vars

\* When no Remove is at work, every page allocated for the tree and not
\* deleted is in the tree: none is leaked (Remove's deleted page set).
NoPageLeaks ==
  (\A t \in Threads : th[t].pc \notin {"fix", "purge"})
     => {p \in PageIds : tree.nodes[p].type # "none"} = Reachable(tree)

\* Every operation that starts ends.
OperationsEnd == \A t \in Threads : th[t].pc # "idle" ~> th[t].pc = "idle"

\* Threads never all wait for each other's latches: while an operation is in
\* progress, some thread can take its next step.
SomeoneCanMove == (\E t \in Threads : th[t].pc # "idle") => \E t \in Threads : ENABLED Continue(t)

=============================================================================
