--------------------------- MODULE BPlusTreePages ---------------------------
(***************************************************************************)
(* The pages of the B+ tree and what Insert and Remove do to them once     *)
(* their latches are held (storage/index/b_plus_tree.cpp and the leaf and  *)
(* internal pages).  A tree is a record:                                   *)
(*   nodes         the pages of the tree, a function from page ids         *)
(*   root          root_page_id_                                           *)
(*   next_page_id  the page id the next NewPage returns                    *)
(*   header        the root page id the header page records, INVALID for   *)
(*                 no record                                               *)
(* A page's array_ is a sequence of pairs <<key, value>>: array_[i] is     *)
(* array[i + 1].  In an internal page the value is a child; in a leaf it   *)
(* is the RID, which never parts from its key and is left out (0).         *)
(* Size is the sequence's length.                                          *)
(***************************************************************************)
EXTENDS Integers, Sequences, FiniteSets

CONSTANTS
  Keys,               \* integer keys
  leaf_max_size,
  internal_max_size,
  MaxPages            \* bound on the page ids allocated

\* The smallest sizes for which a split leaves no page empty and no internal
\* page with a single child.
ASSUME MaxSizesAssumption == leaf_max_size \in Nat /\ leaf_max_size >= 2
                             /\ internal_max_size \in Nat /\ internal_max_size >= 3
ASSUME KeysAssumption == Keys \subseteq Int /\ MaxPages \in Nat

INVALID == 0  \* INVALID_PAGE_ID; page 0 is the header page, never a node
PageIds == 1 .. MaxPages

LeafPage(parent, array, next) ==
  [type |-> "leaf", parent |-> parent, array |-> array, next |-> next]
InternalPage(parent, array) ==
  [type |-> "internal", parent |-> parent, array |-> array, next |-> INVALID]
NoPage == [type |-> "none", parent |-> INVALID, array |-> << >>, next |-> INVALID]

EmptyTree ==
  [nodes |-> [p \in PageIds |-> NoPage], root |-> INVALID, next_page_id |-> 1, header |-> INVALID]

-----------------------------------------------------------------------------

IsLeaf(node) == node.type = "leaf"
IsRoot(node) == node.parent = INVALID
Size(node) == Len(node.array)
GetMaxSize(node) == IF IsLeaf(node) THEN leaf_max_size ELSE internal_max_size
GetMinSize(node) == IF IsLeaf(node) THEN leaf_max_size \div 2 ELSE (internal_max_size + 1) \div 2

KeysOf(node) == {node.array[i][1] : i \in DOMAIN node.array}
ChildrenOf(node) == {node.array[i][2] : i \in DOMAIN node.array}

\* std::lower_bound from position "from": the first key that is not less.
LowerBound(array, from, key) ==
  CHOOSE i \in from .. Len(array) + 1 :
    /\ \A j \in from .. i - 1 : array[j][1] < key
    /\ i <= Len(array) => array[i][1] >= key

KeyIndex(node, key) == LowerBound(node.array, 1, key)

HasKey(node, key) ==
  LET i == KeyIndex(node, key) IN i <= Size(node) /\ node.array[i][1] = key

\* InternalPage::Lookup: the key of position 1 is not looked at.
Lookup(node, key) ==
  LET i == LowerBound(node.array, 2, key)
  IN  IF i > Size(node)
      THEN node.array[Size(node)][2]
      ELSE IF node.array[i][1] = key THEN node.array[i][2] ELSE node.array[i - 1][2]

ValueIndex(node, child) == CHOOSE i \in DOMAIN node.array : node.array[i][2] = child

InsertAt(array, i, pair) == SubSeq(array, 1, i - 1) \o <<pair>> \o SubSeq(array, i, Len(array))
RemoveAt(array, i) == SubSeq(array, 1, i - 1) \o SubSeq(array, i + 1, Len(array))
SetKeyAt(array, i, key) == [array EXCEPT ![i] = <<key, array[i][2]>>]

\* SetParentPageId for the children in a part of an array.
Reparent(nodes, array, parent) ==
  [p \in DOMAIN nodes |->
     IF \E i \in DOMAIN array : array[i][2] = p THEN [nodes[p] EXCEPT !.parent = parent] ELSE nodes[p]]

\* UpdateRootPageId(0): it changes a record that exists.  InsertRecord would
\* make one, but the only call, in StartNewTree, is commented out.
UpdateRootPageId(header, root) == IF header = INVALID THEN INVALID ELSE root

-----------------------------------------------------------------------------
(* Insert *)

StartNewTree(tree, key) ==
  [tree EXCEPT
     !.nodes[tree.next_page_id] = LeafPage(INVALID, <<<<key, 0>>>>, INVALID),
     !.root = tree.next_page_id,
     !.next_page_id = @ + 1]

PopulateNewRoot(tree, old, key, new) ==
  LET root == tree.next_page_id
  IN  [tree EXCEPT
         !.nodes = [Reparent(@, <<<<0, old>>, <<key, new>>>>, root) EXCEPT
                      ![root] = InternalPage(INVALID, <<<<0, old>>, <<key, new>>>>)],
         !.root = root,
         !.next_page_id = @ + 1,
         !.header = UpdateRootPageId(@, root)]

RECURSIVE InsertIntoParent(_, _, _, _)
InsertIntoParent(tree, old, key, new) ==
  IF IsRoot(tree.nodes[old])
  THEN PopulateNewRoot(tree, old, key, new)
  ELSE LET parent == tree.nodes[old].parent
           node == tree.nodes[parent]
           array == InsertAt(node.array, ValueIndex(node, old) + 1, <<key, new>>)
           half == GetMinSize(node)
           low == SubSeq(array, 1, half)
           high == SubSeq(array, half + 1, Len(array))
           sibling == tree.next_page_id
       IN  IF Size(node) < internal_max_size
           THEN [tree EXCEPT !.nodes[parent].array = array]
           ELSE InsertIntoParent(
                  [tree EXCEPT
                     !.nodes = [Reparent(@, high, sibling) EXCEPT
                                  ![parent] = InternalPage(node.parent, low),
                                  ![sibling] = InternalPage(node.parent, high)],
                     !.next_page_id = @ + 1],
                  parent, high[1][1], sibling)

\* InsertIntoLeaf, for a key that is not in the leaf.
InsertIntoLeaf(tree, leaf, key) ==
  LET node == tree.nodes[leaf]
      array == InsertAt(node.array, KeyIndex(node, key), <<key, 0>>)
      half == GetMinSize(node)
      new == tree.next_page_id
      high == SubSeq(array, half + 1, Len(array))
  IN  IF Len(array) < leaf_max_size
      THEN [tree EXCEPT !.nodes[leaf].array = array]
      ELSE InsertIntoParent(
             [tree EXCEPT
                !.nodes[leaf] = LeafPage(node.parent, SubSeq(array, 1, half), new),
                !.nodes[new] = LeafPage(node.parent, high, node.next),
                !.next_page_id = @ + 1],
             leaf, high[1][1], new)

-----------------------------------------------------------------------------
(* Remove *)

RemoveFromLeaf(tree, leaf, key) ==
  [tree EXCEPT !.nodes[leaf].array = RemoveAt(@, KeyIndex(tree.nodes[leaf], key))]

\* A root with one child gives way to that child, a root leaf without a record
\* to the empty tree.  The second leaves the header page alone.
AdjustRoot(tree) ==
  LET node == tree.nodes[tree.root]
      child == node.array[1][2]
  IN  IF ~IsLeaf(node) /\ Size(node) = 1
      THEN [tree EXCEPT !.nodes[child].parent = INVALID,
                        !.root = child,
                        !.header = UpdateRootPageId(@, child)]
      ELSE IF IsLeaf(node) /\ Size(node) = 0
           THEN [tree EXCEPT !.root = INVALID]
           ELSE tree

\* Redistribute with from_prev, i the position of right's entry in the parent:
\* the last entry of left moves to the front of right.
MoveLastToFrontOf(tree, left, right, parent, i) ==
  LET l == tree.nodes[left].array
      r == tree.nodes[right].array
      last == l[Len(l)]
      middle_key == tree.nodes[parent].array[i][1]
      shifted == IF IsLeaf(tree.nodes[right]) THEN r ELSE SetKeyAt(r, 1, middle_key)
      moved == [tree.nodes EXCEPT ![left].array = SubSeq(l, 1, Len(l) - 1),
                                  ![right].array = <<last>> \o shifted,
                                  ![parent].array = SetKeyAt(@, i, last[1])]
  IN  [tree EXCEPT !.nodes = IF IsLeaf(tree.nodes[right]) THEN moved ELSE Reparent(moved, <<last>>, right)]

\* Redistribute without from_prev: the first entry of right moves to the end
\* of left.  An internal page takes the parent's key down with it.
MoveFirstToEndOf(tree, left, right, parent, i) ==
  LET l == tree.nodes[left].array
      r == tree.nodes[right].array
      middle_key == tree.nodes[parent].array[i][1]
      first == IF IsLeaf(tree.nodes[left]) THEN r[1] ELSE <<middle_key, r[1][2]>>
      moved == [tree.nodes EXCEPT ![left].array = Append(l, first),
                                  ![right].array = Tail(r),
                                  ![parent].array = SetKeyAt(@, i, r[2][1])]
  IN  [tree EXCEPT !.nodes = IF IsLeaf(tree.nodes[left]) THEN moved ELSE Reparent(moved, <<first>>, left)]

\* Mutant: the leaf that stays is not linked onwards.
CoalesceUnlinked(tree, left, right, parent, i) ==
  LET r == tree.nodes[right].array
      leaf == IsLeaf(tree.nodes[right])
      items == IF leaf THEN r ELSE SetKeyAt(r, 1, tree.nodes[parent].array[i][1])
      moved == [tree.nodes EXCEPT ![left].array = @ \o items,
                                  ![right].array = << >>,
                                  ![parent].array = RemoveAt(@, i)]
  IN  [tree EXCEPT !.nodes = IF leaf THEN moved ELSE Reparent(moved, items, left)]

\* Coalesce: everything in right moves to the end of left, and right's entry,
\* at position i, leaves the parent.
Coalesce(tree, left, right, parent, i) ==
  LET r == tree.nodes[right].array
      middle_key == tree.nodes[parent].array[i][1]
      leaf == IsLeaf(tree.nodes[right])
      items == IF leaf THEN r ELSE SetKeyAt(r, 1, middle_key)
      moved == [tree.nodes EXCEPT ![left].array = @ \o items,
                                  ![left].next = IF leaf THEN tree.nodes[right].next ELSE @,
                                  ![right].array = << >>,
                                  ![parent].array = RemoveAt(@, i)]
  IN  [tree EXCEPT !.nodes = IF leaf THEN moved ELSE Reparent(moved, items, left)]

-----------------------------------------------------------------------------
(* What a tree holds *)

RECURSIVE Under(_, _)
\* The pages of the subtree at page p.
Under(tree, p) ==
  IF IsLeaf(tree.nodes[p]) THEN {p}
  ELSE {p} \cup UNION {Under(tree, c) : c \in ChildrenOf(tree.nodes[p])}

Reachable(tree) == IF tree.root = INVALID THEN {} ELSE Under(tree, tree.root)

\* The keys in the leaves that the root leads to.
Contents(tree) ==
  UNION {KeysOf(tree.nodes[p]) : p \in {q \in Reachable(tree) : IsLeaf(tree.nodes[q])}}

\* The leaf a search for a key ends in.
RECURSIVE LeafFor(_, _, _)
LeafFor(tree, p, key) ==
  IF IsLeaf(tree.nodes[p]) THEN p ELSE LeafFor(tree, Lookup(tree.nodes[p], key), key)

RECURSIVE Filled(_, _)
\* The tree after the keys of a set are inserted in ascending order.
Filled(tree, keys) ==
  IF keys = {} THEN tree
  ELSE LET key == CHOOSE k \in keys : \A l \in keys : l >= k
       IN  Filled(IF tree.root = INVALID
                  THEN StartNewTree(tree, key)
                  ELSE InsertIntoLeaf(tree, LeafFor(tree, tree.root, key), key),
                  keys \ {key})

-----------------------------------------------------------------------------
(* Well-formed trees *)

Ascending(keys) == \A i \in 1 .. Len(keys) - 1 : keys[i] < keys[i + 1]
KeySeq(array, from) == [i \in 1 .. Len(array) - from + 1 |-> array[i + from - 1][1]]

\* Every key of a leaf is found by the search that starts at the root.
KeysWhereSearchLooks(tree) ==
  \A p \in Reachable(tree) :
    IsLeaf(tree.nodes[p]) => \A k \in KeysOf(tree.nodes[p]) : LeafFor(tree, tree.root, k) = p

SizesInBounds(tree) ==
  \A p \in Reachable(tree) :
    LET node == tree.nodes[p]
    IN  /\ Size(node) <= IF IsLeaf(node) THEN leaf_max_size - 1 ELSE internal_max_size
        /\ Size(node) >= IF p = tree.root THEN (IF IsLeaf(node) THEN 1 ELSE 2) ELSE GetMinSize(node)

ParentsRight(tree) ==
  /\ tree.root # INVALID => tree.nodes[tree.root].parent = INVALID
  /\ \A p \in Reachable(tree) :
       ~IsLeaf(tree.nodes[p]) => \A c \in ChildrenOf(tree.nodes[p]) : tree.nodes[c].parent = p

RECURSIVE Leaves(_, _)
\* The leaves of a subtree from left to right.
Leaves(tree, p) ==
  LET array == tree.nodes[p].array
      Below[i \in 0 .. Len(array)] ==
        IF i = 0 THEN << >> ELSE Below[i - 1] \o Leaves(tree, array[i][2])
  IN  IF IsLeaf(tree.nodes[p]) THEN <<p>> ELSE Below[Len(array)]

\* next_page_id_ links the leaves from left to right, and the keys ascend
\* along the chain.
ChainRight(tree) ==
  tree.root # INVALID =>
    LET chain == Leaves(tree, tree.root)
        All[i \in 0 .. Len(chain)] ==
          IF i = 0 THEN << >> ELSE All[i - 1] \o KeySeq(tree.nodes[chain[i]].array, 1)
    IN  /\ \A i \in DOMAIN chain :
             tree.nodes[chain[i]].next = IF i = Len(chain) THEN INVALID ELSE chain[i + 1]
        /\ Ascending(All[Len(chain)])

RECURSIVE Depths(_, _)
Depths(tree, p) ==
  IF IsLeaf(tree.nodes[p]) THEN {0}
  ELSE {1 + d : d \in UNION {Depths(tree, c) : c \in ChildrenOf(tree.nodes[p])}}

Balanced(tree) == tree.root # INVALID => Cardinality(Depths(tree, tree.root)) = 1

WellFormed(tree) ==
  /\ SizesInBounds(tree)
  /\ ParentsRight(tree)
  /\ Balanced(tree)
  /\ ChainRight(tree)
  /\ KeysWhereSearchLooks(tree)

=============================================================================
