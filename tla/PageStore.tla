----------------------------- MODULE PageStore ------------------------------
(***************************************************************************)
(* What the buffer pool promises its callers, whatever the number of       *)
(* frames and whatever is evicted: a page is a cell that is created zeroed,*)
(* is read and written by the threads that have pinned it, keeps its       *)
(* content while nobody does, and exists until it is deleted.  Its callers *)
(* (B+ tree, table heap) rely on nothing else.                             *)
(***************************************************************************)
EXTENDS Integers

CONSTANTS
  Threads,
  PageIds,   \* page_id_t values that can be allocated
  Contents,  \* contents of a page
  Zeroed     \* the content of a page of zero bytes

VARIABLES
  live,     \* the pages created and not deleted
  content,  \* the content of each live page
  pins      \* pairs <<thread, page>>

vars == <<live, content, pins>>

Init ==
  /\ live = {}
  /\ content = [p \in PageIds |-> Zeroed]
  /\ pins = {}

PinnedBy(p) == {t \in Threads : <<t, p>> \in pins}

New(t, p) ==
  /\ p \notin live
  /\ content[p] = Zeroed
  /\ live' = live \union {p}
  /\ pins' = pins \union {<<t, p>>}
  /\ UNCHANGED content

Fetch(t, p) ==
  /\ p \in live
  /\ pins' = pins \union {<<t, p>>}
  /\ UNCHANGED <<live, content>>

Write(t, p, c) ==
  /\ <<t, p>> \in pins
  /\ content' = [content EXCEPT ![p] = c]
  /\ UNCHANGED <<live, pins>>

Unpin(t, p) ==
  /\ <<t, p>> \in pins
  /\ pins' = pins \ {<<t, p>>}
  /\ UNCHANGED <<live, content>>

\* The content of a deleted page is nobody's business.
Delete(p) ==
  /\ p \in live
  /\ PinnedBy(p) = {}
  /\ live' = live \ {p}
  /\ content' = [content EXCEPT ![p] = Zeroed]
  /\ UNCHANGED pins

Next ==
  \E p \in PageIds :
    \/ Delete(p)
    \/ \E t \in Threads :
         \/ New(t, p)
         \/ Fetch(t, p)
         \/ Unpin(t, p)
         \/ \E c \in Contents : Write(t, p, c)

Spec == Init /\ [][Next]_vars

=============================================================================
