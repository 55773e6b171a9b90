----------------------------- MODULE BufferPool -----------------------------
(***************************************************************************)
(* BufferPoolManagerInstance (buffer/buffer_pool_manager_instance.cpp)     *)
(* over its LRU-K replacer, its page table and the disk, with the threads  *)
(* that call it.  Every method but FlushPage holds latch_ from its first   *)
(* line to its last and is one step; FlushPage holds nothing and is two:   *)
(* it looks the frame up, then writes what the frame then holds.           *)
(*                                                                         *)
(* page_table_ is an ExtendibleHashTable: here it is the map that class    *)
(* implements.  A page's bytes are one value.                              *)
(***************************************************************************)
EXTENDS LRUKReplacer

CONSTANTS
  Threads,
  Contents,       \* contents of a page
  Zeroed,         \* the content ResetMemory leaves
  MaxPages,       \* bound on the page ids allocated
  MaxAccesses,    \* bound on the recorded accesses of a resident page
  FlushUnpinned   \* callers may flush a page they have not pinned

ASSUME ThreadsAssumption == IsFiniteSet(Threads)
ASSUME ContentsAssumption == Zeroed \in Contents
ASSUME BoundsAssumption ==
  MaxPages \in Nat /\ MaxAccesses \in Nat /\ FlushUnpinned \in BOOLEAN

\* The constructor makes the replacer as large as the pool.
pool_size == replacer_size
PoolFrames == 0 .. pool_size - 1
PageIds == 0 .. MaxPages - 1
INVALID_PAGE_ID == -1
NoFrame == -1      \* page_table_->Find returns false

VARIABLES
  pages,         \* pages_: what each frame holds
  page_table,    \* page_table_
  free_list,     \* free_list_
  replacer,      \* replacer_
  next_page_id,  \* next_page_id_
  disk,          \* the database file: the content of its pages, its size in pages
  pins,          \* callers: <<thread, page>> for every page a thread has pinned
  wrote,         \* callers: the pins through which something was written that
                 \*   the thread has neither flushed nor reported to UnpinPage
  deleted,       \* callers: pages DeletePage has returned true for
  flushing       \* FlushPage between its two steps: the page and the frame found

pool == <<pages, page_table, free_list, replacer, next_page_id>>
callers == <<pins, wrote, deleted>>
vars == <<pool, disk, callers, flushing>>

Pages == [page_id : PageIds \union {INVALID_PAGE_ID},
          pin_count : Nat,
          is_dirty : BOOLEAN,
          data : Contents]

NotFlushing == [page |-> INVALID_PAGE_ID, frame |-> NoFrame]

FreePage == [page_id |-> INVALID_PAGE_ID, pin_count |-> 0, is_dirty |-> FALSE, data |-> Zeroed]

Init ==
  /\ pages = [f \in PoolFrames |-> FreePage]
  /\ page_table = [p \in PageIds |-> NoFrame]
  /\ free_list = [i \in 1 .. pool_size |-> i - 1]
  /\ replacer = EmptyReplacer
  /\ next_page_id = 0
  /\ disk = [content |-> [p \in PageIds |-> Zeroed], size |-> 0]
  /\ pins = {}
  /\ wrote = {}
  /\ deleted = {}
  /\ flushing = [t \in Threads |-> NotFlushing]

-----------------------------------------------------------------------------
(* The disk manager.  Reading past the end of the file leaves the buffer   *)
(* alone; a page inside the file that was never written reads as zeros.    *)

WritePage(d, p, data) ==
  [content |-> [d.content EXCEPT ![p] = data],
   size |-> IF p + 1 > d.size THEN p + 1 ELSE d.size]

ReadPage(d, p, buffer) == IF p > d.size THEN buffer ELSE d.content[p]

-----------------------------------------------------------------------------
(* The part NewPage and FetchPage share: they take a frame from the free   *)
(* list or from the replacer, whose result they do not look at, write back *)
(* the page it held, and give it to page p.                                *)

Find(p) == page_table[p] # NoFrame

\* Mutant: the pin counts are not looked at before a frame is asked for.
AlwaysUnpinned == TRUE

SomeUnpinned == \E f \in PoolFrames : pages[f].pin_count = 0

FromFreeList == free_list # << >>

\* frame_id is not initialised: it is any frame if Evict returns false.
PickedFrames ==
  IF FromFreeList
  THEN {Head(free_list)}
  ELSE IF EvictSucceeds(replacer) THEN {Victim(replacer)} ELSE PoolFrames

EvictedReplacer ==
  IF ~ FromFreeList /\ EvictSucceeds(replacer) THEN Evict(replacer) ELSE replacer

\* Mutant: the evicted page is not written back.
NotWrittenBack(f) == disk

WrittenBack(f) ==
  IF ~ FromFreeList /\ pages[f].is_dirty
  THEN WritePage(disk, pages[f].page_id, pages[f].data)
  ELSE disk

Buffer(f) == IF FromFreeList THEN pages[f].data ELSE Zeroed

Unmapped(f) ==
  IF FromFreeList THEN page_table ELSE [page_table EXCEPT ![pages[f].page_id] = NoFrame]

Accessed(r, f) == SetEvictable(RecordAccess(r, f), f, FALSE)

\* Mutant: pin_count_ is not set.
OccupyNoPin(f, p, data) ==
  /\ pages' = [pages EXCEPT ![f].page_id = p, ![f].data = data, ![f].is_dirty = FALSE]
  /\ page_table' = [Unmapped(f) EXCEPT ![p] = f]
  /\ free_list' = IF FromFreeList THEN Tail(free_list) ELSE free_list
  /\ replacer' = Accessed(EvictedReplacer, f)
  /\ disk' = WrittenBack(f)

Occupy(f, p, data) ==
  /\ pages' = [pages EXCEPT ![f] =
                 [page_id |-> p,
                  pin_count |-> 1,
                  is_dirty |-> FromFreeList /\ pages[f].is_dirty,
                  data |-> data]]
  /\ page_table' = [Unmapped(f) EXCEPT ![p] = f]
  /\ free_list' = IF FromFreeList THEN Tail(free_list) ELSE free_list
  /\ replacer' = Accessed(EvictedReplacer, f)
  /\ disk' = WrittenBack(f)

-----------------------------------------------------------------------------
(* NewPgImp *)

NewPage(t) ==
  \/ /\ ~ SomeUnpinned
     /\ UNCHANGED vars
  \/ /\ SomeUnpinned
     /\ next_page_id < MaxPages
     /\ next_page_id' = next_page_id + 1
     /\ \E f \in PickedFrames : Occupy(f, next_page_id, Buffer(f))
     /\ pins' = pins \union {<<t, next_page_id>>}
     /\ UNCHANGED <<wrote, deleted, flushing>>

-----------------------------------------------------------------------------
(* FetchPgImp.  Callers fetch pages that exist; a thread pins a page once. *)

Live == (0 .. next_page_id - 1) \ deleted

FetchPage(t, p) ==
  /\ p \in Live
  /\ <<t, p>> \notin pins
  /\ \/ /\ Find(p)
        /\ LET f == page_table[p]
           IN  /\ replacer.access_count[f] < MaxAccesses
               /\ pages' = [pages EXCEPT ![f].pin_count = @ + 1]
               /\ replacer' = Accessed(replacer, f)
        /\ pins' = pins \union {<<t, p>>}
        /\ UNCHANGED <<page_table, free_list, next_page_id, disk, wrote, deleted, flushing>>
     \/ /\ ~ Find(p)
        /\ ~ SomeUnpinned
        /\ UNCHANGED vars
     \/ /\ ~ Find(p)
        /\ SomeUnpinned
        /\ \E f \in PickedFrames : Occupy(f, p, ReadPage(WrittenBack(f), p, Buffer(f)))
        /\ pins' = pins \union {<<t, p>>}
        /\ UNCHANGED <<next_page_id, wrote, deleted, flushing>>

-----------------------------------------------------------------------------
(* The caller's own writes through the Page pointer of a page it pinned. *)

WriteData(t, p, c) ==
  /\ <<t, p>> \in pins
  /\ pages' = [pages EXCEPT ![page_table[p]].data = c]
  /\ wrote' = wrote \union {<<t, p>>}
  /\ UNCHANGED <<page_table, free_list, replacer, next_page_id, disk, pins, deleted, flushing>>

-----------------------------------------------------------------------------
(* UnpinPgImp.  Callers unpin what they pinned, and say so if they wrote. *)

\* Mutant: the last unpin decides whether the page is dirty.
UnpinPageLastWins(t, p, is_dirty) ==
  /\ Find(p)
  /\ <<t, p>> \in pins
  /\ <<t, p>> \in wrote => is_dirty
  /\ LET f == page_table[p]
     IN  /\ pages' = [pages EXCEPT ![f].pin_count = @ - 1, ![f].is_dirty = is_dirty]
         /\ replacer' = IF pages[f].pin_count = 1 THEN SetEvictable(replacer, f, TRUE) ELSE replacer
  /\ pins' = pins \ {<<t, p>>}
  /\ wrote' = wrote \ {<<t, p>>}
  /\ UNCHANGED <<page_table, free_list, next_page_id, disk, deleted, flushing>>

\* Mutant: the frame becomes evictable before its pin count is 0.
UnpinPageEvictable(t, p, is_dirty) ==
  /\ Find(p)
  /\ <<t, p>> \in pins
  /\ <<t, p>> \in wrote => is_dirty
  /\ LET f == page_table[p]
     IN  /\ pages' = [pages EXCEPT ![f].pin_count = @ - 1, ![f].is_dirty = @ \/ is_dirty]
         /\ replacer' = SetEvictable(replacer, f, TRUE)
  /\ pins' = pins \ {<<t, p>>}
  /\ wrote' = wrote \ {<<t, p>>}
  /\ UNCHANGED <<page_table, free_list, next_page_id, disk, deleted, flushing>>

UnpinPage(t, p, is_dirty) ==
  \/ /\ Find(p) => pages[page_table[p]].pin_count = 0
     /\ UNCHANGED vars
  \/ /\ Find(p)
     /\ <<t, p>> \in pins
     /\ <<t, p>> \in wrote => is_dirty
     /\ LET f == page_table[p]
            page == pages[f]
        IN  /\ page.pin_count > 0
            /\ pages' = [pages EXCEPT ![f] =
                           [page_id |-> page.page_id,
                            pin_count |-> page.pin_count - 1,
                            is_dirty |-> is_dirty \/ page.is_dirty,
                            data |-> page.data]]
            /\ replacer' = IF page.pin_count = 1 THEN SetEvictable(replacer, f, TRUE) ELSE replacer
     /\ pins' = pins \ {<<t, p>>}
     /\ wrote' = wrote \ {<<t, p>>}
     /\ UNCHANGED <<page_table, free_list, next_page_id, disk, deleted, flushing>>

-----------------------------------------------------------------------------
(* FlushPgImp, not latched. *)

FlushFind(t, p) ==
  \/ /\ ~ Find(p)
     /\ UNCHANGED vars
  \/ /\ Find(p)
     /\ p \in Live
     /\ FlushUnpinned \/ <<t, p>> \in pins
     /\ flushing' = [flushing EXCEPT ![t] = [page |-> p, frame |-> page_table[p]]]
     /\ UNCHANGED <<pool, disk, callers>>

FlushWrite(t) ==
  /\ flushing[t] # NotFlushing
  /\ disk' = WritePage(disk, flushing[t].page, pages[flushing[t].frame].data)
  /\ wrote' = wrote \ {<<t, flushing[t].page>>}
  /\ flushing' = [flushing EXCEPT ![t] = NotFlushing]
  /\ UNCHANGED <<pool, pins, deleted>>

(* FlushAllPgsImp: FlushPgImp for the page of every frame, latched. *)

FlushAllPages ==
  /\ LET resident == {p \in PageIds : \E f \in PoolFrames : pages[f].page_id = p /\ Find(p)}
     IN  disk' = [content |-> [p \in PageIds |-> IF p \in resident
                                                 THEN pages[page_table[p]].data
                                                 ELSE disk.content[p]],
                  size |-> CHOOSE n \in 0 .. MaxPages :
                             /\ n = disk.size \/ n - 1 \in resident
                             /\ n >= disk.size /\ \A p \in resident : n > p]
  /\ UNCHANGED <<pool, callers, flushing>>

-----------------------------------------------------------------------------
(* DeletePgImp.  Callers delete a page nobody refers to any more. *)

\* Mutant: the page stays in page_table_.
DeletePageStillMapped(p) ==
  /\ p \in Live
  /\ Find(p)
  /\ pages[page_table[p]].pin_count = 0
  /\ replacer' = Remove(replacer, page_table[p])
  /\ pages' = [pages EXCEPT ![page_table[p]] = FreePage]
  /\ free_list' = Append(free_list, page_table[p])
  /\ deleted' = deleted \union {p}
  /\ UNCHANGED <<page_table, next_page_id, disk, pins, wrote, flushing>>

DeletePage(p) ==
  /\ p \in Live
  /\ \/ /\ ~ Find(p)
        /\ deleted' = deleted \union {p}
        /\ UNCHANGED <<pool, disk, pins, wrote, flushing>>
     \/ /\ Find(p)
        /\ pages[page_table[p]].pin_count > 0
        /\ UNCHANGED vars
     \/ /\ Find(p)
        /\ LET f == page_table[p]
           IN  /\ pages[f].pin_count = 0
               /\ IF RemoveThrows(replacer, f)
                  THEN UNCHANGED vars
                  ELSE /\ replacer' = Remove(replacer, f)
                       /\ pages' = [pages EXCEPT ![f] = FreePage]
                       /\ page_table' = [page_table EXCEPT ![p] = NoFrame]
                       /\ free_list' = Append(free_list, f)
                       /\ deleted' = deleted \union {p}
                       /\ UNCHANGED <<next_page_id, disk, pins, wrote, flushing>>

-----------------------------------------------------------------------------

Idle(t) == flushing[t] = NotFlushing

Next ==
  \E t \in Threads :
    \/ FlushWrite(t)
    \/ Idle(t) /\ NewPage(t)
    \/ Idle(t) /\ FlushAllPages
    \/ \E p \in PageIds :
         /\ Idle(t)
         /\ \/ FetchPage(t, p)
            \/ DeletePage(p)
            \/ \E c \in Contents : WriteData(t, p, c)
            \/ \E is_dirty \in BOOLEAN : UnpinPage(t, p, is_dirty)
            \/ FlushFind(t, p)

Spec == Init /\ [][Next]_vars

-----------------------------------------------------------------------------
(* Safety. *)

\* A frame's page is well formed, its pin count never below zero.
\* Every frame is either in free_list_, once, blank and unknown to the
\* replacer, or it is mapped by page_table_ to the page it holds and by no
\* other.  The replacer tracks exactly the mapped frames and may evict
\* exactly those with pin count 0; its own lists and counters agree.
FrameInv ==
  /\ pages \in [PoolFrames -> Pages]
  /\ Consistent(replacer)
  /\ NoRepeats(free_list)
  /\ \A f \in PoolFrames :
       \/ /\ f \in Elements(free_list)
          /\ pages[f] = FreePage
          /\ replacer.access_count[f] = 0
       \/ /\ f \notin Elements(free_list)
          /\ pages[f].page_id \in PageIds
          /\ page_table[pages[f].page_id] = f
          /\ replacer.access_count[f] > 0
  /\ \A p \in PageIds : Find(p) => p \in Live /\ pages[page_table[p]].page_id = p
  /\ \A f \in Frames :
       replacer.is_evictable[f] <=>
         /\ f \in PoolFrames
         /\ pages[f].page_id # INVALID_PAGE_ID
         /\ pages[f].pin_count = 0
  /\ replacer.access_count[pool_size] = 0

\* A pinned page is resident, and its pin count is the number of threads that
\* hold it: no unpin is lost or counted twice.
PinInv ==
  /\ \A pin \in pins : pin[2] \in Live /\ Find(pin[2])
  /\ \A p \in PageIds :
       Find(p) => pages[page_table[p]].pin_count = Cardinality({t \in Threads : <<t, p>> \in pins})

\* The assertions commented out at the two calls of Evict: when a frame is
\* unpinned and the free list is empty, Evict succeeds, with an unpinned frame.
EvictNeverFails ==
  SomeUnpinned /\ ~ FromFreeList =>
    /\ EvictSucceeds(replacer)
    /\ Victim(replacer) \in PoolFrames
    /\ pages[Victim(replacer)].pin_count = 0

\* Nothing a caller wrote is only in memory while the pool believes otherwise:
\* a resident page that is not dirty, and through which no pin holder has an
\* unreported write, reads the same from disk.  (Dropping it is harmless.)
CleanMeansOnDisk ==
  \A p \in PageIds :
    /\ Find(p)
    /\ ~ pages[page_table[p]].is_dirty
    /\ \A t \in Threads : <<t, p>> \notin wrote
    => ReadPage(disk, p, Zeroed) = pages[page_table[p]].data

\* A Page pointer stays the page's as long as the page is pinned.
PinnedPagesStay == [][\A pin \in pins \intersect pins' : page_table'[pin[2]] = page_table[pin[2]]]_vars

\* The content of a page, wherever it is.
ContentOf(p) ==
  IF p \notin Live
  THEN Zeroed
  ELSE IF Find(p) THEN pages[page_table[p]].data ELSE ReadPage(disk, p, Zeroed)

Store == INSTANCE PageStore WITH
  live <- Live, content <- [p \in PageIds |-> ContentOf(p)]

\* The pool implements a store of pages: whatever it evicts, writes back,
\* reads in or flushes, a page has the content its writers gave it.
Implements == Store!Spec

\* The same as an action property: only a thread that has pinned a page
\* changes its content.
OnlyHoldersChangeContent ==
  [][\A p \in Live : p \in Live' /\ ContentOf(p)' # ContentOf(p) => \E t \in Threads : <<t, p>> \in pins]_vars

=============================================================================
