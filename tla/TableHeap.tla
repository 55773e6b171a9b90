----------------------------- MODULE TableHeap -----------------------------
(***************************************************************************)
(* A table heap (table_heap.cpp), its iterators (table_iterator.cpp) and   *)
(* the transaction manager that commits and rolls back what transactions   *)
(* write to it (transaction_manager.cpp).  Pages form a list; an insert    *)
(* walks it holding the write latch of its page until it has the next      *)
(* page's; every other access latches one page for the time of one page    *)
(* operation, which is one step.  The buffer pool is large enough to keep  *)
(* every page, except that NewPage may fail.  Rows are written by one      *)
(* unfinished transaction at a time: the row lock that callers take.       *)
(***************************************************************************)
EXTENDS TablePage

CONSTANTS Txns, Scanners, None,
          Tuples,       \* the tuples callers insert and update to: byte sequences
          InitialRow,   \* the tuple committed to the first page before
          MaxPages,     \* bound on the pages of the heap
          MaxWrites     \* bound on the writes of every transaction

\* InsertTuple and UpdateTuple assert that a tuple has a size.
ASSUME TuplesAssumption == \A tuple \in Tuples : Len(tuple) \in Nat \ {0}
ASSUME InitialRowAssumption == InitialRow \in Tuples /\ InsertFits(InitPage(INVALID_PAGE_ID), InitialRow)
ASSUME NoneAssumption == None \notin Txns

VARIABLES pages,     \* the pages, by page id; page 0 is first_page_id_
          latch,     \* for every page, the insert that holds its write latch
          txn,       \* the Transaction objects
          blocked,   \* global_txn_latch_ is held in exclusive mode
          scan,      \* the TableIterators
          lost,      \* observed: rows that an abort failed to restore
          stable     \* observed: rows visible ever since the scan began

vars == <<pages, latch, txn, blocked, scan, lost, stable>>

TableWriteRecord(rid, wtype, tuple) == [rid |-> rid, wtype |-> wtype, tuple |-> tuple]

Transaction ==
  [state |-> "none", pc |-> "ready", write_set |-> <<>>, x_rows |-> {},
   page |-> INVALID_PAGE_ID, tuple |-> <<>>]

TableIterator == [pc |-> "idle", page |-> INVALID_PAGE_ID, slot |-> -1, seen |-> <<>>]

PageIds == DOMAIN pages

\* Page ids are handed out in order, and here the heap alone asks for them.
AllocatePage(ids) == CHOOSE n \in {p + 1 : p \in ids} : n \notin ids

Free(p) == latch[p] = None

Init ==
  /\ pages = [p \in {0} |-> InsertTuple(InitPage(INVALID_PAGE_ID), InitialRow)]
  /\ latch = [p \in {0} |-> None]
  /\ txn = [t \in Txns |-> Transaction]
  /\ blocked = FALSE
  /\ scan = [s \in Scanners |-> TableIterator]
  /\ lost = {}
  /\ stable = [s \in Scanners |-> {}]

-----------------------------------------------------------------------------
(* TransactionManager::Begin, BlockAllTransactions, ResumeTransactions.    *)
(* A transaction holds global_txn_latch_ in shared mode from Begin on.     *)

HoldsGlobalLatch(t) == txn[t].state \in {"GROWING", "COMMITTED", "ABORTED"}

Begin(t) ==
  /\ txn[t].state = "none"
  /\ ~blocked
  /\ txn' = [txn EXCEPT ![t].state = "GROWING"]
  /\ UNCHANGED <<pages, latch, blocked, scan, lost>>

BlockAllTransactions ==
  /\ ~blocked
  /\ \A t \in Txns : ~HoldsGlobalLatch(t)
  /\ blocked' = TRUE
  /\ UNCHANGED <<pages, latch, txn, scan, lost>>

ResumeTransactions ==
  /\ blocked
  /\ blocked' = FALSE
  /\ UNCHANGED <<pages, latch, txn, scan, lost>>

-----------------------------------------------------------------------------
(* TableHeap::InsertTuple.                                                 *)

MayWrite(t) ==
  /\ txn[t].state = "GROWING"
  /\ txn[t].pc = "ready"
  /\ Len(txn[t].write_set) < MaxWrites[t]

\* size_ + 32 > BUSTUB_PAGE_SIZE, 32 being the header and one slot.
TooLarge(tuple) == Len(tuple) + SIZE_TABLE_PAGE_HEADER + SIZE_TUPLE > BUSTUB_PAGE_SIZE

InsertStart(t, tuple) ==
  /\ MayWrite(t)
  /\ IF TooLarge(tuple)
       THEN txn' = [txn EXCEPT ![t].state = "ABORTED"] /\ UNCHANGED latch
       ELSE /\ Free(0)
            /\ latch' = [latch EXCEPT ![0] = t]
            /\ txn' = [txn EXCEPT ![t].pc = "insert", ![t].page = 0, ![t].tuple = tuple]
  /\ UNCHANGED <<pages, blocked, scan, lost>>

InsertHere(t) ==
  LET p == txn[t].page
      rid == RID(p, InsertSlot(pages[p]))
  IN  /\ txn[t].pc = "insert"
      /\ InsertFits(pages[p], txn[t].tuple)
      /\ pages' = [pages EXCEPT ![p] = InsertTuple(@, txn[t].tuple)]
      /\ latch' = [latch EXCEPT ![p] = None]
      /\ txn' = [txn EXCEPT ![t].pc = "ready", ![t].page = INVALID_PAGE_ID, ![t].tuple = <<>>,
                   ![t].x_rows = @ \cup {rid},
                   ![t].write_set = Append(@, TableWriteRecord(rid, "INSERT", <<>>))]
      /\ UNCHANGED <<blocked, scan, lost>>

\* The next page's latch is taken before the current one is released.
InsertMove(t) ==
  LET p == txn[t].page
      q == pages[p].next
  IN  /\ txn[t].pc = "insert"
      /\ ~InsertFits(pages[p], txn[t].tuple)
      /\ q # INVALID_PAGE_ID
      /\ Free(q)
      /\ latch' = [latch EXCEPT ![p] = None, ![q] = t]
      /\ txn' = [txn EXCEPT ![t].page = q]
      /\ UNCHANGED <<pages, blocked, scan, lost>>

InsertNewPage(t) ==
  LET p == txn[t].page
      q == AllocatePage(PageIds)
  IN  /\ txn[t].pc = "insert"
      /\ ~InsertFits(pages[p], txn[t].tuple)
      /\ pages[p].next = INVALID_PAGE_ID
      /\ \/ /\ q < MaxPages
            /\ pages' = [x \in PageIds \cup {q} |->
                           IF x = q THEN InitPage(p)
                           ELSE IF x = p THEN [pages[p] EXCEPT !.next = q] ELSE pages[x]]
            /\ latch' = [x \in PageIds \cup {q} |->
                           IF x = q THEN t ELSE IF x = p THEN None ELSE latch[x]]
            /\ txn' = [txn EXCEPT ![t].page = q]
         \/ /\ latch' = [latch EXCEPT ![p] = None]
            /\ txn' = [txn EXCEPT ![t].state = "ABORTED", ![t].pc = "ready",
                                  ![t].page = INVALID_PAGE_ID, ![t].tuple = <<>>]
            /\ UNCHANGED pages
      /\ UNCHANGED <<blocked, scan, lost>>

-----------------------------------------------------------------------------
(* TableHeap::MarkDelete and UpdateTuple, on rows a caller has found.      *)

HasRowLock(t, rid) == \A u \in Txns \ {t} : rid \notin txn[u].x_rows

Logged(t, rid, wtype, tuple) ==
  txn' = [txn EXCEPT ![t].write_set = Append(@, TableWriteRecord(rid, wtype, tuple)),
                     ![t].x_rows = @ \cup {rid}]

HeapMarkDelete(t, rid) ==
  /\ MayWrite(t)
  /\ HasRowLock(t, rid)
  /\ Free(rid.page)
  /\ MarkDeleteOK(pages[rid.page], rid.slot)
  /\ pages' = [pages EXCEPT ![rid.page] = MarkDelete(@, rid.slot)]
  /\ Logged(t, rid, "DELETE", <<>>)
  /\ UNCHANGED <<latch, blocked, scan, lost>>

HeapUpdateTuple(t, rid, tuple) ==
  /\ MayWrite(t)
  /\ HasRowLock(t, rid)
  /\ Free(rid.page)
  /\ UpdateTupleOK(pages[rid.page], rid.slot, tuple)
  /\ pages' = [pages EXCEPT ![rid.page] = UpdateTuple(@, rid.slot, tuple)]
  /\ Logged(t, rid, "UPDATE", GetTuple(pages[rid.page], rid.slot))
  /\ UNCHANGED <<latch, blocked, scan, lost>>

-----------------------------------------------------------------------------
(* TransactionManager::Commit and Abort: the write set is emptied from its *)
(* end, one record a step, and then the locks and the latch are released.  *)

Commit(t) ==
  /\ txn[t].state = "GROWING" /\ txn[t].pc = "ready"
  /\ txn' = [txn EXCEPT ![t].state = "COMMITTED", ![t].pc = "commit"]
  /\ UNCHANGED <<pages, latch, blocked, scan, lost>>

Abort(t) ==
  /\ txn[t].state \in {"GROWING", "ABORTED"} /\ txn[t].pc = "ready"
  /\ txn' = [txn EXCEPT ![t].state = "ABORTED", ![t].pc = "abort"]
  /\ UNCHANGED <<pages, latch, blocked, scan, lost>>

Back(t) == txn[t].write_set[Len(txn[t].write_set)]

PopBack(t) == txn' = [txn EXCEPT ![t].write_set = SubSeq(@, 1, Len(@) - 1)]

CommitRecord(t) ==
  /\ txn[t].pc = "commit" /\ txn[t].write_set # <<>>
  /\ LET rid == Back(t).rid IN
     IF Back(t).wtype = "DELETE"
       THEN /\ Free(rid.page)
            /\ pages' = [pages EXCEPT ![rid.page] = ApplyDelete(@, rid.slot)]
       ELSE UNCHANGED pages
  /\ PopBack(t)
  /\ UNCHANGED <<latch, blocked, scan, lost>>

\* What Abort does to the page of a record.  An update that does not fit is
\* reported by a return value that Abort ignores.
UndoneKeepingInserts(p, rec) == \* (mutant) a rolled back insert stays in the page
  IF rec.wtype = "DELETE" THEN RollbackDelete(p, rec.rid.slot)
  ELSE IF rec.wtype = "UPDATE" /\ UpdateTupleOK(p, rec.rid.slot, rec.tuple)
    THEN UpdateTuple(p, rec.rid.slot, rec.tuple)
  ELSE p

Undone(p, rec) ==
  IF rec.wtype = "DELETE" THEN RollbackDelete(p, rec.rid.slot)
  ELSE IF rec.wtype = "INSERT" THEN ApplyDelete(p, rec.rid.slot)
  ELSE IF UpdateTupleOK(p, rec.rid.slot, rec.tuple)
    THEN UpdateTuple(p, rec.rid.slot, rec.tuple)
  ELSE p

AbortRecord(t) ==
  /\ txn[t].pc = "abort" /\ txn[t].write_set # <<>>
  /\ LET rec == Back(t) IN
     /\ Free(rec.rid.page)
     /\ pages' = [pages EXCEPT ![rec.rid.page] = Undone(@, rec)]
     /\ lost' = IF rec.wtype = "UPDATE" /\ pages' = pages
                   /\ GetTuple(pages[rec.rid.page], rec.rid.slot) # rec.tuple
                  THEN lost \cup {rec.rid} ELSE lost
  /\ PopBack(t)
  /\ UNCHANGED <<latch, blocked, scan>>

\* ReleaseLocks, then RUnlock of the global latch.
EndTxnEarly(t) == \* (mutant) the global latch is released before the write set is empty
  /\ txn[t].pc \in {"commit", "abort"}
  /\ txn' = [txn EXCEPT ![t].state = "finished", ![t].pc = "ready", ![t].x_rows = {}]
  /\ UNCHANGED <<pages, latch, blocked, scan, lost>>

EndTxn(t) ==
  /\ txn[t].pc \in {"commit", "abort"} /\ txn[t].write_set = <<>>
  /\ txn' = [txn EXCEPT ![t].state = "finished", ![t].pc = "ready", ![t].x_rows = {}]
  /\ UNCHANGED <<pages, latch, blocked, scan, lost>>

-----------------------------------------------------------------------------
(* TableHeap::Begin and TableIterator: the constructor and operator++.     *)

Visible(rid) == GetTupleOK(pages[rid.page], rid.slot)

VisibleRids == UNION {{RID(p, n) : n \in LiveSlots(pages[p])} : p \in PageIds}

ScanTo(s, it) == scan' = [scan EXCEPT ![s] = it] /\ UNCHANGED <<pages, latch, txn, blocked, lost>>

At(it, p, n) == [it EXCEPT !.pc = "at", !.page = p, !.slot = n, !.seen = Append(@, RID(p, n))]

Ended(it) == [it EXCEPT !.pc = "end", !.page = INVALID_PAGE_ID, !.slot = 0]

ScanBegin(s) ==
  /\ scan[s].pc = "idle"
  /\ ScanTo(s, [TableIterator EXCEPT !.pc = "first", !.page = 0])

\* One round of Begin's loop: the first tuple under the latch, and the next
\* page's id when the latch is released again.
ScanFirst(s) ==
  LET it == scan[s]
      n == GetFirstTupleRid(pages[it.page])
  IN  /\ it.pc = "first" /\ Free(it.page)
      /\ ScanTo(s, [it EXCEPT !.pc = IF n >= 0 THEN "open" ELSE "skip", !.slot = n])

ScanSkip(s) ==
  LET it == scan[s]
      q == pages[it.page].next
  IN  /\ it.pc = "skip"
      /\ ScanTo(s, IF q = INVALID_PAGE_ID THEN Ended(it)
                   ELSE [it EXCEPT !.pc = "first", !.page = q])

\* The constructor reads the tuple under a latch of its own, and throws if it
\* has been deleted meanwhile.
ScanOpen(s) ==
  LET it == scan[s] IN
  /\ it.pc = "open" /\ Free(it.page)
  /\ ScanTo(s, IF Visible(RID(it.page, it.slot)) THEN At(it, it.page, it.slot)
               ELSE [it EXCEPT !.pc = "threw"])

\* operator++: the rest of the page, or on to the next page with a tuple.
ScanOn(it, n) ==
  LET p == it.page
      q == pages[p].next
  IN  IF n >= 0 THEN At(it, p, n)
      ELSE IF q = INVALID_PAGE_ID THEN Ended(it)
      ELSE [it EXCEPT !.pc = "hop", !.page = q]

ScanNext(s) ==
  LET it == scan[s] IN
  /\ it.pc = "at" /\ Free(it.page)
  /\ ScanTo(s, ScanOn(it, GetNextTupleRid(pages[it.page], it.slot)))

ScanHopFromSlot(s) == \* (mutant) the next page is entered at the old slot
  LET it == scan[s] IN
  /\ it.pc = "hop" /\ Free(it.page)
  /\ ScanTo(s, ScanOn(it, GetNextTupleRid(pages[it.page], it.slot)))

ScanHop(s) ==
  LET it == scan[s] IN
  /\ it.pc = "hop" /\ Free(it.page)
  /\ ScanTo(s, ScanOn(it, GetFirstTupleRid(pages[it.page])))

-----------------------------------------------------------------------------

RowsIn(ps) == UNION {{RID(p, n) : n \in LiveSlots(ps[p])} : p \in DOMAIN ps}

\* Observation only: which rows a running scan is bound to deliver.
Observe ==
  stable' = [s \in Scanners |->
               IF scan'[s].pc = "idle" THEN {}
               ELSE IF scan[s].pc = "idle" THEN RowsIn(pages')
               ELSE stable[s] \cap RowsIn(pages')]

TxnStep(t) == \/ InsertHere(t) \/ InsertMove(t) \/ InsertNewPage(t)
              \/ CommitRecord(t) \/ AbortRecord(t) \/ EndTxn(t)

TxnCall(t) ==
  \/ Begin(t) \/ Commit(t) \/ Abort(t)
  \/ \E tuple \in Tuples : InsertStart(t, tuple)
  \/ \E rid \in VisibleRids :
       HeapMarkDelete(t, rid) \/ \E tuple \in Tuples : HeapUpdateTuple(t, rid, tuple)

ScanStep(s) == \/ ScanFirst(s) \/ ScanSkip(s) \/ ScanOpen(s) \/ ScanNext(s) \/ ScanHop(s)

Next ==
  /\ \/ \E t \in Txns : TxnStep(t) \/ TxnCall(t)
     \/ \E s \in Scanners : ScanBegin(s) \/ ScanStep(s)
     \/ BlockAllTransactions \/ ResumeTransactions
  /\ Observe

Spec == Init /\ [][Next]_vars

-----------------------------------------------------------------------------

Used(p) == {s \in {p.slots[i] : i \in DOMAIN p.slots} : s.size > 0}

Area(s) == s.offset .. s.offset + s.size - 1

(* The tuples of a page, deleted ones included, tile the bytes behind the  *)
(* free space pointer without gap or overlap, the slots do not reach that  *)
(* pointer, so the assertions of UpdateTuple and ApplyDelete hold, and the *)
(* pages are a doubly-linked list from the first page.                     *)
HeapWellFormed ==
  /\ \A p \in PageIds :
       LET pg == pages[p] IN
       /\ GetFreeSpaceRemaining(pg) >= 0
       /\ \A s, u \in Used(pg) : s # u => Area(s) \cap Area(u) = {}
       /\ UNION {Area(s) : s \in Used(pg)} = pg.fsp .. BUSTUB_PAGE_SIZE - 1
       /\ \A i, j \in DOMAIN pg.slots :
            i # j /\ pg.slots[i].size > 0 => pg.slots[i] # pg.slots[j]
       /\ pg.next # INVALID_PAGE_ID => pages[pg.next].prev = p
       /\ p # 0 => pages[pg.prev].next = p

(* BlockAllTransactions, taken for a checkpoint, returns only when no      *)
(* transaction has writes to commit or to roll back, and no row is locked. *)
QuiescentWhenBlocked ==
  blocked => \A t \in Txns : txn[t].write_set = <<>> /\ txn[t].x_rows = {} /\ latch[0] # t

Before(r, u) == r.page < u.page \/ (r.page = u.page /\ r.slot < u.slot)

(* A scan delivers rows in page and slot order, each at most once, and     *)
(* when it ends it has delivered every row that was visible all along.     *)
ScansComplete ==
  \A s \in Scanners :
    LET seen == scan[s].seen IN
    /\ \A i, j \in DOMAIN seen : i < j => Before(seen[i], seen[j])
    /\ scan[s].pc = "end" => stable[s] \subseteq {seen[i] : i \in DOMAIN seen}

(* An abort restores the tuple of every row its transaction updated        *)
(* (transaction.h calls the write set the undo set of table tuples).       *)
AbortRestores == lost = {}
=============================================================================
