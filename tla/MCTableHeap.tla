---------------------------- MODULE MCTableHeap ----------------------------
EXTENDS TableHeap, TLC

CONSTANTS t1, t2

MCTxns == {t1, t2}

\* Tuples of one and two bytes, no byte twice, so that a misplaced byte shows;
\* and one that fits into no page.
MCTuples == {<<1>>, <<2, 3>>, <<4, 5, 6, 7, 8>>}

MCInitialRow == <<2, 3>>

\* One transaction writes twice, so that a row can be written again by the same one.
MCMaxWrites == (t1 :> 2) @@ (t2 :> 1)

-----------------------------------------------------------------------------
(* The heap implements a table of committed and pending rows.              *)

\* A slot and a tuple take SIZE_TUPLE + 1 bytes at least.
MaxSlots == (BUSTUB_PAGE_SIZE - SIZE_TABLE_PAGE_HEADER) \div (SIZE_TUPLE + 1)

Rids == {RID(p, n) : p \in 0 .. MaxPages - 1, n \in 0 .. MaxSlots - 1}

Absent == <<>>

Current(rid) ==
  IF rid.page \in PageIds /\ Visible(rid) THEN GetTuple(pages[rid.page], rid.slot) ELSE Absent

Undoable(t) == IF txn[t].state = "COMMITTED" THEN {} ELSE DOMAIN txn[t].write_set

Written(t) == {txn[t].write_set[i].rid : i \in Undoable(t)}

FirstWrite(t, rid) ==
  txn[t].write_set[CHOOSE i \in Undoable(t) :
                     /\ txn[t].write_set[i].rid = rid
                     /\ \A j \in Undoable(t) : txn[t].write_set[j].rid = rid => i <= j]

BeforeWrites(t, rid) ==
  LET w == FirstWrite(t, rid) IN
  IF w.wtype = "DELETE" THEN BytesAt(pages[rid.page], SlotAt(pages[rid.page], rid.slot))
  ELSE w.tuple

Status(t) ==
  IF txn[t].state = "none" THEN "idle"
  ELSE IF txn[t].pc = "abort" THEN "aborting"
  ELSE IF txn[t].state \in {"COMMITTED", "finished"} THEN "done" ELSE "active"

\* The abstract table: committed values are what undoing the write sets of the
\* unfinished transactions would leave.
Promise == INSTANCE TransactionalTable WITH
  committed <- [r \in Rids |-> IF \E t \in Txns : r \in Written(t)
                                 THEN BeforeWrites(CHOOSE t \in Txns : r \in Written(t), r)
                                 ELSE Current(r)],
  pending <- [t \in Txns |-> [r \in Written(t) |-> Current(r)]],
  status <- [t \in Txns |-> Status(t)]

(* Commit publishes all writes of a transaction at once; a transaction     *)
(* that aborts leaves every committed row as it was, unless the old tuple  *)
(* of an update no longer fits; and nobody else's rows change.             *)
ImplementsPromise == Promise!Spec

=============================================================================
