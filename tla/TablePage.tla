----------------------------- MODULE TablePage -----------------------------
(***************************************************************************)
(* The slotted page of table_page.cpp: a header, an array of slots (offset *)
(* and size of a tuple) that grows upwards, and the tuples' bytes, packed  *)
(* against the end of the page.  The operators are the member functions,   *)
(* on a page given as a record; bytes of the free space are never read, so *)
(* data has the bytes from the free space pointer on.                      *)
(* The mask bit of a slot's size is a field of its own.                    *)
(***************************************************************************)
EXTENDS Integers, Sequences, FiniteSets

CONSTANTS BUSTUB_PAGE_SIZE,        \* bytes of a page
          SIZE_TABLE_PAGE_HEADER,  \* bytes before the first slot
          SIZE_TUPLE               \* bytes of a slot

ASSUME PageAssumption ==
  /\ BUSTUB_PAGE_SIZE \in Nat /\ SIZE_TABLE_PAGE_HEADER \in Nat /\ SIZE_TUPLE \in Nat
  /\ SIZE_TABLE_PAGE_HEADER <= BUSTUB_PAGE_SIZE

INVALID_PAGE_ID == -1

RID(page_id, slot_num) == [page |-> page_id, slot |-> slot_num]

InitPage(prev_page_id) ==
  [prev |-> prev_page_id, next |-> INVALID_PAGE_ID, fsp |-> BUSTUB_PAGE_SIZE,
   slots |-> <<>>, data |-> [x \in {} |-> 0]]

Slot(offset, size) == [offset |-> offset, size |-> size, deleted |-> FALSE]

EmptySlot == Slot(0, 0)

GetFreeSpaceRemaining(p) ==
  p.fsp - SIZE_TABLE_PAGE_HEADER - SIZE_TUPLE * Len(p.slots)

\* Slots are numbered from 0 in a RID.
SlotAt(p, n) == p.slots[n + 1]

HasSlot(p, n) == n \in 0 .. Len(p.slots) - 1

IsDeleted(s) == s.deleted \/ s.size = 0

BytesAt(p, s) == [j \in 1..s.size |-> p.data[s.offset + j - 1]]

\* memmove of the bytes [fsp, upto) by d, then memcpy of tuple at offset at.
MoveAndCopy(p, upto, d, tuple, at) ==
  [x \in p.fsp + d .. BUSTUB_PAGE_SIZE - 1 |->
     IF at <= x /\ x < at + Len(tuple) THEN tuple[x - at + 1]
     ELSE IF x < upto + d THEN p.data[x - d] ELSE p.data[x]]

InsertFits(p, tuple) == GetFreeSpaceRemaining(p) >= Len(tuple) + SIZE_TUPLE

\* The slot an insert uses: the first empty one, or a new one at the end.
InsertSlot(p) ==
  LET empty == {n \in 0 .. Len(p.slots) - 1 : SlotAt(p, n).size = 0}
  IN  IF empty = {} THEN Len(p.slots)
      ELSE CHOOSE n \in empty : \A m \in empty : n <= m

InsertTuple(p, tuple) ==
  LET n == InsertSlot(p)
      fsp == p.fsp - Len(tuple)
  IN  [p EXCEPT !.fsp = fsp,
                !.data = MoveAndCopy(p, p.fsp, -Len(tuple), tuple, fsp),
                !.slots = [i \in 1 .. IF n = Len(@) THEN n + 1 ELSE Len(@) |->
                             IF i = n + 1 THEN Slot(fsp, Len(tuple)) ELSE @[i]]]

MarkDeleteOK(p, n) == HasSlot(p, n) /\ ~IsDeleted(SlotAt(p, n))

MarkDelete(p, n) == [p EXCEPT !.slots[n + 1].deleted = TRUE]

UpdateTupleOK(p, n, tuple) ==
  /\ HasSlot(p, n)
  /\ ~IsDeleted(SlotAt(p, n))
  /\ GetFreeSpaceRemaining(p) + SlotAt(p, n).size >= Len(tuple)

UpdateTuple(p, n, tuple) ==
  LET s == SlotAt(p, n)
      d == s.size - Len(tuple)
  IN  [p EXCEPT !.fsp = @ + d,
                !.data = MoveAndCopy(p, s.offset, d, tuple, s.offset + d),
                !.slots = [i \in DOMAIN @ |->
                   LET o == @[i].offset
                       z == IF i = n + 1 THEN Len(tuple) ELSE @[i].size
                   IN  [@[i] EXCEPT !.size = z,
                          !.offset = IF z > 0 /\ o < s.offset + s.size THEN o + d ELSE o]]]

\* The assertion of ApplyDelete: the tuple lies behind the free space.
ApplyDeleteOK(p, n) == HasSlot(p, n) /\ SlotAt(p, n).offset >= p.fsp

ApplyDeleteKeepingOffsets(p, n) == \* (mutant) the other slots are not shifted
  LET s == SlotAt(p, n)
  IN  [p EXCEPT !.fsp = @ + s.size,
                !.data = MoveAndCopy(p, s.offset, s.size, <<>>, 0),
                !.slots[n + 1] = EmptySlot]

ApplyDelete(p, n) ==
  LET s == SlotAt(p, n)
  IN  [p EXCEPT !.fsp = @ + s.size,
                !.data = MoveAndCopy(p, s.offset, s.size, <<>>, 0),
                !.slots = [i \in DOMAIN @ |->
                   IF i = n + 1 THEN EmptySlot
                   ELSE IF @[i].size # 0 /\ @[i].offset < s.offset
                     THEN [@[i] EXCEPT !.offset = p.slots[i].offset + s.size] ELSE @[i]]]

RollbackDelete(p, n) == [p EXCEPT !.slots[n + 1].deleted = FALSE]

GetTupleOK(p, n) == HasSlot(p, n) /\ ~IsDeleted(SlotAt(p, n))

GetTuple(p, n) == BytesAt(p, SlotAt(p, n))

\* The slots of the page that hold a visible tuple.
LiveSlots(p) == {n \in 0 .. Len(p.slots) - 1 : ~IsDeleted(SlotAt(p, n))}

\* The first visible slot, and the first one after slot n; -1 if there is none.
FirstAfter(p, n) ==
  LET later == {m \in LiveSlots(p) : m > n}
  IN  IF later = {} THEN -1 ELSE CHOOSE m \in later : \A x \in later : m <= x

GetFirstTupleRid(p) == FirstAfter(p, -1)

GetNextTupleRid(p, n) == FirstAfter(p, n)
=============================================================================
