-------------------------- MODULE TableHeap_proofs ---------------------------
(***************************************************************************)
(* The tuples of a slotted page tile its bytes behind the free space       *)
(* pointer, and inserting, marking, updating and deleting a tuple keep it  *)
(* so.  The pages of a table heap stay well formed, checkpoints find no    *)
(* write in progress, and scans deliver every row that stays.  All for     *)
(* every size of a page, a slot and a tuple, every number of transactions  *)
(* and scans and every set of tuples.                                      *)
(***************************************************************************)
EXTENDS TableHeap, WellFoundedInduction, TLAPS

\* Leaves that name no prover are tried with these, in this order.
USE SMT, Zenon, SMTT(30), ZenonT(30)

-----------------------------------------------------------------------------
(* The invariant of a page. *)

SlotFields == [offset : Nat, size : Nat, deleted : BOOLEAN]

Offsets(slots) == [i \in DOMAIN slots |-> slots[i].offset]

Sizes(slots) == [i \in DOMAIN slots |-> slots[i].size]

\* The tuples, Z[i] bytes at O[i], fill the bytes from f to P and do not overlap.
Fill(D, O, Z, f, P) ==
  /\ \A i \in D : Z[i] > 0 => f <= O[i] /\ O[i] + Z[i] <= P
  /\ \A i, j \in D : i # j /\ Z[i] > 0 /\ Z[j] > 0 => O[i] + Z[i] <= O[j] \/ O[j] + Z[j] <= O[i]
  /\ \A x \in f .. P - 1 : \E i \in D : O[i] <= x /\ x < O[i] + Z[i]

Tiles(slots, fsp) == Fill(DOMAIN slots, Offsets(slots), Sizes(slots), fsp, BUSTUB_PAGE_SIZE)

PageFields == {"prev", "next", "fsp", "slots", "data"}

PageOK(p) ==
  /\ DOMAIN p = PageFields
  /\ p.fsp \in Nat /\ p.fsp <= BUSTUB_PAGE_SIZE
  /\ p.slots \in Seq(SlotFields)
  /\ GetFreeSpaceRemaining(p) >= 0
  /\ Tiles(p.slots, p.fsp)

-----------------------------------------------------------------------------
(* The invariant of the heap, its transactions and its scans. *)

NumPages == AllocatePage(PageIds)

\* The pages are numbered and linked in the order they were made.
PagesInv ==
  /\ NumPages \in Nat \ {0}
  /\ PageIds = 0 .. NumPages - 1
  /\ \A p \in PageIds : PageOK(pages[p])
  /\ \A p \in PageIds : /\ pages[p].next = IF p = NumPages - 1 THEN INVALID_PAGE_ID ELSE p + 1
                        /\ pages[p].prev = p - 1

\* A record of a write set names a slot that exists.
RecordOK(rec, ps) ==
  /\ rec.rid.page \in DOMAIN ps
  /\ HasSlot(ps[rec.rid.page], rec.rid.slot)
  /\ rec.wtype \in {"INSERT", "DELETE", "UPDATE"}
  /\ rec.wtype = "UPDATE" => Len(rec.tuple) \in Nat \ {0}

IsSeq(q) == q \in Seq({q[i] : i \in DOMAIN q})

TxnFields == {"state", "pc", "write_set", "x_rows", "page", "tuple"}

\* An insert holds the latch of the page it is at, and nobody else a latch.
TxnOK(x, t, ps, la) ==
  /\ DOMAIN x = TxnFields
  /\ x.state \in {"none", "GROWING", "COMMITTED", "ABORTED", "finished"}
  /\ x.state \in {"none", "finished"} => x.pc = "ready" /\ x.write_set = <<>> /\ x.x_rows = {}
  /\ x.pc = "insert" => x.page \in DOMAIN ps /\ la[x.page] = t /\ x.tuple \in Tuples
  /\ \A p \in DOMAIN ps : la[p] = t => x.pc = "insert" /\ x.page = p
  /\ IsSeq(x.write_set)
  /\ \A i \in DOMAIN x.write_set : RecordOK(x.write_set[i], ps)

TxnsInv ==
  /\ DOMAIN latch = PageIds
  /\ DOMAIN txn = Txns
  /\ \A t \in Txns : TxnOK(txn[t], t, pages, latch)
  /\ blocked => \A t \in Txns : ~HoldsGlobalLatch(t)

Rows == [page : Nat, slot : Nat]

Moving == {"first", "skip", "open", "at", "hop"}

\* The rows a scan has got behind.
Passed(it, r) ==
  \/ it.pc = "end"
  \/ it.pc \in Moving /\ r.page < it.page
  \/ it.pc = "skip" /\ r.page = it.page
  \/ it.pc = "open" /\ r.page = it.page /\ r.slot < it.slot
  \/ it.pc = "at" /\ r.page = it.page /\ r.slot <= it.slot

SeenIn(seen) == {seen[i] : i \in DOMAIN seen}

Ordered(seen) == \A i, j \in DOMAIN seen : i < j => Before(seen[i], seen[j])

\* A scan has delivered, in order, rows it has got behind, and among them all
\* those that were visible all along.
IterOK(it, kept, ids, rows) ==
  /\ DOMAIN it = {"pc", "page", "slot", "seen"}
  /\ it.pc \in Moving \union {"idle", "end", "threw"}
  /\ it.pc \in Moving => it.page \in ids
  /\ it.pc \in {"open", "at"} => it.slot \in Nat
  /\ it.seen \in Seq(Rows)
  /\ Ordered(it.seen)
  /\ it.pc \in Moving => \A r \in SeenIn(it.seen) : Passed(it, r)
  /\ kept \subseteq rows
  /\ \A r \in kept : Passed(it, r) => r \in SeenIn(it.seen)

ScansInv ==
  /\ DOMAIN scan = Scanners
  /\ \A s \in Scanners : IterOK(scan[s], stable[s], PageIds, RowsIn(pages))

HeapInv == PagesInv /\ TxnsInv /\ ScansInv

-----------------------------------------------------------------------------
(* What a step does to the pages. *)

\* Pages stay well formed and linked, and no page and no slot goes away.
PagesStep ==
  /\ PagesInv'
  /\ PageIds \subseteq PageIds'
  /\ \A p \in PageIds : Len(pages'[p].slots) >= Len(pages[p].slots)

LEMMA PageTypes ==
  ASSUME PagesInv
  PROVE  \A p \in PageIds : p \in Nat /\ Len(pages[p].slots) \in Nat
BY DEF PagesInv, PageOK

LEMMA PagesUnchanged ==
  ASSUME PagesInv, pages' = pages
  PROVE  PagesStep
<1>1. PageIds' = PageIds
  BY DEF PageIds
<1>2. PagesInv'
  BY <1>1 DEF PagesInv, NumPages
<1> QED BY <1>1, <1>2, PageTypes DEF PagesStep

\* A set of naturals has a least element.
LEMMA LeastElement ==
  ASSUME NEW S, S \subseteq Nat, S # {}
  PROVE  \E m \in S : \A x \in S : m <= x
<1>1. PICK m \in S : \A y \in S : ~ (<<y, m>> \in OpToRel(<, Nat))
  BY WFMin, NatLessThanWellFounded, Zenon
<1>2. \A y \in S : ~ (y < m)
  BY <1>1, Zenon DEF OpToRel
<1> QED BY <1>2

-----------------------------------------------------------------------------
(* The scans. *)

\* The rows of a heap.
LEMMA RowsTyped ==
  ASSUME PagesInv, NEW r \in RowsIn(pages)
  PROVE  /\ r \in Rows /\ r.page \in Nat /\ r.slot \in Nat /\ r = RID(r.page, r.slot)
         /\ r.page \in PageIds /\ r.slot \in LiveSlots(pages[r.page])
<1>1. PICK p \in PageIds : r \in {RID(p, n) : n \in LiveSlots(pages[p])}
  BY DEF RowsIn, PageIds
<1>2. PICK n \in LiveSlots(pages[p]) : r = RID(p, n)
  BY <1>1
<1>3. p \in Nat /\ n \in Nat
  BY PageTypes DEF LiveSlots
<1> QED BY <1>2, <1>3 DEF RID, Rows

\* A scan that stands still while others move.
LEMMA IterKept ==
  ASSUME NEW it, NEW kept, NEW ids, NEW rows, NEW kept2, NEW ids2, NEW rows2,
         IterOK(it, kept, ids, rows), ids \subseteq ids2, kept2 \subseteq kept, kept2 \subseteq rows2
  PROVE  IterOK(it, kept2, ids2, rows2)
BY DEF IterOK

LEMMA OthersScan ==
  ASSUME PagesInv, ScansInv, PageIds \subseteq PageIds', Observe, NEW s \in Scanners, scan'[s] = scan[s]
  PROVE  IterOK(scan'[s], stable'[s], PageIds', RowsIn(pages'))
<1>1. IterOK(scan[s], stable[s], PageIds, RowsIn(pages))
  BY DEF ScansInv
<1>2. stable'[s] = IF scan'[s].pc = "idle" THEN {}
                   ELSE IF scan[s].pc = "idle" THEN RowsIn(pages')
                   ELSE stable[s] \intersect RowsIn(pages')
  BY DEF Observe
<1>3. stable'[s] \subseteq stable[s] /\ stable'[s] \subseteq RowsIn(pages')
  BY <1>2
<1> QED BY <1>1, <1>3, IterKept

LEMMA ScansStill ==
  ASSUME PagesInv, ScansInv, PagesStep, Observe, scan' = scan
  PROVE  ScansInv'
BY OthersScan DEF ScansInv, PagesStep

\* The first visible slot behind a slot.
LEMMA FirstAfterFacts ==
  ASSUME NEW p, Len(p.slots) \in Nat, NEW k \in Int
  PROVE  LET n == FirstAfter(p, k)
         IN  \/ n = -1 /\ \A m \in LiveSlots(p) : ~ (m > k)
             \/ n \in Nat /\ n \in LiveSlots(p) /\ n > k /\ \A m \in LiveSlots(p) : m > k => n <= m
<1> DEFINE later == {m \in LiveSlots(p) : m > k}
           n == FirstAfter(p, k)
<1>1. n = IF later = {} THEN -1 ELSE CHOOSE m \in later : \A x \in later : m <= x
  BY DEF FirstAfter
<1>2. later \subseteq Nat
  BY DEF LiveSlots
<1>3. CASE later = {}
  BY <1>1, <1>3
<1>4. CASE later # {}
  <2>1. \E m \in later : \A x \in later : m <= x
    <3> HIDE DEF later
    <3> QED BY <1>2, <1>4, LeastElement, Zenon
  <2>2. n \in later /\ \A x \in later : n <= x
    <3> HIDE DEF later
    <3> QED BY <1>1, <1>4, <2>1
  <2> QED BY <1>2, <2>2
<1> QED BY <1>3, <1>4

\* The rows up to slot k of page p.
Upto(p, k, r) == r.page < p \/ (r.page = p /\ r.slot <= k)

\* A scan stands at position p, k: it has delivered the rows up to it.
StandsAt(it, kept, ids, rows, p, k) ==
  /\ DOMAIN it = {"pc", "page", "slot", "seen"}
  /\ it.page = p /\ p \in ids /\ p \in Nat /\ k \in Int
  /\ it.seen \in Seq(Rows) /\ Ordered(it.seen)
  /\ \A r \in SeenIn(it.seen) : Upto(p, k, r)
  /\ kept \subseteq rows /\ rows \subseteq Rows
  /\ \A r \in kept : Upto(p, k, r) => r \in SeenIn(it.seen)

\* Delivering the next row of the page.
LEMMA AtOK ==
  ASSUME NEW it, NEW kept, NEW ids, NEW rows, NEW p, NEW k, StandsAt(it, kept, ids, rows, p, k),
         NEW n \in Nat, n > k, \A r \in kept : r.page = p /\ r.slot > k => n <= r.slot
  PROVE  IterOK(At(it, p, n), kept, ids, rows)
<1> DEFINE new == At(it, p, n)
           row == RID(p, n)
<1>1. /\ DOMAIN new = {"pc", "page", "slot", "seen"} /\ new.pc = "at" /\ new.page = p /\ new.slot = n
      /\ new.seen = Append(it.seen, row)
  BY DEF At, StandsAt
<1>2. row \in Rows /\ row.page = p /\ row.slot = n
  BY DEF StandsAt, RID, Rows
<1>3. \A r \in Rows : r.page \in Nat /\ r.slot \in Nat /\ (r.page = p /\ r.slot = n => r = row)
  BY DEF Rows, RID
<1>4. p \in Nat /\ p \in ids /\ k \in Int /\ it.seen \in Seq(Rows)
  BY DEF StandsAt
<1> DEFINE seen == it.seen
           more == Append(seen, row)
<1> HIDE DEF new, row, seen
<1>5. /\ more \in Seq(Rows) /\ Len(seen) \in Nat /\ DOMAIN seen = 1 .. Len(seen)
      /\ DOMAIN more = 1 .. Len(seen) + 1
      /\ \A i \in 1 .. Len(seen) + 1 : more[i] = IF i = Len(seen) + 1 THEN row ELSE seen[i]
  BY <1>2, <1>4 DEF seen
<1> HIDE DEF more
<1>6. \A i \in DOMAIN seen : seen[i] \in Rows /\ Upto(p, k, seen[i])
  BY <1>4, <1>5 DEF StandsAt, SeenIn, seen
<1>7. \A i \in DOMAIN seen : Before(seen[i], row)
  BY <1>2, <1>3, <1>4, <1>6 DEF Upto, Before
<1>8. Ordered(more)
  <2>1. \A i, j \in DOMAIN seen : i < j => Before(seen[i], seen[j])
    BY DEF StandsAt, Ordered, seen
  <2>2. ASSUME NEW i \in DOMAIN more, NEW j \in DOMAIN more, i < j
        PROVE  Before(more[i], more[j])
    <3>1. i \in DOMAIN seen /\ more[i] = seen[i]
      BY <1>5, <2>2
    <3>2. CASE j = Len(seen) + 1
      BY <1>5, <1>7, <3>1, <3>2
    <3>3. CASE j # Len(seen) + 1
      BY <1>5, <2>1, <2>2, <3>1, <3>3
    <3> QED BY <3>2, <3>3
  <2> QED BY <2>2 DEF Ordered
<1>9. SeenIn(more) = SeenIn(seen) \union {row}
  BY <1>5 DEF SeenIn
<1>10. \A r \in Rows : Upto(p, k, r) \/ r = row => Passed(new, r)
  BY <1>1, <1>2, <1>3, <1>4 DEF Upto, Passed, Moving
<1>11. SeenIn(seen) \subseteq Rows /\ \A r \in SeenIn(seen) : Upto(p, k, r)
  BY <1>4, <1>6 DEF SeenIn
<1>12. \A r \in kept : Passed(new, r) => r \in SeenIn(more)
  <2> SUFFICES ASSUME NEW r \in kept, Passed(new, r)
               PROVE  r \in SeenIn(more)
    OBVIOUS
  <2>1. r \in Rows /\ (Upto(p, k, r) => r \in SeenIn(seen))
    BY DEF StandsAt, seen
  <2>2. r.page < p \/ (r.page = p /\ r.slot <= n)
    BY <1>1 DEF Passed
  <2>3. Upto(p, k, r) \/ r = row
    BY <1>3, <1>4, <2>1, <2>2 DEF Upto
  <2> QED BY <1>9, <2>1, <2>3
<1>13. kept \subseteq rows
  BY DEF StandsAt
<1>14. \A r \in SeenIn(more) : Passed(new, r)
  BY <1>2, <1>9, <1>10, <1>11
<1>15. new.seen = more
  BY <1>1 DEF more, seen
<1>16. IterOK(new, kept, ids, rows)
  BY <1>1, <1>4, <1>5, <1>8, <1>12, <1>13, <1>14, <1>15 DEF IterOK, Moving
<1> QED BY <1>16 DEF new

\* A scan that leaves page p: everything on it and before it is delivered.
Leaves(it, kept, ids, rows, p) ==
  /\ DOMAIN it = {"pc", "page", "slot", "seen"}
  /\ it.seen \in Seq(Rows) /\ Ordered(it.seen) /\ p \in Nat
  /\ \A r \in SeenIn(it.seen) : r.page <= p
  /\ kept \subseteq rows /\ rows \subseteq Rows
  /\ \A r \in kept : r.page <= p => r \in SeenIn(it.seen)

\* For the next page,
LEMMA HopOK ==
  ASSUME NEW it, NEW kept, NEW ids, NEW rows, NEW p, Leaves(it, kept, ids, rows, p), p + 1 \in ids,
         NEW pc \in {"first", "hop"}, NEW new, DOMAIN new = {"pc", "page", "slot", "seen"},
         new.pc = pc, new.page = p + 1, new.seen = it.seen
  PROVE  IterOK(new, kept, ids, rows)
<1>1. p \in Nat /\ it.seen \in Seq(Rows) /\ Ordered(it.seen) /\ kept \subseteq rows /\ rows \subseteq Rows
  BY DEF Leaves
<1>2. \A r \in Rows : Passed(new, r) <=> r.page <= p
  <2>1. \A r \in Rows : r.page \in Nat
    BY DEF Rows
  <2>2. \A r \in Rows : Passed(new, r) <=> r.page < p + 1
    BY DEF Passed, Moving
  <2> QED BY <1>1, <2>1, <2>2
<1>3. SeenIn(it.seen) \subseteq Rows
  BY <1>1 DEF SeenIn
<1>4. \A r \in SeenIn(it.seen) : Passed(new, r)
  BY <1>2, <1>3 DEF Leaves
<1>5. \A r \in kept : Passed(new, r) => r \in SeenIn(it.seen)
  BY <1>1, <1>2 DEF Leaves
<1> QED BY <1>1, <1>4, <1>5 DEF IterOK, Moving

\* or for good, behind the last page.
LEMMA EndOK ==
  ASSUME NEW it, NEW kept, NEW ids, NEW rows, NEW p, Leaves(it, kept, ids, rows, p),
         \A r \in kept : r.page <= p
  PROVE  IterOK(Ended(it), kept, ids, rows)
<1> DEFINE new == Ended(it)
<1>1. DOMAIN new = {"pc", "page", "slot", "seen"} /\ new.pc = "end" /\ new.seen = it.seen
  BY DEF Ended, Leaves
<1> HIDE DEF new
<1>2. IterOK(new, kept, ids, rows)
  BY <1>1 DEF Leaves, IterOK, Moving
<1> QED BY <1>2 DEF new

\* What the invariant says of a scan.
LEMMA ScanHas ==
  ASSUME PagesInv, ScansInv, NEW s \in Scanners, scan[s].pc # "idle", pages' = pages, Observe,
         scan'[s].pc # "idle"
  PROVE  /\ IterOK(scan[s], stable'[s], PageIds, RowsIn(pages))
         /\ PageIds' = PageIds /\ RowsIn(pages') = RowsIn(pages)
         /\ RowsIn(pages) \subseteq Rows
<1>1. IterOK(scan[s], stable[s], PageIds, RowsIn(pages))
  BY DEF ScansInv
<1>2. stable'[s] = stable[s] \intersect RowsIn(pages)
  BY DEF Observe
<1>3. IterOK(scan[s], stable'[s], PageIds, RowsIn(pages))
  BY <1>1, <1>2, IterKept
<1>4. PageIds' = PageIds /\ RowsIn(pages') = RowsIn(pages)
  BY DEF PageIds
<1>5. RowsIn(pages) \subseteq Rows
  BY RowsTyped
<1> QED BY <1>3, <1>4, <1>5

\* A step of one scan.
LEMMA ScanStepInv ==
  ASSUME PagesInv, TxnsInv, ScansInv, NEW s \in Scanners, NEW it, ScanTo(s, it), Observe,
         IterOK(it, stable'[s], PageIds, RowsIn(pages))
  PROVE  PagesInv' /\ TxnsInv' /\ ScansInv'
<1>1. /\ scan' = [scan EXCEPT ![s] = it] /\ pages' = pages /\ latch' = latch /\ txn' = txn /\ blocked' = blocked
  BY DEF ScanTo
<1>2. PagesInv' /\ PageIds' = PageIds
  BY <1>1, PagesUnchanged DEF PagesStep, PageIds
<1>3. TxnsInv'
  BY <1>1, <1>2 DEF TxnsInv, HoldsGlobalLatch
<1>4. DOMAIN scan' = Scanners /\ scan'[s] = it /\ \A u \in Scanners : u # s => scan'[u] = scan[u]
  BY <1>1 DEF ScansInv
<1>5. ASSUME NEW u \in Scanners
      PROVE  IterOK(scan'[u], stable'[u], PageIds', RowsIn(pages'))
  <2>1. CASE u = s
    BY <1>1, <1>2, <1>4, <2>1
  <2>2. CASE u # s
    BY <1>2, <1>4, <2>2, OthersScan
  <2> QED BY <2>1, <2>2
<1> QED BY <1>2, <1>3, <1>4, <1>5 DEF ScansInv

LEMMA ScanBeginStep ==
  ASSUME PagesInv, TxnsInv, ScansInv, NEW s \in Scanners, ScanBegin(s), Observe
  PROVE  PagesInv' /\ TxnsInv' /\ ScansInv'
<1> DEFINE it == [TableIterator EXCEPT !.pc = "first", !.page = 0]
<1>1. /\ DOMAIN it = {"pc", "page", "slot", "seen"} /\ it.pc = "first" /\ it.page = 0 /\ it.seen = <<>>
  BY DEF TableIterator
<1>2. scan[s].pc = "idle" /\ ScanTo(s, it)
  BY DEF ScanBegin
<1> HIDE DEF it
<1>3. pages' = pages /\ scan'[s] = it
  BY <1>2 DEF ScanTo, ScansInv
<1>4. stable'[s] = RowsIn(pages)
  BY <1>1, <1>2, <1>3 DEF Observe
<1>5. 0 \in PageIds
  BY DEF PagesInv
<1>6. \A r \in RowsIn(pages) : ~ Passed(it, r)
  <2>1. \A r \in RowsIn(pages) : r.page \in Nat
    BY RowsTyped
  <2> QED BY <1>1, <2>1 DEF Passed
<1>7. SeenIn(it.seen) = {} /\ it.seen \in Seq(Rows) /\ Ordered(it.seen)
  BY <1>1 DEF SeenIn, Ordered
<1>8. IterOK(it, stable'[s], PageIds, RowsIn(pages))
  BY <1>1, <1>4, <1>5, <1>6, <1>7 DEF IterOK, Moving
<1> QED BY <1>2, <1>8, ScanStepInv

\* The page after the one a scan is on.
LEMMA NextOfPage ==
  ASSUME PagesInv, NEW p \in PageIds
  PROVE  /\ p \in Nat
         /\ pages[p].next = INVALID_PAGE_ID => \A r \in RowsIn(pages) : r.page <= p
         /\ pages[p].next # INVALID_PAGE_ID => pages[p].next = p + 1 /\ p + 1 \in PageIds
<1>1. NumPages \in Nat /\ PageIds = 0 .. NumPages - 1 /\ p \in 0 .. NumPages - 1
      /\ pages[p].next = IF p = NumPages - 1 THEN INVALID_PAGE_ID ELSE p + 1
  BY DEF PagesInv
<1>2. \A r \in RowsIn(pages) : r.page \in 0 .. NumPages - 1
  BY <1>1, RowsTyped
<1> QED BY <1>1, <1>2 DEF INVALID_PAGE_ID

LEMMA ScanFirstStep ==
  ASSUME PagesInv, TxnsInv, ScansInv, NEW s \in Scanners, ScanFirst(s), Observe
  PROVE  PagesInv' /\ TxnsInv' /\ ScansInv'
<1> DEFINE it == scan[s]
           p == it.page
           n == GetFirstTupleRid(pages[p])
           new == [it EXCEPT !.pc = IF n >= 0 THEN "open" ELSE "skip", !.slot = n]
<1>1. it.pc = "first" /\ ScanTo(s, new)
  BY DEF ScanFirst
<1>2. DOMAIN it = {"pc", "page", "slot", "seen"}
  BY DEF ScansInv, IterOK
<1> HIDE DEF n
<1>3. /\ DOMAIN new = {"pc", "page", "slot", "seen"} /\ new.pc = (IF n >= 0 THEN "open" ELSE "skip")
      /\ new.slot = n /\ new.page = p /\ new.seen = it.seen
  BY <1>2
<1> HIDE DEF new
<1>4. pages' = pages /\ scan'[s] = new
  BY <1>1 DEF ScanTo, ScansInv
<1>5. /\ IterOK(it, stable'[s], PageIds, RowsIn(pages)) /\ RowsIn(pages) \subseteq Rows
  BY <1>1, <1>3, <1>4, ScanHas
<1> DEFINE kept == stable'[s]
<1> HIDE DEF kept
<1>6. /\ p \in PageIds /\ it.seen \in Seq(Rows) /\ Ordered(it.seen) /\ kept \subseteq RowsIn(pages)
      /\ \A r \in SeenIn(it.seen) : r.page < p
      /\ \A r \in kept : r.page < p => r \in SeenIn(it.seen)
  BY <1>1, <1>5 DEF IterOK, Moving, Passed, kept
<1> HIDE DEF it
<1>7. p \in Nat /\ Len(pages[p].slots) \in Nat
  BY <1>6, PageTypes
<1>8. \/ n = -1 /\ \A m \in LiveSlots(pages[p]) : ~ (m > -1)
      \/ n \in Nat /\ \A m \in LiveSlots(pages[p]) : m > -1 => n <= m
  BY <1>7, FirstAfterFacts DEF GetFirstTupleRid, n
<1>9. \A r \in kept : r.page \in Nat /\ r.slot \in Nat /\ (r.page = p => r.slot \in LiveSlots(pages[p]))
  BY <1>6, RowsTyped
<1>10. \A r \in kept : Passed(new, r) => r.page < p
  <2>1. CASE n = -1 /\ \A m \in LiveSlots(pages[p]) : ~ (m > -1)
    <3>1. new.pc = "skip" /\ new.page = p
      BY <1>3, <2>1
    <3>2. \A r \in kept : r.page # p
      BY <1>9, <2>1
    <3> QED BY <3>1, <3>2 DEF Passed
  <2>2. CASE n \in Nat /\ \A m \in LiveSlots(pages[p]) : m > -1 => n <= m
    <3>1. new.pc = "open" /\ new.page = p /\ new.slot = n
      BY <1>3, <2>2
    <3>2. \A r \in kept : r.page = p => ~ (r.slot < n)
      BY <1>9, <2>2
    <3> QED BY <3>1, <3>2 DEF Passed
  <2> QED BY <1>8, <2>1, <2>2
<1>11. new.pc \in {"open", "skip"} /\ (new.pc = "open" => new.slot \in Nat)
  BY <1>3, <1>8
<1>12. \A r \in SeenIn(it.seen) : Passed(new, r)
  BY <1>3, <1>6, <1>11 DEF Passed, Moving
<1>13. IterOK(new, kept, PageIds, RowsIn(pages))
  BY <1>3, <1>6, <1>10, <1>11, <1>12 DEF IterOK, Moving
<1> QED BY <1>1, <1>13, ScanStepInv DEF kept

LEMMA ScanSkipStep ==
  ASSUME PagesInv, TxnsInv, ScansInv, NEW s \in Scanners, ScanSkip(s), Observe
  PROVE  PagesInv' /\ TxnsInv' /\ ScansInv'
<1> DEFINE it == scan[s]
           p == it.page
           q == pages[p].next
           hop == [it EXCEPT !.pc = "first", !.page = q]
           new == IF q = INVALID_PAGE_ID THEN Ended(it) ELSE hop
<1>1. it.pc = "skip" /\ ScanTo(s, new)
  BY DEF ScanSkip
<1>2. DOMAIN it = {"pc", "page", "slot", "seen"}
  BY DEF ScansInv, IterOK
<1>3. /\ DOMAIN hop = {"pc", "page", "slot", "seen"} /\ hop.pc = "first" /\ hop.page = q /\ hop.seen = it.seen
      /\ Ended(it).pc = "end"
  BY <1>2 DEF Ended
<1> HIDE DEF hop
<1>4. pages' = pages /\ scan'[s] = new
  BY <1>1 DEF ScanTo, ScansInv
<1>5. /\ IterOK(it, stable'[s], PageIds, RowsIn(pages)) /\ RowsIn(pages) \subseteq Rows
  BY <1>1, <1>3, <1>4, ScanHas
<1> DEFINE kept == stable'[s]
<1>6. p \in PageIds /\ kept \subseteq RowsIn(pages)
  BY <1>1, <1>5 DEF IterOK, Moving
<1> HIDE DEF kept
<1>7. p \in Nat
  BY <1>6, PageTypes
<1>8. Leaves(it, kept, PageIds, RowsIn(pages), p)
  <2>1. \A r \in Rows : r.page \in Nat
    BY DEF Rows
  <2>2. \A r \in Rows : Passed(it, r) <=> r.page <= p
    BY <1>1, <1>7, <2>1 DEF Passed, Moving
  <2>3. it.seen \in Seq(Rows) /\ SeenIn(it.seen) \subseteq Rows
    BY <1>5 DEF IterOK, SeenIn
  <2>4. kept \subseteq Rows
    BY <1>5, <1>6
  <2>5. \A r \in SeenIn(it.seen) : r.page <= p
    BY <1>1, <1>5, <2>2, <2>3 DEF IterOK, Moving
  <2>6. \A r \in kept : r.page <= p => r \in SeenIn(it.seen)
    BY <1>1, <1>5, <2>2, <2>4 DEF IterOK, kept
  <2> QED BY <1>2, <1>5, <1>6, <1>7, <2>3, <2>5, <2>6 DEF Leaves, IterOK
<1> HIDE DEF it
<1>9. IterOK(new, kept, PageIds, RowsIn(pages))
  <2>1. CASE q = INVALID_PAGE_ID
    <3>1. \A r \in kept : r.page <= p
      BY <1>6, <2>1, NextOfPage
    <3> QED BY <1>8, <2>1, <3>1, EndOK
  <2>2. CASE q # INVALID_PAGE_ID
    <3>1. q = p + 1 /\ p + 1 \in PageIds
      BY <1>6, <2>2, NextOfPage
    <3>2. IterOK(hop, kept, PageIds, RowsIn(pages))
      BY <1>3, <1>8, <3>1, HopOK
    <3> QED BY <2>2, <3>2
  <2> QED BY <2>1, <2>2
<1> HIDE DEF new
<1> QED BY <1>1, <1>9, ScanStepInv DEF kept

LEMMA ScanOpenStep ==
  ASSUME PagesInv, TxnsInv, ScansInv, NEW s \in Scanners, ScanOpen(s), Observe
  PROVE  PagesInv' /\ TxnsInv' /\ ScansInv'
<1> DEFINE it == scan[s]
           p == it.page
           n == it.slot
           threw == [it EXCEPT !.pc = "threw"]
           kept == stable'[s]
           rows == RowsIn(pages)
<1>1. it.pc = "open" /\ (ScanTo(s, At(it, p, n)) \/ ScanTo(s, threw))
  BY DEF ScanOpen
<1>2. DOMAIN it = {"pc", "page", "slot", "seen"}
  BY DEF ScansInv, IterOK
<1>3. /\ DOMAIN threw = {"pc", "page", "slot", "seen"} /\ threw.pc = "threw" /\ threw.seen = it.seen
      /\ At(it, p, n).pc = "at"
  BY <1>2 DEF At
<1>4. pages' = pages /\ scan'[s] \in {At(it, p, n), threw}
  BY <1>1 DEF ScanTo, ScansInv
<1>5. IterOK(it, kept, PageIds, rows) /\ rows \subseteq Rows
  BY <1>1, <1>3, <1>4, ScanHas
<1> HIDE DEF kept, rows, threw
<1>6. CASE ScanTo(s, threw)
  <2>1. IterOK(threw, kept, PageIds, rows)
    BY <1>3, <1>5 DEF IterOK, Moving, Passed
  <2> QED BY <1>6, <2>1, ScanStepInv DEF kept, rows
<1>7. CASE ScanTo(s, At(it, p, n))
  <2>1. p \in PageIds /\ n \in Nat /\ kept \subseteq rows /\ it.seen \in Seq(Rows) /\ Ordered(it.seen)
    BY <1>1, <1>5 DEF IterOK, Moving
  <2>2. p \in Nat
    BY <2>1, PageTypes
  <2>3. \A r \in Rows : r.page \in Nat /\ r.slot \in Nat
    BY DEF Rows
  <2>4. \A r \in Rows : Passed(it, r) <=> Upto(p, n - 1, r)
    <3>1. \A r \in Rows : Passed(it, r) <=> r.page < p \/ (r.page = p /\ r.slot < n)
      BY <1>1 DEF Passed, Moving
    <3>2. \A k \in Nat : k < n <=> k <= n - 1
      BY <2>1
    <3> QED BY <2>3, <3>1, <3>2 DEF Upto
  <2>5. SeenIn(it.seen) \subseteq Rows
    BY <2>1 DEF SeenIn
  <2>6. StandsAt(it, kept, PageIds, rows, p, n - 1)
    <3>1. \A r \in SeenIn(it.seen) : Upto(p, n - 1, r)
      BY <1>1, <1>5, <2>4, <2>5 DEF IterOK, Moving
    <3>2. \A r \in kept : Upto(p, n - 1, r) => r \in SeenIn(it.seen)
      BY <1>5, <2>1, <2>4 DEF IterOK
    <3>3. n - 1 \in Int
      BY <2>1
    <3> QED BY <1>2, <1>5, <2>1, <2>2, <3>1, <3>2, <3>3 DEF StandsAt
  <2>7. n > n - 1 /\ \A r \in kept : r.page = p /\ r.slot > n - 1 => n <= r.slot
    BY <1>5, <2>1, <2>3
  <2> HIDE DEF it, p, n
  <2>8. IterOK(At(it, p, n), kept, PageIds, rows)
    BY <2>1, <2>6, <2>7, AtOK
  <2> QED BY <1>7, <2>8, ScanStepInv DEF kept, rows
<1> QED BY <1>1, <1>6, <1>7

\* operator++ from position k of the page.
LEMMA ScanOnStep ==
  ASSUME PagesInv, TxnsInv, ScansInv, NEW s \in Scanners, scan[s].pc \in {"at", "hop"}, NEW k \in Int,
         k = IF scan[s].pc = "at" THEN scan[s].slot ELSE -1,
         ScanTo(s, ScanOn(scan[s], FirstAfter(pages[scan[s].page], k))), Observe
  PROVE  PagesInv' /\ TxnsInv' /\ ScansInv'
<1> DEFINE it == scan[s]
           p == it.page
           q == pages[p].next
           n == FirstAfter(pages[p], k)
           hop == [it EXCEPT !.pc = "hop", !.page = q]
           new == ScanOn(it, n)
           kept == stable'[s]
           rows == RowsIn(pages)
<1>1. ScanTo(s, new) /\ it.pc \in {"at", "hop"}
  OBVIOUS
<1>2. new = IF n >= 0 THEN At(it, p, n) ELSE IF q = INVALID_PAGE_ID THEN Ended(it) ELSE hop
  BY DEF ScanOn
<1>3. DOMAIN it = {"pc", "page", "slot", "seen"}
  BY DEF ScansInv, IterOK
<1>4. /\ DOMAIN hop = {"pc", "page", "slot", "seen"} /\ hop.pc = "hop" /\ hop.page = q /\ hop.seen = it.seen
      /\ Ended(it).pc = "end" /\ At(it, p, n).pc = "at"
  BY <1>3 DEF Ended, At
<1> HIDE DEF hop, n, new
<1>5. pages' = pages /\ scan'[s] = new
  BY <1>1 DEF ScanTo, ScansInv
<1>6. IterOK(it, kept, PageIds, rows) /\ rows \subseteq Rows
  BY <1>1, <1>2, <1>4, <1>5, ScanHas
<1> HIDE DEF kept, rows
<1>7. p \in PageIds /\ kept \subseteq rows /\ it.seen \in Seq(Rows) /\ Ordered(it.seen)
  BY <1>1, <1>6 DEF IterOK, Moving
<1>8. p \in Nat /\ Len(pages[p].slots) \in Nat
  BY <1>7, PageTypes
<1>9. \A r \in Rows : r.page \in Nat /\ r.slot \in Nat
  BY DEF Rows
<1>10. \A r \in Rows : Passed(it, r) <=> Upto(p, k, r)
  <2>1. CASE it.pc = "at"
    BY <2>1 DEF Passed, Moving, Upto
  <2>2. CASE it.pc = "hop"
    <3>1. k = -1
      BY <2>2
    <3>2. \A m \in Nat : ~ (m <= -1)
      OBVIOUS
    <3> QED BY <1>9, <2>2, <3>1, <3>2 DEF Passed, Moving, Upto
  <2> QED BY <1>1, <2>1, <2>2
<1>11. SeenIn(it.seen) \subseteq Rows
  BY <1>7 DEF SeenIn
<1>12. /\ \A r \in SeenIn(it.seen) : Upto(p, k, r)
       /\ \A r \in kept : Upto(p, k, r) => r \in SeenIn(it.seen)
  <2>1. \A r \in SeenIn(it.seen) : Upto(p, k, r)
    BY <1>1, <1>6, <1>10, <1>11 DEF IterOK, Moving
  <2>2. \A r \in kept : Upto(p, k, r) => r \in SeenIn(it.seen)
    BY <1>6, <1>7, <1>10 DEF IterOK
  <2> QED BY <2>1, <2>2
<1>13. \/ n = -1 /\ \A m \in LiveSlots(pages[p]) : ~ (m > k)
       \/ n \in Nat /\ n > k /\ \A m \in LiveSlots(pages[p]) : m > k => n <= m
  BY <1>8, FirstAfterFacts DEF n
<1>14. \A r \in kept : r.page \in Nat /\ r.slot \in Nat /\ (r.page = p => r.slot \in LiveSlots(pages[p]))
  BY <1>7, RowsTyped DEF rows
<1> HIDE DEF it
<1>15. IterOK(new, kept, PageIds, rows)
  <2>1. CASE n \in Nat /\ n > k /\ \A m \in LiveSlots(pages[p]) : m > k => n <= m
    <3>1. StandsAt(it, kept, PageIds, rows, p, k)
      BY <1>3, <1>6, <1>7, <1>8, <1>12 DEF StandsAt
    <3>2. \A r \in kept : r.page = p /\ r.slot > k => n <= r.slot
      BY <1>14, <2>1
    <3>3. IterOK(At(it, p, n), kept, PageIds, rows)
      BY <2>1, <3>1, <3>2, AtOK
    <3>4. new = At(it, p, n)
      BY <1>2, <2>1
    <3> QED BY <3>3, <3>4
  <2>2. CASE n = -1 /\ \A m \in LiveSlots(pages[p]) : ~ (m > k)
    <3>1. Leaves(it, kept, PageIds, rows, p)
      <4>1. \A r \in SeenIn(it.seen) : r.page <= p
        BY <1>8, <1>9, <1>11, <1>12 DEF Upto
      <4>2. \A r \in kept : r.page <= p => Upto(p, k, r)
        BY <1>8, <1>14, <2>2 DEF Upto
      <4>3. \A r \in kept : r.page <= p => r \in SeenIn(it.seen)
        BY <1>12, <4>2
      <4> QED BY <1>3, <1>6, <1>7, <1>8, <4>1, <4>3 DEF Leaves
    <3>2. new = IF q = INVALID_PAGE_ID THEN Ended(it) ELSE hop
      BY <1>2, <2>2
    <3>3. CASE q = INVALID_PAGE_ID
      <4>1. \A r \in kept : r.page <= p
        BY <1>7, <3>3, NextOfPage DEF rows
      <4> QED BY <3>1, <3>2, <3>3, <4>1, EndOK
    <3>4. CASE q # INVALID_PAGE_ID
      <4>1. q = p + 1 /\ p + 1 \in PageIds
        BY <1>7, <3>4, NextOfPage
      <4>2. IterOK(hop, kept, PageIds, rows)
        BY <1>4, <3>1, <4>1, HopOK
      <4> QED BY <3>2, <3>4, <4>2
    <3> QED BY <3>3, <3>4
  <2> QED BY <1>13, <2>1, <2>2
<1> QED BY <1>1, <1>15, ScanStepInv DEF kept, rows

LEMMA ScanNextStep ==
  ASSUME PagesInv, TxnsInv, ScansInv, NEW s \in Scanners, ScanNext(s), Observe
  PROVE  PagesInv' /\ TxnsInv' /\ ScansInv'
<1>1. /\ scan[s].pc = "at"
      /\ ScanTo(s, ScanOn(scan[s], FirstAfter(pages[scan[s].page], scan[s].slot)))
  BY DEF ScanNext, GetNextTupleRid
<1>2. scan[s].slot \in Int
  BY <1>1 DEF ScansInv, IterOK
<1>3. PICK k \in Int : k = scan[s].slot
  BY <1>2
<1> QED BY <1>1, <1>3, ScanOnStep

LEMMA ScanHopStep ==
  ASSUME PagesInv, TxnsInv, ScansInv, NEW s \in Scanners, ScanHop(s), Observe
  PROVE  PagesInv' /\ TxnsInv' /\ ScansInv'
<1>1. /\ scan[s].pc = "hop"
      /\ ScanTo(s, ScanOn(scan[s], FirstAfter(pages[scan[s].page], -1)))
  BY DEF ScanHop, GetFirstTupleRid
<1>2. PICK k \in Int : k = -1
  OBVIOUS
<1> QED BY <1>1, <1>2, ScanOnStep

LEMMA InvScans == HeapInv => ScansComplete
<1> SUFFICES ASSUME HeapInv, NEW s \in Scanners
             PROVE  LET seen == scan[s].seen IN
                    /\ \A i, j \in DOMAIN seen : i < j => Before(seen[i], seen[j])
                    /\ scan[s].pc = "end" => stable[s] \subseteq {seen[i] : i \in DOMAIN seen}
  BY Zenon, ZenonT(30) DEF ScansComplete
<1>1. IterOK(scan[s], stable[s], PageIds, RowsIn(pages))
  BY DEF HeapInv, ScansInv
<1>2. \A i, j \in DOMAIN scan[s].seen : i < j => Before(scan[s].seen[i], scan[s].seen[j])
  BY <1>1 DEF IterOK, Ordered
<1>3. scan[s].pc = "end" => stable[s] \subseteq SeenIn(scan[s].seen)
  BY <1>1 DEF IterOK, Passed
<1> QED BY <1>2, <1>3 DEF SeenIn

-----------------------------------------------------------------------------
(* The slots of a page tile its bytes. *)

\* The fields of a slot.
LEMMA SlotTypes ==
  ASSUME NEW slots \in Seq(SlotFields), NEW i \in DOMAIN slots
  PROVE  slots[i].offset \in Nat /\ slots[i].size \in Nat /\ slots[i].deleted \in BOOLEAN
         /\ slots[i] \in SlotFields
<1>1. slots[i] \in SlotFields
  OBVIOUS
<1> QED BY <1>1 DEF SlotFields

LEMMA SlotFunctions ==
  ASSUME NEW slots \in Seq(SlotFields)
  PROVE  /\ Offsets(slots) \in [DOMAIN slots -> Nat] /\ Sizes(slots) \in [DOMAIN slots -> Nat]
         /\ \A i \in DOMAIN slots : Offsets(slots)[i] = slots[i].offset /\ Sizes(slots)[i] = slots[i].size
BY SlotTypes DEF Offsets, Sizes

\* A new tuple in front of the others.
Added(D, O, Z, D2, O2, Z2, k, f, g, P) ==
  /\ O \in [D -> Nat] /\ Z \in [D -> Nat] /\ O2 \in [D2 -> Nat] /\ Z2 \in [D2 -> Nat]
  /\ f \in Nat /\ g \in Nat /\ P \in Nat /\ f <= P /\ g < f
  /\ D \subseteq D2 /\ k \in D2 /\ (k \in D => Z[k] = 0) /\ O2[k] = g /\ Z2[k] = f - g
  /\ \A i \in D2 : i # k => i \in D /\ O2[i] = O[i] /\ Z2[i] = Z[i]

LEMMA FillInsert ==
  ASSUME NEW D, NEW O, NEW Z, NEW D2, NEW O2, NEW Z2, NEW f, NEW g, NEW P, NEW k,
         Fill(D, O, Z, f, P), Added(D, O, Z, D2, O2, Z2, k, f, g, P)
  PROVE  Fill(D2, O2, Z2, g, P)
<1>0. /\ O \in [D -> Nat] /\ Z \in [D -> Nat] /\ O2 \in [D2 -> Nat] /\ Z2 \in [D2 -> Nat]
      /\ f \in Nat /\ g \in Nat /\ P \in Nat /\ f <= P /\ g < f
      /\ D \subseteq D2 /\ k \in D2 /\ (k \in D => Z[k] = 0) /\ O2[k] = g /\ Z2[k] = f - g
      /\ \A i \in D2 : i # k => i \in D /\ O2[i] = O[i] /\ Z2[i] = Z[i]
  BY DEF Added
<1>1. ASSUME NEW i \in D2, Z2[i] > 0
      PROVE  g <= O2[i] /\ O2[i] + Z2[i] <= P
  BY <1>0, <1>1 DEF Fill
<1>2. ASSUME NEW i \in D2, NEW j \in D2, i # j, Z2[i] > 0, Z2[j] > 0
      PROVE  O2[i] + Z2[i] <= O2[j] \/ O2[j] + Z2[j] <= O2[i]
  BY <1>0, <1>2 DEF Fill
<1>3. ASSUME NEW x \in g .. P - 1
      PROVE  \E i \in D2 : O2[i] <= x /\ x < O2[i] + Z2[i]
  <2>1. CASE x < f
    BY <1>0, <2>1
  <2>2. CASE x >= f
    <3>1. PICK i \in D : O[i] <= x /\ x < O[i] + Z[i]
      BY <1>0, <2>2 DEF Fill
    <3>2. i # k
      BY <1>0, <3>1
    <3> QED BY <1>0, <3>1, <3>2
  <2> QED BY <1>0, <2>1, <2>2
<1> QED BY <1>1, <1>2, <1>3 DEF Fill

\* What has a size keeps its place.
Unmoved(D, O, Z, O2, Z2, f, P) ==
  /\ O \in [D -> Nat] /\ Z \in [D -> Nat] /\ O2 \in [D -> Nat] /\ Z2 \in [D -> Nat]
  /\ f \in Nat /\ P \in Nat
  /\ \A i \in D : Z2[i] = Z[i] /\ (Z[i] > 0 => O2[i] = O[i])

LEMMA FillSame ==
  ASSUME NEW D, NEW O, NEW Z, NEW O2, NEW Z2, NEW f, NEW P,
         Fill(D, O, Z, f, P), Unmoved(D, O, Z, O2, Z2, f, P)
  PROVE  Fill(D, O2, Z2, f, P)
<1>0. /\ O \in [D -> Nat] /\ Z \in [D -> Nat] /\ O2 \in [D -> Nat] /\ Z2 \in [D -> Nat]
      /\ f \in Nat /\ P \in Nat
      /\ \A i \in D : Z2[i] = Z[i] /\ (Z[i] > 0 => O2[i] = O[i])
  BY DEF Unmoved
<1>1. ASSUME NEW x \in f .. P - 1
      PROVE  \E i \in D : O2[i] <= x /\ x < O2[i] + Z2[i]
  <2>1. PICK i \in D : O[i] <= x /\ x < O[i] + Z[i]
    BY <1>0 DEF Fill
  <2> QED BY <1>0, <2>1
<1> QED BY <1>0, <1>1 DEF Fill

\* A tuple of another size, or none, where there was one: those in front of it
\* move by the difference.
Shifted(D, O, Z, O2, Z2, k, d, f, P) ==
  /\ O \in [D -> Nat] /\ Z \in [D -> Nat] /\ O2 \in [D -> Nat] /\ Z2 \in [D -> Nat]
  /\ f \in Nat /\ P \in Nat /\ d \in Int /\ f + d \in Nat
  /\ k \in D /\ Z[k] > 0 /\ d = Z[k] - Z2[k] /\ (Z2[k] > 0 => O2[k] = O[k] + d)
  /\ \A i \in D : i # k =>
       /\ Z2[i] = Z[i]
       /\ Z[i] > 0 /\ O[i] < O[k] => O2[i] = O[i] + d
       /\ Z[i] > 0 /\ O[i] >= O[k] + Z[k] => O2[i] = O[i]

LEMMA FillShift ==
  ASSUME NEW D, NEW O, NEW Z, NEW O2, NEW Z2, NEW f, NEW P, NEW k, NEW d,
         Fill(D, O, Z, f, P), Shifted(D, O, Z, O2, Z2, k, d, f, P)
  PROVE  Fill(D, O2, Z2, f + d, P)
<1>0. /\ O \in [D -> Nat] /\ Z \in [D -> Nat] /\ O2 \in [D -> Nat] /\ Z2 \in [D -> Nat]
      /\ f \in Nat /\ P \in Nat /\ d \in Int /\ f + d \in Nat
      /\ k \in D /\ Z[k] > 0 /\ d = Z[k] - Z2[k] /\ (Z2[k] > 0 => O2[k] = O[k] + d)
      /\ \A i \in D : i # k =>
           /\ Z2[i] = Z[i]
           /\ Z[i] > 0 /\ O[i] < O[k] => O2[i] = O[i] + d
           /\ Z[i] > 0 /\ O[i] >= O[k] + Z[k] => O2[i] = O[i]
  BY DEF Shifted
<1>1. ASSUME NEW i \in D, i # k, Z[i] > 0
      PROVE  /\ Z2[i] = Z[i] /\ f <= O[i] /\ O[i] + Z[i] <= P
             /\ \/ O[i] + Z[i] <= O[k] /\ O2[i] = O[i] + d
                \/ O[k] + Z[k] <= O[i] /\ O2[i] = O[i]
  BY <1>0, <1>1 DEF Fill
<1>2. f <= O[k] /\ O[k] + Z[k] <= P
  BY <1>0 DEF Fill
<1>5. ASSUME NEW i \in D, Z2[i] > 0
      PROVE  f + d <= O2[i] /\ O2[i] + Z2[i] <= P
  <2>1. CASE i = k
    BY <1>0, <1>2, <1>5, <2>1
  <2>2. CASE i # k
    BY <1>0, <1>1, <1>2, <1>5, <2>2
  <2> QED BY <1>0, <2>1, <2>2
<1>6. ASSUME NEW i \in D, NEW j \in D, i # j, Z2[i] > 0, Z2[j] > 0
      PROVE  O2[i] + Z2[i] <= O2[j] \/ O2[j] + Z2[j] <= O2[i]
  <2>1. CASE i # k /\ j # k
    <3>1. O[i] + Z[i] <= O[j] \/ O[j] + Z[j] <= O[i]
      BY <1>0, <1>6, <2>1 DEF Fill
    <3> QED BY <1>0, <1>1, <1>6, <2>1, <3>1
  <2>2. CASE i = k
    BY <1>0, <1>1, <1>2, <1>6, <2>2
  <2>3. CASE j = k
    BY <1>0, <1>1, <1>2, <1>6, <2>3
  <2> QED BY <1>0, <2>1, <2>2, <2>3
<1>7. ASSUME NEW x \in f + d .. P - 1
      PROVE  \E i \in D : O2[i] <= x /\ x < O2[i] + Z2[i]
  <2>0. \A y \in f .. P - 1 : \E i \in D : O[i] <= y /\ y < O[i] + Z[i]
    BY <1>0 DEF Fill
  <2>1. CASE x >= O[k] + Z[k]
    <3>1. x \in f .. P - 1
      BY <1>0, <1>2, <2>1
    <3>2. PICK i \in D : O[i] <= x /\ x < O[i] + Z[i]
      BY <1>0, <2>0, <3>1
    <3>3. i # k /\ Z[i] > 0
      BY <1>0, <2>1, <3>2
    <3> QED BY <1>0, <1>1, <2>1, <3>2, <3>3
  <2>2. CASE x < O[k] + d
    <3>1. x - d \in f .. P - 1 /\ x - d < O[k]
      BY <1>0, <1>2, <2>2
    <3>2. PICK i \in D : O[i] <= x - d /\ x - d < O[i] + Z[i]
      BY <1>0, <2>0, <3>1
    <3>3. i # k /\ Z[i] > 0
      BY <1>0, <3>1, <3>2
    <3> QED BY <1>0, <1>1, <3>1, <3>2, <3>3
  <2>3. CASE O[k] + d <= x /\ x < O[k] + Z[k]
    <3>1. Z2[k] > 0
      BY <1>0, <2>3
    <3> QED BY <1>0, <2>3, <3>1
  <2> QED BY <1>0, <2>1, <2>2, <2>3
<1> QED BY <1>0, <1>5, <1>6, <1>7 DEF Fill

\* The same three facts, for the slots of a page.
LEMMA TilesInsert ==
  ASSUME NEW slots \in Seq(SlotFields), NEW new \in Seq(SlotFields), NEW fsp \in Nat, Tiles(slots, fsp),
         fsp <= BUSTUB_PAGE_SIZE, NEW L \in Nat \ {0}, L <= fsp, NEW k \in DOMAIN new,
         DOMAIN slots \subseteq DOMAIN new, k \in DOMAIN slots => slots[k].size = 0,
         new[k].offset = fsp - L, new[k].size = L,
         \A i \in DOMAIN new : i # k => i \in DOMAIN slots /\ new[i] = slots[i]
  PROVE  Tiles(new, fsp - L)
<1> DEFINE D == DOMAIN slots   O == Offsets(slots)   Z == Sizes(slots)
           D2 == DOMAIN new    O2 == Offsets(new)    Z2 == Sizes(new)
           P == BUSTUB_PAGE_SIZE
<1>1. /\ O \in [D -> Nat] /\ Z \in [D -> Nat] /\ O2 \in [D2 -> Nat] /\ Z2 \in [D2 -> Nat] /\ P \in Nat
      /\ \A i \in D : O[i] = slots[i].offset /\ Z[i] = slots[i].size
      /\ \A i \in D2 : O2[i] = new[i].offset /\ Z2[i] = new[i].size
  BY SlotFunctions, PageAssumption
<1>2. Fill(D, O, Z, fsp, P)
  BY DEF Tiles
<1> HIDE DEF O, Z, O2, Z2, P
<1>3. /\ k \in D => Z[k] = 0
      /\ O2[k] = fsp - L /\ Z2[k] = L
      /\ \A i \in D2 : i # k => i \in D /\ O2[i] = O[i] /\ Z2[i] = Z[i]
  BY <1>1
<1>4. fsp <= P
  BY DEF P
<1> HIDE DEF D, D2
<1>5. D \subseteq D2 /\ k \in D2
  BY DEF D, D2
<1>6. fsp - L \in Nat /\ fsp - L < fsp /\ L = fsp - (fsp - L)
  OBVIOUS
<1>7. Added(D, O, Z, D2, O2, Z2, k, fsp, fsp - L, P)
  BY <1>1, <1>3, <1>4, <1>5, <1>6 DEF Added
<1>8. Fill(D2, O2, Z2, fsp - L, P)
  BY <1>2, <1>7, FillInsert
<1> QED BY <1>8 DEF Tiles, D2, O2, Z2, P

LEMMA TilesSame ==
  ASSUME NEW slots \in Seq(SlotFields), NEW new \in Seq(SlotFields), NEW fsp \in Nat, Tiles(slots, fsp),
         DOMAIN new = DOMAIN slots,
         \A i \in DOMAIN slots : /\ new[i].size = slots[i].size
                                 /\ slots[i].size > 0 => new[i].offset = slots[i].offset
  PROVE  Tiles(new, fsp)
<1> DEFINE D == DOMAIN slots   O == Offsets(slots)   Z == Sizes(slots)
           O2 == Offsets(new)    Z2 == Sizes(new)    P == BUSTUB_PAGE_SIZE
<1>1. /\ O \in [D -> Nat] /\ Z \in [D -> Nat] /\ O2 \in [D -> Nat] /\ Z2 \in [D -> Nat] /\ P \in Nat
      /\ \A i \in D : O[i] = slots[i].offset /\ Z[i] = slots[i].size
      /\ \A i \in D : O2[i] = new[i].offset /\ Z2[i] = new[i].size
  BY SlotFunctions, PageAssumption
<1>2. Fill(D, O, Z, fsp, P)
  BY DEF Tiles
<1> HIDE DEF O, Z, O2, Z2, P
<1>3. \A i \in D : Z2[i] = Z[i] /\ (Z[i] > 0 => O2[i] = O[i])
  BY <1>1, Zenon, ZenonT(30)
<1> HIDE DEF D
<1>4. Unmoved(D, O, Z, O2, Z2, fsp, P)
  BY <1>1, <1>3 DEF Unmoved
<1>5. Fill(D, O2, Z2, fsp, P)
  BY <1>2, <1>4, FillSame
<1> QED BY <1>5 DEF Tiles, D, O2, Z2, P

Moved(slots, new, k, d) ==
  /\ DOMAIN new = DOMAIN slots /\ k \in DOMAIN slots
  /\ slots[k].size > 0 /\ d = slots[k].size - new[k].size
  /\ new[k].size > 0 => new[k].offset = slots[k].offset + d
  /\ \A i \in DOMAIN slots : i # k =>
       /\ new[i].size = slots[i].size
       /\ slots[i].size > 0 /\ slots[i].offset < slots[k].offset => new[i].offset = slots[i].offset + d
       /\ slots[i].size > 0 /\ slots[i].offset >= slots[k].offset + slots[k].size =>
            new[i].offset = slots[i].offset

LEMMA TilesShift ==
  ASSUME NEW slots \in Seq(SlotFields), NEW new \in Seq(SlotFields), NEW fsp \in Nat, Tiles(slots, fsp),
         NEW k, NEW d \in Int, Moved(slots, new, k, d), fsp + d \in Nat
  PROVE  Tiles(new, fsp + d)
<1> DEFINE D == DOMAIN slots   O == Offsets(slots)   Z == Sizes(slots)
           O2 == Offsets(new)    Z2 == Sizes(new)    P == BUSTUB_PAGE_SIZE
<1>0. DOMAIN new = DOMAIN slots
  BY DEF Moved
<1>1. /\ O \in [D -> Nat] /\ Z \in [D -> Nat] /\ O2 \in [D -> Nat] /\ Z2 \in [D -> Nat] /\ P \in Nat
      /\ \A i \in D : O[i] = slots[i].offset /\ Z[i] = slots[i].size
      /\ \A i \in D : O2[i] = new[i].offset /\ Z2[i] = new[i].size
  BY <1>0, SlotFunctions, PageAssumption
<1>2. Fill(D, O, Z, fsp, P)
  BY DEF Tiles
<1> HIDE DEF O, Z, O2, Z2, P
<1>3. /\ Z[k] > 0 /\ d = Z[k] - Z2[k]
      /\ Z2[k] > 0 => O2[k] = O[k] + d
  BY <1>1 DEF Moved
<1>4. ASSUME NEW i \in D, i # k
      PROVE  /\ Z2[i] = Z[i]
             /\ Z[i] > 0 /\ O[i] < O[k] => O2[i] = O[i] + d
             /\ Z[i] > 0 /\ O[i] >= O[k] + Z[k] => O2[i] = O[i]
  BY <1>1, <1>4, Zenon DEF Moved
<1>5. k \in D
  BY DEF Moved
<1> HIDE DEF D
<1>6. Shifted(D, O, Z, O2, Z2, k, d, fsp, P)
  BY <1>1, <1>3, <1>4, <1>5 DEF Shifted
<1>7. Fill(D, O2, Z2, fsp + d, P)
  BY <1>2, <1>6, FillShift
<1> QED BY <1>0, <1>7 DEF Tiles, D, O2, Z2, P

\* A page of a function of slots.
LEMMA SlotSequence ==
  ASSUME NEW m \in Nat, NEW new, new = [i \in 1 .. m |-> new[i]], \A i \in 1 .. m : new[i] \in SlotFields
  PROVE  new \in Seq(SlotFields) /\ Len(new) = m /\ DOMAIN new = 1 .. m
OBVIOUS

\* The header and the slots, and one slot more.
LEMMA SlotSpace ==
  ASSUME NEW m \in Nat
  PROVE  SIZE_TUPLE * m \in Nat /\ SIZE_TUPLE * (m + 1) = (SIZE_TUPLE * m) + SIZE_TUPLE
<1>1. \A a \in Nat : a * m \in Nat /\ a * (m + 1) = (a * m) + a
  OBVIOUS
<1> QED BY <1>1, PageAssumption

LEMMA Remaining ==
  ASSUME NEW p, NEW m, NEW fsp, p.fsp = fsp, Len(p.slots) = m
  PROVE  GetFreeSpaceRemaining(p) = fsp - SIZE_TABLE_PAGE_HEADER - SIZE_TUPLE * m
BY DEF GetFreeSpaceRemaining

\* What is there to know about the page a transaction step leaves.
Grown(p, q) ==
  /\ PageOK(q) /\ q.prev = p.prev /\ q.next = p.next
  /\ Len(q.slots) >= Len(p.slots)

\* A page with fewer than the slots it may have takes the tuple.
LEMMA InsertTupleGrows ==
  ASSUME NEW p, PageOK(p), NEW tuple, Len(tuple) \in Nat \ {0}, InsertFits(p, tuple)
  PROVE  Grown(p, InsertTuple(p, tuple)) /\ HasSlot(InsertTuple(p, tuple), InsertSlot(p))
<1> DEFINE q == InsertTuple(p, tuple)
           n == InsertSlot(p)
           N == Len(p.slots)
           L == Len(tuple)
           m == IF n = N THEN n + 1 ELSE N
           new == [i \in 1 .. m |-> IF i = n + 1 THEN Slot(p.fsp - L, L) ELSE p.slots[i]]
<1>1. p.slots \in Seq(SlotFields) /\ N \in Nat /\ DOMAIN p.slots = 1 .. N /\ L \in Nat \ {0}
      /\ p.fsp \in Nat /\ p.fsp <= BUSTUB_PAGE_SIZE /\ BUSTUB_PAGE_SIZE \in Nat /\ Tiles(p.slots, p.fsp)
      /\ SIZE_TABLE_PAGE_HEADER \in Nat /\ SIZE_TUPLE \in Nat
  BY PageAssumption DEF PageOK
<1>2. n \in 0 .. N /\ (n < N => p.slots[n + 1].size = 0)
  <2> DEFINE empty == {x \in 0 .. N - 1 : p.slots[x + 1].size = 0}
  <2>1. n = IF empty = {} THEN N ELSE CHOOSE x \in empty : \A y \in empty : x <= y
    BY DEF InsertSlot, SlotAt
  <2>2. CASE empty = {}
    BY <1>1, <2>1, <2>2
  <2>3. CASE empty # {}
    <3>1. \E x \in empty : \A y \in empty : x <= y
      <4>1. empty \subseteq Nat
        BY <1>1
      <4> HIDE DEF empty
      <4> QED BY <2>3, <4>1, LeastElement, Zenon, ZenonT(30)
    <3>2. n \in empty
      BY <2>1, <2>3, <3>1, Zenon
    <3> QED BY <1>1, <3>2
  <2> QED BY <2>2, <2>3
<1>3. /\ DOMAIN q = PageFields /\ q.prev = p.prev /\ q.next = p.next /\ q.fsp = p.fsp - L /\ q.slots = new
  BY DEF InsertTuple, PageOK, PageFields
<1> HIDE DEF q, n, N, L
<1>4. m \in Nat /\ n + 1 \in 1 .. m /\ N <= m /\ m <= N + 1 /\ n \in Nat
      /\ \A i \in 1 .. m : i # n + 1 => i \in 1 .. N
  BY <1>1, <1>2
<1> HIDE DEF m
<1>5. L + SIZE_TUPLE <= (p.fsp - SIZE_TABLE_PAGE_HEADER) - (SIZE_TUPLE * N)
  BY DEF InsertFits, GetFreeSpaceRemaining, L, N
<1>6. SIZE_TUPLE * m \in Nat /\ SIZE_TUPLE * m <= (SIZE_TUPLE * N) + SIZE_TUPLE /\ SIZE_TUPLE * N \in Nat
  <2>1. m = N \/ m = N + 1
    BY <1>1, <1>2 DEF m
  <2>2. /\ SIZE_TUPLE * N \in Nat /\ SIZE_TUPLE * (N + 1) = (SIZE_TUPLE * N) + SIZE_TUPLE
        /\ SIZE_TUPLE * (N + 1) \in Nat
    BY <1>1, SlotSpace
  <2> QED BY <1>1, <2>1, <2>2
<1> DEFINE fsp == p.fsp
           before == SIZE_TUPLE * N
           after == SIZE_TUPLE * m
<1>7. /\ L <= fsp /\ fsp - L \in Nat /\ fsp - L <= BUSTUB_PAGE_SIZE
      /\ ((fsp - L) - SIZE_TABLE_PAGE_HEADER) - after >= 0
  <2>1. /\ before \in Nat /\ after \in Nat /\ after <= before + SIZE_TUPLE
        /\ L + SIZE_TUPLE <= (fsp - SIZE_TABLE_PAGE_HEADER) - before
    BY <1>5, <1>6
  <2>2. fsp \in Nat /\ fsp <= BUSTUB_PAGE_SIZE
    BY <1>1
  <2> HIDE DEF fsp, before, after
  <2> QED BY <1>1, <2>1, <2>2
<1>8. \A i \in 1 .. m : new[i] \in SlotFields
  <2>1. Slot(p.fsp - L, L) \in SlotFields
    BY <1>1, <1>7 DEF Slot, SlotFields
  <2> QED BY <1>1, <1>4, <2>1
<1>9. new \in Seq(SlotFields) /\ Len(new) = m /\ DOMAIN new = 1 .. m
  BY <1>4, <1>8, SlotSequence
<1>10. /\ new[n + 1].offset = p.fsp - L /\ new[n + 1].size = L
       /\ \A i \in DOMAIN new : i # n + 1 => i \in DOMAIN p.slots /\ new[i] = p.slots[i]
       /\ n + 1 \in DOMAIN p.slots => p.slots[n + 1].size = 0
       /\ DOMAIN p.slots \subseteq DOMAIN new /\ n + 1 \in DOMAIN new
  BY <1>1, <1>2, <1>4, <1>9 DEF Slot
<1> HIDE DEF new
<1>11. Tiles(new, p.fsp - L)
  BY <1>1, <1>7, <1>9, <1>10, TilesInsert, Zenon, ZenonT(30)
<1>12. GetFreeSpaceRemaining(q) >= 0
  <2>1. GetFreeSpaceRemaining(q) = ((p.fsp - L) - SIZE_TABLE_PAGE_HEADER) - (SIZE_TUPLE * m)
    BY <1>3, <1>9 DEF GetFreeSpaceRemaining
  <2> QED BY <1>7, <2>1
<1>13. Grown(p, q)
  BY <1>3, <1>4, <1>7, <1>9, <1>11, <1>12 DEF Grown, PageOK, N
<1>14. HasSlot(q, n)
  BY <1>3, <1>4, <1>9 DEF HasSlot
<1> QED BY <1>13, <1>14 DEF q, n

\* Slots that differ from a slot in some fields.
LEMMA SlotMarked ==
  ASSUME NEW s \in SlotFields, NEW b \in BOOLEAN
  PROVE  /\ [s EXCEPT !.deleted = b] \in SlotFields
         /\ [s EXCEPT !.deleted = b].offset = s.offset /\ [s EXCEPT !.deleted = b].size = s.size
BY DEF SlotFields

\* A page is well formed again when only marks change.
LEMMA SameSlots ==
  ASSUME NEW p, PageOK(p), NEW q, DOMAIN q = PageFields, q.prev = p.prev, q.next = p.next, q.fsp = p.fsp,
         q.slots \in Seq(SlotFields), DOMAIN q.slots = DOMAIN p.slots, Len(q.slots) = Len(p.slots),
         \A i \in DOMAIN p.slots : /\ q.slots[i].size = p.slots[i].size
                                   /\ p.slots[i].size > 0 => q.slots[i].offset = p.slots[i].offset
  PROVE  Grown(p, q)
<1>1. p.slots \in Seq(SlotFields) /\ p.fsp \in Nat /\ Tiles(p.slots, p.fsp) /\ Len(p.slots) \in Nat
  BY DEF PageOK
<1>2. Tiles(q.slots, q.fsp)
  BY <1>1, TilesSame
<1>3. GetFreeSpaceRemaining(q) = GetFreeSpaceRemaining(p)
  BY DEF GetFreeSpaceRemaining
<1> QED BY <1>1, <1>2, <1>3 DEF Grown, PageOK

\* Setting or clearing the mark of a slot.
LEMMA MarkedGrows ==
  ASSUME NEW p, PageOK(p), NEW n, HasSlot(p, n), NEW b \in BOOLEAN
  PROVE  Grown(p, [p EXCEPT !.slots[n + 1].deleted = b])
<1> DEFINE q == [p EXCEPT !.slots[n + 1].deleted = b]
<1>1. p.slots \in Seq(SlotFields) /\ Len(p.slots) \in Nat /\ DOMAIN p.slots = 1 .. Len(p.slots) /\ DOMAIN p = PageFields
  BY DEF PageOK
<1>2. n + 1 \in DOMAIN p.slots
  BY <1>1 DEF HasSlot
<1>3. \A i \in DOMAIN p.slots : p.slots[i] \in SlotFields
  BY <1>1, SlotTypes
<1> DEFINE new == [p.slots EXCEPT ![n + 1].deleted = b]
<1>4. DOMAIN q = PageFields /\ q.prev = p.prev /\ q.next = p.next /\ q.fsp = p.fsp /\ q.slots = new
  BY <1>1 DEF PageFields
<1>5. DOMAIN new = DOMAIN p.slots
      /\ \A i \in DOMAIN p.slots : i # n + 1 => new[i] = p.slots[i]
  OBVIOUS
<1>6. /\ new[n + 1] \in SlotFields
      /\ new[n + 1].offset = p.slots[n + 1].offset /\ new[n + 1].size = p.slots[n + 1].size
  <2>1. new[n + 1] = [p.slots[n + 1] EXCEPT !.deleted = b]
    BY <1>2
  <2> QED BY <1>2, <1>3, <2>1, SlotMarked, Zenon
<1>7. \A i \in 1 .. Len(p.slots) : new[i] \in SlotFields
  BY <1>1, <1>3, <1>5, <1>6
<1>8. new = [i \in 1 .. Len(p.slots) |-> new[i]]
  BY <1>1
<1> HIDE DEF new
<1>9. new \in Seq(SlotFields) /\ Len(new) = Len(p.slots) /\ DOMAIN new = 1 .. Len(p.slots)
  BY <1>1, <1>7, <1>8, SlotSequence, Zenon, ZenonT(30)
<1>10. \A i \in DOMAIN p.slots : new[i].size = p.slots[i].size /\ new[i].offset = p.slots[i].offset
  BY <1>5, <1>6
<1> HIDE DEF q
<1>11. Grown(p, q)
  BY <1>1, <1>4, <1>9, <1>10, SameSlots
<1> QED BY <1>11 DEF q

\* The room a resized tuple leaves.
LEMMA ResizeArithmetic ==
  \A fsp, L, o, z, room, header, P \in Nat :
    fsp <= o /\ o + z <= P /\ fsp - header - room + z >= L =>
      /\ z - L \in Int /\ fsp + (z - L) \in Nat /\ fsp + (z - L) <= P
      /\ (fsp + (z - L)) - header - room >= 0
OBVIOUS

\* Resizing a tuple, when the new one fits.
LEMMA UpdateTupleGrows ==
  ASSUME NEW p, PageOK(p), NEW n, NEW tuple, Len(tuple) \in Nat \ {0}, UpdateTupleOK(p, n, tuple)
  PROVE  Grown(p, UpdateTuple(p, n, tuple))
<1> DEFINE q == UpdateTuple(p, n, tuple)
           N == Len(p.slots)
           k == n + 1
           L == Len(tuple)
           s == p.slots[k]
           o == s.offset
           z == s.size
           d == z - L
           size(i) == IF i = k THEN L ELSE p.slots[i].size
           offset(i) == IF size(i) > 0 /\ p.slots[i].offset < o + z THEN p.slots[i].offset + d
                        ELSE p.slots[i].offset
           new == [i \in DOMAIN p.slots |-> [p.slots[i] EXCEPT !.size = size(i), !.offset = offset(i)]]
           fsp == p.fsp
           room == SIZE_TUPLE * N
<1>1. p.slots \in Seq(SlotFields) /\ N \in Nat /\ DOMAIN p.slots = 1 .. N /\ L \in Nat \ {0}
      /\ fsp \in Nat /\ fsp <= BUSTUB_PAGE_SIZE /\ BUSTUB_PAGE_SIZE \in Nat /\ Tiles(p.slots, fsp)
      /\ SIZE_TABLE_PAGE_HEADER \in Nat /\ SIZE_TUPLE \in Nat /\ DOMAIN p = PageFields
  BY PageAssumption DEF PageOK
<1>2. n \in Nat /\ k \in DOMAIN p.slots
  BY <1>1 DEF UpdateTupleOK, HasSlot
<1>3. \A i \in DOMAIN p.slots : p.slots[i] \in SlotFields /\ p.slots[i].offset \in Nat /\ p.slots[i].size \in Nat
  BY <1>1, SlotTypes
<1>4. o \in Nat /\ z \in Nat /\ z > 0
  <2>1. o \in Nat /\ z \in Nat
    BY <1>2, <1>3
  <2>2. z # 0
    BY DEF UpdateTupleOK, IsDeleted, SlotAt
  <2> QED BY <2>1, <2>2
<1>5. fsp - SIZE_TABLE_PAGE_HEADER - room + z >= L /\ fsp - SIZE_TABLE_PAGE_HEADER - room >= 0 /\ room \in Nat
  <2>1. room \in Nat
    BY <1>1, SlotSpace, Zenon
  <2>2. fsp - SIZE_TABLE_PAGE_HEADER - room + z >= L
    BY DEF UpdateTupleOK, GetFreeSpaceRemaining, SlotAt
  <2>3. fsp - SIZE_TABLE_PAGE_HEADER - room >= 0
    BY DEF PageOK, GetFreeSpaceRemaining
  <2> QED BY <2>1, <2>2, <2>3
<1>6. DOMAIN q = PageFields /\ q.prev = p.prev /\ q.next = p.next /\ q.fsp = fsp + d /\ q.slots = new
  BY <1>1 DEF UpdateTuple, SlotAt, PageFields
<1>7. /\ fsp <= o /\ o + z <= BUSTUB_PAGE_SIZE
      /\ \A i \in DOMAIN p.slots : p.slots[i].size > 0 => fsp <= p.slots[i].offset
  BY <1>1, <1>2, <1>4, SlotFunctions, Zenon, ZenonT(30) DEF Tiles, Fill
<1>71. /\ fsp <= o /\ o + z <= BUSTUB_PAGE_SIZE /\ L \in Nat \ {0} /\ fsp \in Nat
       /\ BUSTUB_PAGE_SIZE \in Nat /\ SIZE_TABLE_PAGE_HEADER \in Nat
  BY <1>1, <1>7
<1> HIDE DEF q, N, k, L, s, o, z, fsp, room
<1>8. d \in Int /\ fsp + d \in Nat /\ fsp + d <= BUSTUB_PAGE_SIZE
      /\ (fsp + d) - SIZE_TABLE_PAGE_HEADER - room >= 0
  BY <1>4, <1>5, <1>71, ResizeArithmetic
<1>9. \A i \in DOMAIN p.slots : p.slots[i].size > 0 => p.slots[i].offset + d \in Nat
  <2>1. \A a \in Nat : fsp <= a => a + d \in Nat
    BY <1>1, <1>8
  <2> HIDE DEF d
  <2> QED BY <1>3, <1>7, <2>1
<1>10. \A i \in DOMAIN p.slots : size(i) \in Nat /\ offset(i) \in Nat
  <2>1. p.slots[k].size > 0
    BY <1>4 DEF s, z
  <2> HIDE DEF d
  <2> QED BY <1>1, <1>3, <1>9, <2>1
<1>11. \A i \in DOMAIN p.slots : new[i] \in SlotFields /\ new[i].size = size(i) /\ new[i].offset = offset(i)
  <2> SUFFICES ASSUME NEW i \in DOMAIN p.slots
               PROVE  new[i] \in SlotFields /\ new[i].size = size(i) /\ new[i].offset = offset(i)
    BY Zenon
  <2>1. new[i] = [p.slots[i] EXCEPT !.size = size(i), !.offset = offset(i)]
    BY Zenon
  <2>2. ASSUME NEW a \in Nat, NEW b \in Nat
        PROVE  /\ [p.slots[i] EXCEPT !.size = a, !.offset = b] \in SlotFields
               /\ [p.slots[i] EXCEPT !.size = a, !.offset = b].size = a
               /\ [p.slots[i] EXCEPT !.size = a, !.offset = b].offset = b
    <3> DEFINE u == p.slots[i]
    <3>1. u \in SlotFields
      BY <1>3
    <3> HIDE DEF u
    <3>2. /\ [u EXCEPT !.size = a, !.offset = b] \in SlotFields
          /\ [u EXCEPT !.size = a, !.offset = b].size = a
          /\ [u EXCEPT !.size = a, !.offset = b].offset = b
      BY <3>1, Zenon DEF SlotFields
    <3> QED BY <3>2 DEF u
  <2> HIDE DEF size, offset
  <2> QED BY <1>10, <2>1, <2>2, ZenonT(30)
<1>12. new = [i \in 1 .. N |-> new[i]]
  BY <1>1
<1> HIDE DEF new
<1>13. new \in Seq(SlotFields) /\ Len(new) = N /\ DOMAIN new = 1 .. N
  BY <1>1, <1>11, <1>12, SlotSequence
<1>14. Tiles(new, fsp + d)
  <2>1. new[k].size = L /\ new[k].offset = o + d /\ d = p.slots[k].size - L /\ p.slots[k].size > 0
        /\ p.slots[k].offset = o /\ p.slots[k].size = z
    <3>1. p.slots[k].offset = o /\ p.slots[k].size = z
      BY DEF s, o, z
    <3>2. o < o + z
      BY <1>4
    <3>3. L > 0
      BY <1>1
    <3> QED BY <1>2, <1>4, <1>11, <3>1, <3>2, <3>3
  <2>2. ASSUME NEW i \in DOMAIN p.slots, i # k
        PROVE  /\ new[i].size = p.slots[i].size
               /\ p.slots[i].size > 0 /\ p.slots[i].offset < p.slots[k].offset =>
                    new[i].offset = p.slots[i].offset + d
               /\ p.slots[i].size > 0 /\ p.slots[i].offset >= p.slots[k].offset + p.slots[k].size =>
                    new[i].offset = p.slots[i].offset
    <3>1. \A a \in Nat : (a < o => a < o + z) /\ (a >= o + z => ~ (a < o + z))
      BY <1>4
    <3> HIDE DEF d
    <3> QED BY <1>3, <1>11, <2>1, <2>2, <3>1
  <2>3. Moved(p.slots, new, k, d)
    BY <1>1, <1>2, <1>13, <2>1, <2>2, Zenon DEF Moved
  <2> HIDE DEF d
  <2> QED BY <1>1, <1>8, <1>13, <2>3, TilesShift
<1>15. GetFreeSpaceRemaining(q) >= 0
  <2>1. GetFreeSpaceRemaining(q) = (fsp + d) - SIZE_TABLE_PAGE_HEADER - room
    <3>1. Len(q.slots) = N /\ q.fsp = fsp + d
      BY <1>6, <1>13
    <3> HIDE DEF d
    <3> QED BY <3>1, Remaining DEF room
  <2> QED BY <1>8, <2>1
<1>16. Grown(p, q)
  BY <1>1, <1>6, <1>8, <1>13, <1>14, <1>15 DEF Grown, PageOK, N
<1> QED BY <1>16 DEF q

\* Dropping a tuple, or dropping nothing in an empty slot.
LEMMA ApplyDeleteGrows ==
  ASSUME NEW p, PageOK(p), NEW n, HasSlot(p, n)
  PROVE  Grown(p, ApplyDelete(p, n))
<1> DEFINE q == ApplyDelete(p, n)
           N == Len(p.slots)
           k == n + 1
           s == p.slots[k]
           o == s.offset
           z == s.size
           new == [i \in DOMAIN p.slots |->
                     IF i = k THEN EmptySlot
                     ELSE IF p.slots[i].size # 0 /\ p.slots[i].offset < o
                       THEN [p.slots[i] EXCEPT !.offset = p.slots[i].offset + z] ELSE p.slots[i]]
           fsp == p.fsp
           room == SIZE_TUPLE * N
<1>1. p.slots \in Seq(SlotFields) /\ N \in Nat /\ DOMAIN p.slots = 1 .. N
      /\ fsp \in Nat /\ fsp <= BUSTUB_PAGE_SIZE /\ BUSTUB_PAGE_SIZE \in Nat /\ Tiles(p.slots, fsp)
      /\ SIZE_TABLE_PAGE_HEADER \in Nat /\ SIZE_TUPLE \in Nat /\ DOMAIN p = PageFields
  BY PageAssumption DEF PageOK
<1>2. n \in Nat /\ k \in DOMAIN p.slots
  BY <1>1 DEF HasSlot
<1>3. \A i \in DOMAIN p.slots : p.slots[i] \in SlotFields /\ p.slots[i].offset \in Nat /\ p.slots[i].size \in Nat
  BY <1>1, SlotTypes
<1>4. o \in Nat /\ z \in Nat
  BY <1>2, <1>3
<1>5. fsp - SIZE_TABLE_PAGE_HEADER - room >= 0 /\ room \in Nat
  <2>1. room \in Nat
    BY <1>1, SlotSpace
  <2>2. fsp - SIZE_TABLE_PAGE_HEADER - room >= 0
    BY DEF PageOK, GetFreeSpaceRemaining
  <2> QED BY <2>1, <2>2
<1>6. DOMAIN q = PageFields /\ q.prev = p.prev /\ q.next = p.next /\ q.fsp = fsp + z /\ q.slots = new
  <2>1. q.slots = new
    <3> DEFINE data == MoveAndCopy(p, o, z, <<>>, 0)
    <3>1. q = [p EXCEPT !.fsp = fsp + z, !.data = data, !.slots = new]
      BY DEF ApplyDelete, SlotAt
    <3> HIDE DEF q, new, data, fsp, z
    <3> QED BY <1>1, <3>1 DEF PageFields
  <2>2. DOMAIN q = PageFields /\ q.prev = p.prev /\ q.next = p.next /\ q.fsp = fsp + z
    BY <1>1 DEF ApplyDelete, SlotAt, PageFields
  <2> QED BY <2>1, <2>2
<1>7. z > 0 => fsp <= o /\ o + z <= BUSTUB_PAGE_SIZE
  BY <1>1, <1>2, <1>4, SlotFunctions DEF Tiles, Fill
<1> HIDE DEF q, N, k, s, o, z, fsp, room
<1>8. fsp + z \in Nat /\ fsp + z <= BUSTUB_PAGE_SIZE /\ (fsp + z) - SIZE_TABLE_PAGE_HEADER - room >= 0
  <2>1. fsp \in Nat /\ fsp <= BUSTUB_PAGE_SIZE /\ BUSTUB_PAGE_SIZE \in Nat /\ SIZE_TABLE_PAGE_HEADER \in Nat
    BY <1>1
  <2> QED BY <1>4, <1>5, <1>7, <2>1
<1>9. new[k] = EmptySlot
  BY <1>2
<1>10. /\ EmptySlot \in SlotFields /\ EmptySlot.size = 0
  BY DEF EmptySlot, Slot, SlotFields
<1>11. ASSUME NEW i \in DOMAIN p.slots, i # k
       PROVE  /\ new[i] \in SlotFields /\ new[i].size = p.slots[i].size
              /\ p.slots[i].size # 0 /\ p.slots[i].offset < o => new[i].offset = p.slots[i].offset + z
              /\ ~ (p.slots[i].size # 0 /\ p.slots[i].offset < o) => new[i].offset = p.slots[i].offset
  <2>1. CASE p.slots[i].size # 0 /\ p.slots[i].offset < o
    <3>1. new[i] = [p.slots[i] EXCEPT !.offset = p.slots[i].offset + z]
      BY <1>11, <2>1
    <3>2. /\ [p.slots[i] EXCEPT !.offset = p.slots[i].offset + z] \in SlotFields
          /\ [p.slots[i] EXCEPT !.offset = p.slots[i].offset + z].offset = p.slots[i].offset + z
          /\ [p.slots[i] EXCEPT !.offset = p.slots[i].offset + z].size = p.slots[i].size
      <4> DEFINE u == p.slots[i]
      <4>1. u \in SlotFields
        BY <1>3
      <4> HIDE DEF u
      <4>2. /\ [u EXCEPT !.offset = u.offset + z] \in SlotFields
            /\ [u EXCEPT !.offset = u.offset + z].offset = u.offset + z /\ [u EXCEPT !.offset = u.offset + z].size = u.size
        BY <1>4, <4>1 DEF SlotFields
      <4> QED BY <4>2 DEF u
    <3> HIDE DEF new
    <3> QED BY <2>1, <3>1, <3>2
  <2>2. CASE ~ (p.slots[i].size # 0 /\ p.slots[i].offset < o)
    <3>1. new[i] = p.slots[i]
      BY <1>11, <2>2
    <3> QED BY <1>3, <2>2, <3>1
  <2> QED BY <2>1, <2>2
<1>12. new = [i \in 1 .. N |-> new[i]] /\ \A i \in 1 .. N : new[i] \in SlotFields
  <2>1. new = [i \in 1 .. N |-> new[i]]
    BY <1>1
  <2>2. \A i \in 1 .. N : new[i] \in SlotFields
    BY <1>1, <1>9, <1>10, <1>11
  <2> QED BY <2>1, <2>2
<1> HIDE DEF new
<1>13. new \in Seq(SlotFields) /\ Len(new) = N /\ DOMAIN new = 1 .. N
  BY <1>1, <1>12, SlotSequence
<1>14. p.slots[k].offset = o /\ p.slots[k].size = z
  BY DEF s, o, z
<1>15. Tiles(new, fsp + z)
  <2>1. CASE z > 0
    <3>1. ASSUME NEW i \in DOMAIN p.slots, i # k
          PROVE  /\ new[i].size = p.slots[i].size
                 /\ p.slots[i].size > 0 /\ p.slots[i].offset < p.slots[k].offset =>
                      new[i].offset = p.slots[i].offset + z
                 /\ p.slots[i].size > 0 /\ p.slots[i].offset >= p.slots[k].offset + p.slots[k].size =>
                      new[i].offset = p.slots[i].offset
      <4>1. \A a \in Nat : (a > 0 => a # 0) /\ (a >= o + z => ~ (a < o))
        BY <1>4
      <4> QED BY <1>3, <1>11, <1>14, <3>1, <4>1
    <3>2. z = p.slots[k].size - new[k].size /\ ~ (new[k].size > 0) /\ p.slots[k].size > 0
      BY <1>4, <1>9, <1>10, <1>14, <2>1
    <3>3. Moved(p.slots, new, k, z)
      BY <1>1, <1>2, <1>13, <3>1, <3>2 DEF Moved
    <3> QED BY <1>1, <1>4, <1>8, <1>13, <3>3, TilesShift
  <2>2. CASE ~ (z > 0)
    <3>1. z = 0 /\ fsp + z = fsp
      BY <1>1, <1>4, <2>2
    <3>2. ASSUME NEW i \in DOMAIN p.slots
          PROVE  /\ new[i].size = p.slots[i].size
                 /\ p.slots[i].size > 0 => new[i].offset = p.slots[i].offset
      <4>1. CASE i = k
        BY <1>9, <1>10, <1>14, <3>1, <4>1
      <4>2. CASE i # k
        BY <1>3, <1>11, <3>1, <4>2
      <4> QED BY <4>1, <4>2
    <3>3. Tiles(new, fsp)
      BY <1>1, <1>13, <3>2, TilesSame
    <3> QED BY <3>1, <3>3
  <2> QED BY <2>1, <2>2
<1>16. GetFreeSpaceRemaining(q) >= 0
  <2>1. Len(q.slots) = N /\ q.fsp = fsp + z
    BY <1>6, <1>13
  <2>2. GetFreeSpaceRemaining(q) = (fsp + z) - SIZE_TABLE_PAGE_HEADER - room
    BY <2>1, Remaining DEF room
  <2> QED BY <1>8, <2>2
<1>17. Grown(p, q)
  BY <1>1, <1>6, <1>8, <1>13, <1>15, <1>16 DEF Grown, PageOK, N
<1> QED BY <1>17 DEF q

-----------------------------------------------------------------------------
(* Pages that change and pages that are added. *)

LEMMA PageChanged ==
  ASSUME PagesInv, NEW p \in PageIds, NEW q, pages' = [pages EXCEPT ![p] = q], Grown(pages[p], q)
  PROVE  PagesStep
<1>1. PageIds' = PageIds /\ NumPages' = NumPages
  BY DEF PageIds, NumPages
<1>2. \A x \in PageIds : pages'[x] = IF x = p THEN q ELSE pages[x]
  BY DEF PageIds
<1>3. /\ PageOK(q) /\ q.prev = pages[p].prev /\ q.next = pages[p].next
      /\ Len(q.slots) >= Len(pages[p].slots)
  BY DEF Grown
<1>4. PagesInv'
  <2>1. \A x \in PageIds : PageOK(pages'[x]) /\ pages'[x].next = pages[x].next /\ pages'[x].prev = pages[x].prev
    BY <1>2, <1>3 DEF PagesInv
  <2> QED BY <1>1, <2>1 DEF PagesInv
<1> QED BY <1>1, <1>2, <1>3, <1>4, PageTypes DEF PagesStep

\* A page just formatted.
LEMMA InitPageOK ==
  ASSUME NEW prev
  PROVE  /\ PageOK(InitPage(prev)) /\ InitPage(prev).prev = prev
         /\ InitPage(prev).next = INVALID_PAGE_ID
<1> DEFINE q == InitPage(prev)
<1>1. /\ DOMAIN q = PageFields /\ q.prev = prev /\ q.next = INVALID_PAGE_ID
      /\ q.fsp = BUSTUB_PAGE_SIZE /\ q.slots = <<>>
  BY DEF InitPage, PageFields
<1> HIDE DEF q
<1>2. BUSTUB_PAGE_SIZE \in Nat /\ SIZE_TABLE_PAGE_HEADER \in Nat /\ SIZE_TUPLE \in Nat
      /\ SIZE_TABLE_PAGE_HEADER <= BUSTUB_PAGE_SIZE
  BY PageAssumption
<1>3. q.slots \in Seq(SlotFields) /\ Len(q.slots) = 0 /\ DOMAIN q.slots = {}
  BY <1>1
<1>4. GetFreeSpaceRemaining(q) >= 0
  <2>1. GetFreeSpaceRemaining(q) = BUSTUB_PAGE_SIZE - SIZE_TABLE_PAGE_HEADER - SIZE_TUPLE * 0
    BY <1>1, <1>3, Remaining, Zenon
  <2>2. SIZE_TUPLE * 0 = 0
    BY <1>2
  <2> QED BY <1>2, <2>1, <2>2
<1>5. Tiles(q.slots, q.fsp)
  <2>1. BUSTUB_PAGE_SIZE .. BUSTUB_PAGE_SIZE - 1 = {}
    BY <1>2
  <2> QED BY <1>1, <1>3, <2>1 DEF Tiles, Fill
<1>6. PageOK(q)
  BY <1>1, <1>2, <1>3, <1>4, <1>5 DEF PageOK
<1> QED BY <1>1, <1>6 DEF q

\* The page id behind a first few.
LEMMA NextPage ==
  ASSUME NEW n \in Nat \ {0}
  PROVE  AllocatePage(0 .. n - 1) = n /\ (0 .. n - 1) \union {n} = 0 .. (n + 1) - 1
<1> DEFINE S == {p + 1 : p \in 0 .. n - 1}
<1>1. n \in S /\ n \notin 0 .. n - 1
  <2>1. n - 1 \in 0 .. n - 1 /\ (n - 1) + 1 = n
    OBVIOUS
  <2> QED BY <2>1
<1>2. \A m \in S : m \notin 0 .. n - 1 => m = n
  OBVIOUS
<1> HIDE DEF S
<1>3. (CHOOSE m \in S : m \notin 0 .. n - 1) = n
  BY <1>1, <1>2
<1>4. AllocatePage(0 .. n - 1) = n
  BY <1>3 DEF AllocatePage, S
<1> QED BY <1>4

\* A page linked behind the last one.
LEMMA PageAdded ==
  ASSUME PagesInv, NEW p \in PageIds, pages[p].next = INVALID_PAGE_ID,
         pages' = [x \in PageIds \union {NumPages} |->
                     IF x = NumPages THEN InitPage(p)
                     ELSE IF x = p THEN [pages[p] EXCEPT !.next = NumPages] ELSE pages[x]]
  PROVE  PagesStep /\ PageIds' = PageIds \union {NumPages} /\ NumPages \notin PageIds
<1> DEFINE n == NumPages
<1>1. n \in Nat \ {0} /\ PageIds = 0 .. n - 1 /\ \A x \in PageIds : PageOK(pages[x])
  BY DEF PagesInv
<1>2. p = n - 1
  BY <1>1 DEF PagesInv, INVALID_PAGE_ID
<1>3. PageIds' = PageIds \union {n} /\ n \notin PageIds
  BY <1>1 DEF PageIds
<1>4. NumPages' = n + 1 /\ PageIds' = 0 .. (n + 1) - 1
  <2>1. n + 1 \in Nat \ {0} /\ n \in Nat \ {0}
    BY <1>1
  <2>2. PageIds' = 0 .. (n + 1) - 1
    BY <1>1, <1>3, <2>1, NextPage
  <2>3. NumPages' = AllocatePage(PageIds')
    BY DEF NumPages
  <2> HIDE DEF n
  <2> QED BY <2>1, <2>2, <2>3, NextPage
<1>5. /\ pages'[n] = InitPage(p) /\ pages'[p] = [pages[p] EXCEPT !.next = n]
      /\ \A x \in PageIds : x # p => pages'[x] = pages[x]
  BY <1>3
<1> DEFINE q == [pages[p] EXCEPT !.next = n]
<1>6. DOMAIN q = PageFields /\ q.prev = pages[p].prev /\ q.next = n /\ q.fsp = pages[p].fsp
      /\ q.slots = pages[p].slots
  BY <1>1 DEF PageOK, PageFields
<1> HIDE DEF n, q
<1>7. PageOK(q)
  BY <1>1, <1>6 DEF PageOK, GetFreeSpaceRemaining
<1>8. /\ PageOK(pages'[n]) /\ pages'[n].prev = p /\ pages'[n].next = INVALID_PAGE_ID
  <2>1. PageOK(InitPage(p)) /\ InitPage(p).prev = p /\ InitPage(p).next = INVALID_PAGE_ID
    BY InitPageOK
  <2> QED BY <1>5, <2>1, Zenon
<1>9. \A x \in PageIds' : PageOK(pages'[x])
  BY <1>1, <1>3, <1>5, <1>7, <1>8 DEF q
<1>10. \A x \in PageIds' : /\ pages'[x].next = IF x = (n + 1) - 1 THEN INVALID_PAGE_ID ELSE x + 1
                           /\ pages'[x].prev = x - 1
  <2> SUFFICES ASSUME NEW x \in PageIds'
               PROVE  /\ pages'[x].next = IF x = (n + 1) - 1 THEN INVALID_PAGE_ID ELSE x + 1
                      /\ pages'[x].prev = x - 1
    OBVIOUS
  <2>1. CASE x = n
    BY <1>1, <1>2, <1>8, <2>1
  <2>2. CASE x = p
    <3>1. pages'[x].next = n /\ pages'[x].prev = p - 1
      BY <1>5, <1>6, <2>2, Zenon DEF PagesInv, q
    <3> QED BY <1>1, <1>2, <2>2, <3>1
  <2>3. CASE x \in PageIds /\ x # p
    <3>1. x \in 0 .. n - 1 /\ n \in Nat /\ x # n - 1
      BY <1>1, <1>2, <2>3
    <3>2. x # (n + 1) - 1
      BY <3>1
    <3>3. pages'[x] = pages[x]
      BY <1>5, <2>3
    <3> QED BY <2>3, <3>1, <3>2, <3>3 DEF PagesInv, n
  <2> QED BY <1>3, <2>1, <2>2, <2>3
<1>11. PagesInv'
  <2>1. n + 1 \in Nat \ {0}
    BY <1>1
  <2> QED BY <1>4, <1>9, <1>10, <2>1, Zenon, ZenonT(30) DEF PagesInv
<1>12. \A x \in PageIds : pages'[x].slots = pages[x].slots
  BY <1>5, <1>6, Zenon DEF q
<1> QED BY <1>3, <1>11, <1>12, PageTypes DEF PagesStep, n

-----------------------------------------------------------------------------
(* What a step does to a transaction. *)

LEMMA AppendIsSeq ==
  ASSUME NEW q, IsSeq(q), NEW e
  PROVE  /\ IsSeq(Append(q, e)) /\ Len(q) \in Nat /\ DOMAIN q = 1 .. Len(q)
         /\ DOMAIN Append(q, e) = 1 .. Len(q) + 1
         /\ \A i \in DOMAIN Append(q, e) : \/ i \in DOMAIN q /\ Append(q, e)[i] = q[i]
                                           \/ Append(q, e)[i] = e
<1> DEFINE S == {q[i] : i \in DOMAIN q}
           T == S \union {e}
           n == Append(q, e)
<1>1. q \in Seq(S)
  BY DEF IsSeq
<1> HIDE DEF S
<1>2. q \in Seq(T) /\ e \in T
  BY <1>1
<1> HIDE DEF T
<1>3. n \in Seq(T) /\ Len(n) = Len(q) + 1 /\ Len(q) \in Nat /\ DOMAIN q = 1 .. Len(q)
      /\ DOMAIN n = 1 .. Len(q) + 1
      /\ \A i \in 1 .. Len(q) + 1 : n[i] = IF i <= Len(q) THEN q[i] ELSE e
  BY <1>2
<1> HIDE DEF n
<1>4. IsSeq(n)
  BY <1>3 DEF IsSeq
<1>5. \A i \in DOMAIN n : (i \in DOMAIN q /\ n[i] = q[i]) \/ n[i] = e
  BY <1>3
<1> QED BY <1>3, <1>4, <1>5 DEF n

LEMMA PopIsSeq ==
  ASSUME NEW q, IsSeq(q), q # <<>>
  PROVE  /\ IsSeq(SubSeq(q, 1, Len(q) - 1)) /\ Len(q) \in DOMAIN q
         /\ \A i \in DOMAIN SubSeq(q, 1, Len(q) - 1) : i \in DOMAIN q /\ SubSeq(q, 1, Len(q) - 1)[i] = q[i]
<1> DEFINE S == {q[i] : i \in DOMAIN q}
           n == SubSeq(q, 1, Len(q) - 1)
<1>1. q \in Seq(S)
  BY DEF IsSeq
<1> HIDE DEF S
<1>2. Len(q) \in Nat \ {0} /\ DOMAIN q = 1 .. Len(q)
  BY <1>1
<1>3. n \in Seq(S) /\ Len(n) = Len(q) - 1 /\ DOMAIN n = 1 .. Len(q) - 1 /\ \A i \in 1 .. Len(q) - 1 : n[i] = q[i]
  BY <1>1, <1>2
<1> HIDE DEF n
<1>4. IsSeq(n)
  <2>1. Len(n) \in Nat /\ DOMAIN n = 1 .. Len(n)
    BY <1>2, <1>3
  <2> QED BY <1>3, <2>1 DEF IsSeq
<1> QED BY <1>2, <1>3, <1>4 DEF n

Larger(ps, new) ==
  /\ DOMAIN ps \subseteq DOMAIN new
  /\ \A p \in DOMAIN ps : /\ Len(ps[p].slots) \in Nat /\ Len(new[p].slots) \in Nat
                           /\ Len(new[p].slots) >= Len(ps[p].slots)

LEMMA PagesStepLarger ==
  ASSUME PagesInv, PagesStep
  PROVE  Larger(pages, pages')
<1>1. \A p \in PageIds : Len(pages[p].slots) \in Nat
  BY PageTypes
<1>2. \A p \in PageIds' : Len(pages'[p].slots) \in Nat
  BY DEF PagesStep, PagesInv, PageOK
<1> QED BY <1>1, <1>2 DEF PagesStep, Larger, PageIds

LEMMA RecordKept ==
  ASSUME NEW rec, NEW ps, NEW new, Larger(ps, new), RecordOK(rec, ps)
  PROVE  RecordOK(rec, new)
BY DEF RecordOK, Larger, HasSlot

\* A transaction that does nothing, while others do not touch its latches.
LEMMA TxnKept ==
  ASSUME NEW x, NEW t, NEW ps, NEW new, NEW la, NEW la2, TxnOK(x, t, ps, la), Larger(ps, new),
         \A p \in DOMAIN new : la2[p] = t <=> p \in DOMAIN ps /\ la[p] = t
  PROVE  TxnOK(x, t, new, la2)
<1>1. \A i \in DOMAIN x.write_set : RecordOK(x.write_set[i], new)
  BY RecordKept DEF TxnOK
<1>2. DOMAIN ps \subseteq DOMAIN new
  BY DEF Larger
<1> QED BY <1>1, <1>2 DEF TxnOK

\* A step of one transaction.
LEMMA TxnStepInv ==
  ASSUME PagesInv, TxnsInv, PagesStep, NEW t \in Txns,
         DOMAIN txn' = Txns, \A u \in Txns : u # t => txn'[u] = txn[u],
         DOMAIN latch' = PageIds',
         \A u \in Txns : u # t => \A p \in PageIds' : latch'[p] = u <=> p \in PageIds /\ latch[p] = u,
         TxnOK(txn'[t], t, pages', latch'), ~ blocked'
  PROVE  TxnsInv'
<1>1. Larger(pages, pages')
  BY PagesStepLarger
<1>2. ASSUME NEW u \in Txns
      PROVE  TxnOK(txn'[u], u, pages', latch')
  <2>1. CASE u # t
    <3>1. TxnOK(txn[u], u, pages, latch)
      BY DEF TxnsInv
    <3>2. TxnOK(txn[u], u, pages', latch')
      BY <1>1, <2>1, <3>1, TxnKept DEF PageIds
    <3> QED BY <2>1, <3>2
  <2> QED BY <2>1
<1> QED BY <1>2 DEF TxnsInv, PageIds

-----------------------------------------------------------------------------
(* The steps of a transaction, one by one. *)

\* What the invariant says of one transaction.
LEMMA TxnHas ==
  ASSUME PagesInv, TxnsInv, NEW t \in Txns
  PROVE  /\ DOMAIN txn = Txns /\ DOMAIN latch = DOMAIN pages /\ PageIds = DOMAIN pages
         /\ DOMAIN txn[t] = TxnFields
         /\ txn[t].state \in {"none", "GROWING", "COMMITTED", "ABORTED", "finished"}
         /\ txn[t].state \in {"none", "finished"} =>
              txn[t].pc = "ready" /\ txn[t].write_set = <<>> /\ txn[t].x_rows = {}
         /\ txn[t].pc = "insert" =>
              txn[t].page \in PageIds /\ latch[txn[t].page] = t /\ txn[t].tuple \in Tuples
         /\ \A p \in PageIds : latch[p] = t => txn[t].pc = "insert" /\ txn[t].page = p
         /\ IsSeq(txn[t].write_set)
         /\ \A i \in DOMAIN txn[t].write_set : RecordOK(txn[t].write_set[i], pages)
         /\ txn[t].pc # "ready" \/ txn[t].state \notin {"none", "finished"} => ~ blocked
         /\ t # None
<1>1. TxnOK(txn[t], t, pages, latch)
  BY DEF TxnsInv
<1>2. txn[t].pc # "ready" \/ txn[t].state \notin {"none", "finished"} => ~ blocked
  BY <1>1 DEF TxnsInv, TxnOK, HoldsGlobalLatch
<1>3. DOMAIN txn = Txns /\ DOMAIN latch = DOMAIN pages /\ PageIds = DOMAIN pages
  BY DEF TxnsInv, PageIds
<1> QED BY <1>1, <1>2, <1>3, NoneAssumption DEF TxnOK

\* Steps that change nothing but flags of the transaction.
LEMMA FlagsStep ==
  ASSUME PagesInv, TxnsInv, NEW t \in Txns, pages' = pages, latch' = latch, ~ blocked',
         DOMAIN txn' = Txns, \A u \in Txns : u # t => txn'[u] = txn[u],
         DOMAIN txn'[t] = TxnFields, txn[t].pc # "insert", txn'[t].pc # "insert",
         txn'[t].write_set = txn[t].write_set,
         txn'[t].state \in {"GROWING", "COMMITTED", "ABORTED", "finished"},
         txn'[t].state = "finished" =>
           txn'[t].pc = "ready" /\ txn'[t].write_set = <<>> /\ txn'[t].x_rows = {}
  PROVE  PagesStep /\ TxnsInv'
<1>1. PagesStep
  BY PagesUnchanged
<1>2. TxnOK(txn'[t], t, pages', latch')
  <2>1. /\ \A p \in DOMAIN pages : latch[p] # t
        /\ IsSeq(txn[t].write_set)
        /\ \A i \in DOMAIN txn[t].write_set : RecordOK(txn[t].write_set[i], pages)
    BY TxnHas
  <2> QED BY <2>1 DEF TxnOK
<1>3. PageIds' = PageIds /\ DOMAIN latch' = PageIds'
  BY TxnHas DEF PageIds
<1> QED BY <1>1, <1>2, <1>3, TxnStepInv, Zenon, ZenonT(30)

LEMMA BeginStep ==
  ASSUME PagesInv, TxnsInv, NEW t \in Txns, Begin(t)
  PROVE  PagesStep /\ TxnsInv'
<1>1. /\ pages' = pages /\ latch' = latch /\ ~ blocked' /\ txn' = [txn EXCEPT ![t].state = "GROWING"]
      /\ txn[t].pc = "ready"
  BY TxnHas DEF Begin
<1>2. DOMAIN txn = Txns /\ DOMAIN txn[t] = TxnFields
  BY TxnHas
<1>3. /\ DOMAIN txn' = Txns /\ \A u \in Txns : u # t => txn'[u] = txn[u]
      /\ DOMAIN txn'[t] = TxnFields /\ txn'[t].pc = "ready" /\ txn'[t].write_set = txn[t].write_set
      /\ txn'[t].state = "GROWING"
  BY <1>1, <1>2 DEF TxnFields
<1> QED BY <1>1, <1>3, FlagsStep

LEMMA CommitStep ==
  ASSUME PagesInv, TxnsInv, NEW t \in Txns, Commit(t)
  PROVE  PagesStep /\ TxnsInv'
<1>1. /\ pages' = pages /\ latch' = latch /\ ~ blocked'
      /\ txn' = [txn EXCEPT ![t].state = "COMMITTED", ![t].pc = "commit"]
      /\ txn[t].pc = "ready"
  BY TxnHas DEF Commit
<1>2. DOMAIN txn = Txns /\ DOMAIN txn[t] = TxnFields
  BY TxnHas
<1>3. /\ DOMAIN txn' = Txns /\ \A u \in Txns : u # t => txn'[u] = txn[u]
      /\ DOMAIN txn'[t] = TxnFields /\ txn'[t].pc = "commit" /\ txn'[t].write_set = txn[t].write_set
      /\ txn'[t].state = "COMMITTED"
  BY <1>1, <1>2 DEF TxnFields
<1> QED BY <1>1, <1>3, FlagsStep

LEMMA AbortStep ==
  ASSUME PagesInv, TxnsInv, NEW t \in Txns, Abort(t)
  PROVE  PagesStep /\ TxnsInv'
<1>1. /\ pages' = pages /\ latch' = latch /\ ~ blocked'
      /\ txn' = [txn EXCEPT ![t].state = "ABORTED", ![t].pc = "abort"]
      /\ txn[t].pc = "ready"
  BY TxnHas DEF Abort
<1>2. DOMAIN txn = Txns /\ DOMAIN txn[t] = TxnFields
  BY TxnHas
<1>3. /\ DOMAIN txn' = Txns /\ \A u \in Txns : u # t => txn'[u] = txn[u]
      /\ DOMAIN txn'[t] = TxnFields /\ txn'[t].pc = "abort" /\ txn'[t].write_set = txn[t].write_set
      /\ txn'[t].state = "ABORTED"
  BY <1>1, <1>2 DEF TxnFields
<1> QED BY <1>1, <1>3, FlagsStep

LEMMA EndTxnStep ==
  ASSUME PagesInv, TxnsInv, NEW t \in Txns, EndTxn(t)
  PROVE  PagesStep /\ TxnsInv'
<1>1. /\ pages' = pages /\ latch' = latch /\ ~ blocked'
      /\ txn' = [txn EXCEPT ![t].state = "finished", ![t].pc = "ready", ![t].x_rows = {}]
      /\ txn[t].pc # "insert" /\ txn[t].write_set = <<>>
  BY TxnHas DEF EndTxn
<1>2. DOMAIN txn = Txns /\ DOMAIN txn[t] = TxnFields
  BY TxnHas
<1>3. /\ DOMAIN txn' = Txns /\ \A u \in Txns : u # t => txn'[u] = txn[u]
      /\ DOMAIN txn'[t] = TxnFields /\ txn'[t].pc = "ready" /\ txn'[t].write_set = txn[t].write_set
      /\ txn'[t].state = "finished" /\ txn'[t].x_rows = {}
  BY <1>1, <1>2 DEF TxnFields
<1> QED BY <1>1, <1>3, FlagsStep

\* A write of a transaction: a page changes and the write set grows.
LEMMA WriteStep ==
  ASSUME PagesInv, TxnsInv, PagesStep, NEW t \in Txns, PageIds' = PageIds, DOMAIN latch' = PageIds, ~ blocked',
         \A p \in PageIds : latch'[p] # t /\ \A u \in Txns : u # t => (latch'[p] = u <=> latch[p] = u),
         DOMAIN txn' = Txns, \A u \in Txns : u # t => txn'[u] = txn[u],
         DOMAIN txn'[t] = TxnFields, txn'[t].pc # "insert",
         txn'[t].state \in {"GROWING", "COMMITTED", "ABORTED"},
         IsSeq(txn'[t].write_set), \A i \in DOMAIN txn'[t].write_set : RecordOK(txn'[t].write_set[i], pages')
  PROVE  TxnsInv'
<1>1. TxnOK(txn'[t], t, pages', latch')
  BY DEF TxnOK, PageIds
<1> QED BY <1>1, TxnStepInv

\* The records of a longer write set, and of a shorter one.
LEMMA AppendRecords ==
  ASSUME PagesInv, TxnsInv, PagesStep, NEW t \in Txns, NEW rec, RecordOK(rec, pages'),
         txn'[t].write_set = Append(txn[t].write_set, rec)
  PROVE  /\ IsSeq(txn'[t].write_set)
         /\ \A i \in DOMAIN txn'[t].write_set : RecordOK(txn'[t].write_set[i], pages')
<1> DEFINE ws == txn[t].write_set
<1>1. IsSeq(ws) /\ \A i \in DOMAIN ws : RecordOK(ws[i], pages)
  BY TxnHas, Zenon, ZenonT(30)
<1>2. \A i \in DOMAIN ws : RecordOK(ws[i], pages')
  BY <1>1, PagesStepLarger, RecordKept
<1> HIDE DEF ws
<1>3. IsSeq(Append(ws, rec)) /\ \A i \in DOMAIN Append(ws, rec) : RecordOK(Append(ws, rec)[i], pages')
  BY <1>1, <1>2, AppendIsSeq
<1> QED BY <1>3 DEF ws

LEMMA PopRecords ==
  ASSUME PagesInv, TxnsInv, PagesStep, NEW t \in Txns, txn[t].write_set # <<>>,
         txn'[t].write_set = SubSeq(txn[t].write_set, 1, Len(txn[t].write_set) - 1)
  PROVE  /\ IsSeq(txn'[t].write_set)
         /\ \A i \in DOMAIN txn'[t].write_set : RecordOK(txn'[t].write_set[i], pages')
<1> DEFINE ws == txn[t].write_set
           pop == SubSeq(ws, 1, Len(ws) - 1)
<1>1. IsSeq(ws) /\ \A i \in DOMAIN ws : RecordOK(ws[i], pages)
  BY TxnHas
<1>2. \A i \in DOMAIN ws : RecordOK(ws[i], pages')
  BY <1>1, PagesStepLarger, RecordKept
<1> HIDE DEF ws
<1>3. IsSeq(pop) /\ \A i \in DOMAIN pop : i \in DOMAIN ws /\ pop[i] = ws[i]
  BY <1>1, PopIsSeq DEF ws
<1> HIDE DEF pop
<1>4. \A i \in DOMAIN pop : RecordOK(pop[i], pages')
  BY <1>2, <1>3
<1> QED BY <1>3, <1>4 DEF ws, pop

LEMMA BackOK ==
  ASSUME PagesInv, TxnsInv, NEW t \in Txns, txn[t].write_set # <<>>
  PROVE  RecordOK(Back(t), pages)
<1> DEFINE ws == txn[t].write_set
<1>1. IsSeq(ws) /\ \A i \in DOMAIN ws : RecordOK(ws[i], pages)
  BY TxnHas
<1>2. Len(ws) \in DOMAIN ws
  BY <1>1, PopIsSeq
<1> QED BY <1>1, <1>2 DEF Back

LEMMA InsertStartStep ==
  ASSUME PagesInv, TxnsInv, NEW t \in Txns, NEW tuple \in Tuples, InsertStart(t, tuple)
  PROVE  PagesStep /\ TxnsInv'
<1>1. /\ pages' = pages /\ blocked' = blocked /\ ~ blocked
      /\ txn[t].state = "GROWING" /\ txn[t].pc = "ready"
  BY TxnHas DEF InsertStart, MayWrite
<1>2. /\ DOMAIN txn = Txns /\ DOMAIN txn[t] = TxnFields /\ IsSeq(txn[t].write_set) /\ t # None
      /\ \A i \in DOMAIN txn[t].write_set : RecordOK(txn[t].write_set[i], pages)
      /\ \A p \in PageIds : latch[p] # t
  BY <1>1, TxnHas
<1>3. CASE TooLarge(tuple)
  <2>1. latch' = latch /\ txn' = [txn EXCEPT ![t].state = "ABORTED"]
    BY <1>3 DEF InsertStart
  <2>2. /\ DOMAIN txn' = Txns /\ \A u \in Txns : u # t => txn'[u] = txn[u]
        /\ DOMAIN txn'[t] = TxnFields /\ txn'[t].pc = "ready" /\ txn'[t].write_set = txn[t].write_set
        /\ txn'[t].state = "ABORTED"
    BY <1>1, <1>2, <2>1 DEF TxnFields
  <2> QED BY <1>1, <2>1, <2>2, FlagsStep
<1>4. CASE ~ TooLarge(tuple)
  <2>1. /\ latch[0] = None /\ latch' = [latch EXCEPT ![0] = t]
        /\ txn' = [txn EXCEPT ![t].pc = "insert", ![t].page = 0, ![t].tuple = tuple]
    BY <1>4 DEF InsertStart, Free
  <2>2. /\ DOMAIN txn' = Txns /\ \A u \in Txns : u # t => txn'[u] = txn[u]
        /\ DOMAIN txn'[t] = TxnFields /\ txn'[t].pc = "insert" /\ txn'[t].write_set = txn[t].write_set
        /\ txn'[t].page = 0 /\ txn'[t].tuple = tuple /\ txn'[t].state = "GROWING"
    BY <1>1, <1>2, <2>1 DEF TxnFields
  <2>3. 0 \in PageIds /\ DOMAIN latch = PageIds
    BY DEF PagesInv, TxnsInv
  <2>4. PagesStep /\ PageIds' = PageIds
    BY <1>1, PagesUnchanged DEF PageIds
  <2>5. /\ DOMAIN latch' = PageIds'
        /\ \A p \in PageIds : latch'[p] = IF p = 0 THEN t ELSE latch[p]
        /\ latch'[0] = t
    BY <2>1, <2>3, <2>4
  <2>6. TxnOK(txn'[t], t, pages', latch')
    <3>1. /\ 0 \in DOMAIN pages' /\ latch'[0] = t
          /\ \A p \in DOMAIN pages' : latch'[p] = t => p = 0
      <4>1. DOMAIN pages' = PageIds
        BY <1>1 DEF PageIds
      <4>2. ASSUME NEW p \in PageIds, p # 0
            PROVE  latch'[p] # t
        BY <1>2, <2>5, <4>2
      <4> QED BY <2>3, <2>5, <4>1, <4>2, Zenon, ZenonT(30)
    <3>2. \A i \in DOMAIN txn'[t].write_set : RecordOK(txn'[t].write_set[i], pages')
      BY <1>1, <1>2, <2>2
    <3> QED BY <1>2, <2>2, <3>1, <3>2, Zenon, ZenonT(30) DEF TxnOK
  <2>7. \A u \in Txns : u # t => \A p \in PageIds' : latch'[p] = u <=> p \in PageIds /\ latch[p] = u
    BY <2>1, <2>4, <2>5, NoneAssumption
  <2> QED BY <1>1, <2>2, <2>4, <2>5, <2>6, <2>7, TxnStepInv
<1> QED BY <1>3, <1>4

LEMMA InsertHereStep ==
  ASSUME PagesInv, TxnsInv, NEW t \in Txns, InsertHere(t)
  PROVE  PagesStep /\ TxnsInv'
<1> DEFINE p == txn[t].page
           tuple == txn[t].tuple
           rid == RID(p, InsertSlot(pages[p]))
           rec == TableWriteRecord(rid, "INSERT", <<>>)
<1>1. /\ txn[t].pc = "insert" /\ InsertFits(pages[p], tuple)
      /\ pages' = [pages EXCEPT ![p] = InsertTuple(pages[p], tuple)]
      /\ latch' = [latch EXCEPT ![p] = None]
      /\ txn' = [txn EXCEPT ![t].pc = "ready", ![t].page = INVALID_PAGE_ID, ![t].tuple = <<>>,
                   ![t].x_rows = @ \union {rid}, ![t].write_set = Append(@, rec)]
      /\ blocked' = blocked
  BY DEF InsertHere
<1>2. /\ DOMAIN txn = Txns /\ DOMAIN txn[t] = TxnFields /\ t # None /\ ~ blocked
      /\ p \in PageIds /\ latch[p] = t /\ tuple \in Tuples
      /\ txn[t].state \in {"GROWING", "COMMITTED", "ABORTED"}
      /\ \A x \in PageIds : latch[x] = t => x = p
      /\ DOMAIN latch = PageIds
  BY <1>1, TxnHas
<1>3. /\ DOMAIN txn' = Txns /\ \A u \in Txns : u # t => txn'[u] = txn[u]
      /\ DOMAIN txn'[t] = TxnFields /\ txn'[t].pc = "ready"
      /\ txn'[t].write_set = Append(txn[t].write_set, rec) /\ txn'[t].state = txn[t].state
  <2> HIDE DEF rec, rid
  <2> QED BY <1>1, <1>2 DEF TxnFields
<1> HIDE DEF p, tuple
<1>4. /\ Grown(pages[p], InsertTuple(pages[p], tuple))
      /\ HasSlot(InsertTuple(pages[p], tuple), InsertSlot(pages[p]))
  <2>1. PageOK(pages[p]) /\ Len(tuple) \in Nat \ {0}
    BY <1>2, TuplesAssumption DEF PagesInv
  <2> QED BY <1>1, <2>1, InsertTupleGrows
<1>5. PagesStep /\ PageIds' = PageIds
  BY <1>1, <1>2, <1>4, PageChanged, Zenon, ZenonT(30) DEF PageIds
<1>6. RecordOK(rec, pages')
  <2>1. rec.rid.page = p /\ rec.rid.slot = InsertSlot(pages[p]) /\ rec.wtype = "INSERT"
    BY DEF TableWriteRecord, RID
  <2>2. pages'[p] = InsertTuple(pages[p], tuple) /\ p \in DOMAIN pages'
    BY <1>1, <1>2 DEF PageIds
  <2> HIDE DEF rec, rid
  <2> QED BY <1>4, <2>1, <2>2 DEF RecordOK
<1> HIDE DEF rec, rid
<1>7. /\ IsSeq(txn'[t].write_set)
      /\ \A i \in DOMAIN txn'[t].write_set : RecordOK(txn'[t].write_set[i], pages')
  BY <1>3, <1>5, <1>6, AppendRecords, Zenon, ZenonT(30)
<1>8. /\ DOMAIN latch' = PageIds
      /\ \A x \in PageIds : latch'[x] # t /\ \A u \in Txns : u # t => (latch'[x] = u <=> latch[x] = u)
  <2>1. \A x \in PageIds : latch'[x] = IF x = p THEN None ELSE latch[x]
    BY <1>1, <1>2
  <2> QED BY <1>1, <1>2, <2>1, NoneAssumption
<1>9. ~ blocked' /\ txn'[t].pc # "insert" /\ txn'[t].state \in {"GROWING", "COMMITTED", "ABORTED"}
  BY <1>1, <1>2, <1>3
<1> QED BY <1>3, <1>5, <1>7, <1>8, <1>9, WriteStep, Zenon, ZenonT(30)

LEMMA InsertMoveStep ==
  ASSUME PagesInv, TxnsInv, NEW t \in Txns, InsertMove(t)
  PROVE  PagesStep /\ TxnsInv'
<1> DEFINE p == txn[t].page
           q == pages[p].next
<1>1. /\ txn[t].pc = "insert" /\ q # INVALID_PAGE_ID /\ latch[q] = None
      /\ latch' = [latch EXCEPT ![p] = None, ![q] = t] /\ txn' = [txn EXCEPT ![t].page = q]
      /\ pages' = pages /\ blocked' = blocked
  BY DEF InsertMove, Free
<1>2. /\ DOMAIN txn = Txns /\ DOMAIN txn[t] = TxnFields /\ t # None /\ ~ blocked
      /\ p \in PageIds /\ latch[p] = t /\ txn[t].tuple \in Tuples
      /\ txn[t].state \in {"GROWING", "COMMITTED", "ABORTED"}
      /\ \A x \in PageIds : latch[x] = t => x = p
      /\ DOMAIN latch = PageIds /\ IsSeq(txn[t].write_set)
      /\ \A i \in DOMAIN txn[t].write_set : RecordOK(txn[t].write_set[i], pages)
  BY <1>1, TxnHas
<1>3. q \in PageIds
  BY <1>1, <1>2 DEF PagesInv
<1> HIDE DEF q
<1>4. /\ DOMAIN txn' = Txns /\ \A u \in Txns : u # t => txn'[u] = txn[u]
      /\ DOMAIN txn'[t] = TxnFields /\ txn'[t].pc = "insert" /\ txn'[t].write_set = txn[t].write_set
      /\ txn'[t].page = q /\ txn'[t].tuple = txn[t].tuple /\ txn'[t].state = txn[t].state
  BY <1>1, <1>2 DEF TxnFields
<1> HIDE DEF p
<1>5. PagesStep /\ PageIds' = PageIds /\ DOMAIN pages' = PageIds
  BY <1>1, PagesUnchanged DEF PageIds
<1>6. /\ DOMAIN latch' = PageIds'
      /\ \A x \in PageIds : latch'[x] = IF x = q THEN t ELSE IF x = p THEN None ELSE latch[x]
  BY <1>1, <1>2, <1>3, <1>5
<1>7. TxnOK(txn'[t], t, pages', latch')
  <2>1. /\ q \in DOMAIN pages' /\ latch'[q] = t
        /\ \A x \in DOMAIN pages' : latch'[x] = t => x = q
    BY <1>2, <1>3, <1>5, <1>6, Zenon, ZenonT(30)
  <2>2. \A i \in DOMAIN txn'[t].write_set : RecordOK(txn'[t].write_set[i], pages')
    BY <1>1, <1>2, <1>4
  <2> QED BY <1>2, <1>4, <2>1, <2>2 DEF TxnOK
<1>8. \A u \in Txns : u # t => \A x \in PageIds' : latch'[x] = u <=> x \in PageIds /\ latch[x] = u
  BY <1>1, <1>2, <1>3, <1>5, <1>6, NoneAssumption
<1> QED BY <1>1, <1>2, <1>4, <1>5, <1>6, <1>7, <1>8, TxnStepInv, Zenon, ZenonT(30)

LEMMA InsertNewPageStep ==
  ASSUME PagesInv, TxnsInv, NEW t \in Txns, InsertNewPage(t)
  PROVE  PagesStep /\ TxnsInv'
<1> DEFINE p == txn[t].page
           q == NumPages
<1>1. /\ txn[t].pc = "insert" /\ pages[p].next = INVALID_PAGE_ID /\ blocked' = blocked
  BY DEF InsertNewPage
<1>2. /\ DOMAIN txn = Txns /\ DOMAIN txn[t] = TxnFields /\ t # None /\ ~ blocked
      /\ p \in PageIds /\ latch[p] = t /\ txn[t].tuple \in Tuples
      /\ txn[t].state \in {"GROWING", "COMMITTED", "ABORTED"}
      /\ \A x \in PageIds : latch[x] = t => x = p
      /\ DOMAIN latch = PageIds /\ IsSeq(txn[t].write_set)
      /\ \A i \in DOMAIN txn[t].write_set : RecordOK(txn[t].write_set[i], pages)
  BY <1>1, TxnHas, Zenon, ZenonT(30)
<1>3. CASE /\ pages' = [x \in PageIds \union {q} |->
                           IF x = q THEN InitPage(p)
                           ELSE IF x = p THEN [pages[p] EXCEPT !.next = q] ELSE pages[x]]
           /\ latch' = [x \in PageIds \union {q} |->
                           IF x = q THEN t ELSE IF x = p THEN None ELSE latch[x]]
           /\ txn' = [txn EXCEPT ![t].page = q]
  <2>1. PagesStep /\ PageIds' = PageIds \union {q} /\ q \notin PageIds
    BY <1>1, <1>2, <1>3, PageAdded
  <2> HIDE DEF q
  <2>2. /\ DOMAIN txn' = Txns /\ \A u \in Txns : u # t => txn'[u] = txn[u]
        /\ DOMAIN txn'[t] = TxnFields /\ txn'[t].pc = "insert" /\ txn'[t].write_set = txn[t].write_set
        /\ txn'[t].page = q /\ txn'[t].tuple = txn[t].tuple /\ txn'[t].state = txn[t].state
    BY <1>1, <1>2, <1>3 DEF TxnFields
  <2> HIDE DEF p
  <2>3. DOMAIN pages' = PageIds'
    BY DEF PageIds
  <2>4. /\ DOMAIN latch' = PageIds'
        /\ \A x \in PageIds' : latch'[x] = IF x = q THEN t ELSE IF x = p THEN None ELSE latch[x]
    BY <1>3, <2>1
  <2>5. TxnOK(txn'[t], t, pages', latch')
    <3>1. /\ q \in DOMAIN pages' /\ latch'[q] = t
          /\ \A x \in DOMAIN pages' : latch'[x] = t => x = q
      BY <1>2, <2>1, <2>3, <2>4, Zenon, ZenonT(30)
    <3>2. \A i \in DOMAIN txn'[t].write_set : RecordOK(txn'[t].write_set[i], pages')
      BY <1>2, <2>1, <2>2, PagesStepLarger, RecordKept
    <3> QED BY <1>2, <2>2, <3>1, <3>2 DEF TxnOK
  <2>6. \A u \in Txns : u # t => \A x \in PageIds' : latch'[x] = u <=> x \in PageIds /\ latch[x] = u
    BY <1>2, <2>1, <2>4, NoneAssumption
  <2> QED BY <1>1, <1>2, <2>1, <2>2, <2>4, <2>5, <2>6, TxnStepInv, Zenon
<1>4. CASE /\ latch' = [latch EXCEPT ![p] = None]
           /\ txn' = [txn EXCEPT ![t].state = "ABORTED", ![t].pc = "ready",
                                 ![t].page = INVALID_PAGE_ID, ![t].tuple = <<>>]
           /\ pages' = pages
  <2>1. PagesStep /\ PageIds' = PageIds
    BY <1>4, PagesUnchanged DEF PageIds
  <2>2. /\ DOMAIN txn' = Txns /\ \A u \in Txns : u # t => txn'[u] = txn[u]
        /\ DOMAIN txn'[t] = TxnFields /\ txn'[t].pc = "ready" /\ txn'[t].write_set = txn[t].write_set
        /\ txn'[t].state = "ABORTED"
    BY <1>1, <1>2, <1>4 DEF TxnFields
  <2>3. /\ IsSeq(txn'[t].write_set)
        /\ \A i \in DOMAIN txn'[t].write_set : RecordOK(txn'[t].write_set[i], pages')
    BY <1>2, <1>4, <2>2
  <2> HIDE DEF p
  <2>4. /\ DOMAIN latch' = PageIds
        /\ \A x \in PageIds : latch'[x] # t /\ \A u \in Txns : u # t => (latch'[x] = u <=> latch[x] = u)
    <3>1. \A x \in PageIds : latch'[x] = IF x = p THEN None ELSE latch[x]
      BY <1>2, <1>4
    <3> QED BY <1>2, <1>4, <3>1, NoneAssumption
  <2>5. ~ blocked' /\ txn'[t].pc # "insert" /\ txn'[t].state \in {"GROWING", "COMMITTED", "ABORTED"}
    BY <1>1, <1>2, <2>2, Zenon, ZenonT(30)
  <2> QED BY <2>1, <2>2, <2>3, <2>4, <2>5, WriteStep, Zenon, ZenonT(30)
<1> QED BY <1>3, <1>4 DEF InsertNewPage, NumPages

\* The row of a rid that a caller has found.
LEMMA RowFound ==
  ASSUME PagesInv, NEW rid \in VisibleRids
  PROVE  rid.page \in PageIds /\ PageOK(pages[rid.page])
<1>1. PICK p \in PageIds : rid \in {RID(p, n) : n \in LiveSlots(pages[p])}
  BY DEF VisibleRids
<1>2. PICK n : rid = RID(p, n)
  BY <1>1, Zenon
<1>3. RID(p, n).page = p
  BY DEF RID
<1> QED BY <1>2, <1>3, Zenon DEF PagesInv

\* A record that a write adds, on the latched and changed page of its row.
LEMMA LoggedStep ==
  ASSUME PagesInv, TxnsInv, NEW t \in Txns, MayWrite(t), NEW rid, NEW wtype, NEW tuple, NEW q,
         rid.page \in PageIds, Free(rid.page), Grown(pages[rid.page], q),
         pages' = [pages EXCEPT ![rid.page] = q], HasSlot(pages[rid.page], rid.slot),
         wtype \in {"INSERT", "DELETE", "UPDATE"}, wtype = "UPDATE" => Len(tuple) \in Nat \ {0},
         Logged(t, rid, wtype, tuple), latch' = latch, blocked' = blocked
  PROVE  PagesStep /\ TxnsInv'
<1> DEFINE rec == TableWriteRecord(rid, wtype, tuple)
<1>1. /\ txn[t].state = "GROWING" /\ txn[t].pc = "ready"
      /\ txn' = [txn EXCEPT ![t].write_set = Append(@, rec), ![t].x_rows = @ \union {rid}]
  BY DEF MayWrite, Logged
<1>2. rec.rid = rid /\ rec.wtype = wtype /\ rec.tuple = tuple
  BY DEF TableWriteRecord
<1> HIDE DEF rec
<1>3. /\ DOMAIN txn = Txns /\ DOMAIN txn[t] = TxnFields /\ t # None /\ ~ blocked
      /\ \A x \in PageIds : latch[x] # t
      /\ DOMAIN latch = PageIds
  BY <1>1, TxnHas
<1>4. /\ DOMAIN txn' = Txns /\ \A u \in Txns : u # t => txn'[u] = txn[u]
      /\ DOMAIN txn'[t] = TxnFields /\ txn'[t].pc = "ready" /\ txn'[t].state = "GROWING"
      /\ txn'[t].write_set = Append(txn[t].write_set, rec)
  BY <1>1, <1>3 DEF TxnFields
<1>5. PagesStep /\ PageIds' = PageIds
  BY PageChanged, Zenon, ZenonT(30) DEF PageIds
<1>6. RecordOK(rec, pages)
  BY <1>2 DEF RecordOK, PageIds
<1>7. RecordOK(rec, pages')
  BY <1>5, <1>6, PagesStepLarger, RecordKept
<1>8. /\ IsSeq(txn'[t].write_set)
      /\ \A i \in DOMAIN txn'[t].write_set : RecordOK(txn'[t].write_set[i], pages')
  BY <1>4, <1>5, <1>7, AppendRecords, Zenon, ZenonT(30)
<1>9. /\ DOMAIN latch' = PageIds
      /\ \A x \in PageIds : latch'[x] # t /\ \A u \in Txns : u # t => (latch'[x] = u <=> latch[x] = u)
  BY <1>3, Zenon, ZenonT(30)
<1>10. ~ blocked' /\ txn'[t].pc # "insert" /\ txn'[t].state \in {"GROWING", "COMMITTED", "ABORTED"}
  BY <1>3, <1>4
<1> QED BY <1>4, <1>5, <1>8, <1>9, <1>10, WriteStep, Zenon, ZenonT(30)

LEMMA MarkDeleteStep ==
  ASSUME PagesInv, TxnsInv, NEW t \in Txns, NEW rid \in VisibleRids, HeapMarkDelete(t, rid)
  PROVE  PagesStep /\ TxnsInv'
<1> DEFINE p == pages[rid.page]
<1>1. rid.page \in PageIds /\ PageOK(p)
  BY RowFound
<1>2. /\ MayWrite(t) /\ Free(rid.page) /\ HasSlot(p, rid.slot)
      /\ pages' = [pages EXCEPT ![rid.page] = MarkDelete(p, rid.slot)]
      /\ Logged(t, rid, "DELETE", <<>>) /\ latch' = latch /\ blocked' = blocked
  BY DEF HeapMarkDelete, MarkDeleteOK
<1>3. Grown(p, MarkDelete(p, rid.slot))
  <2> HIDE DEF p
  <2> QED BY <1>1, <1>2, MarkedGrows, Zenon DEF MarkDelete
<1> QED BY <1>1, <1>2, <1>3, LoggedStep, Zenon, ZenonT(30)

LEMMA UpdateStep ==
  ASSUME PagesInv, TxnsInv, NEW t \in Txns, NEW rid \in VisibleRids, NEW tuple \in Tuples,
         HeapUpdateTuple(t, rid, tuple)
  PROVE  PagesStep /\ TxnsInv'
<1> DEFINE p == pages[rid.page]
           old == GetTuple(p, rid.slot)
<1>1. rid.page \in PageIds /\ PageOK(p)
  BY RowFound
<1>2. /\ MayWrite(t) /\ Free(rid.page) /\ UpdateTupleOK(p, rid.slot, tuple)
      /\ pages' = [pages EXCEPT ![rid.page] = UpdateTuple(p, rid.slot, tuple)]
      /\ Logged(t, rid, "UPDATE", old) /\ latch' = latch /\ blocked' = blocked
  BY DEF HeapUpdateTuple
<1>3. Len(tuple) \in Nat \ {0}
  BY TuplesAssumption
<1>4. HasSlot(p, rid.slot) /\ Len(old) \in Nat \ {0}
  <2> HIDE DEF p
  <2>1. HasSlot(p, rid.slot) /\ SlotAt(p, rid.slot).size # 0
    BY <1>2 DEF UpdateTupleOK, IsDeleted
  <2>2. SlotAt(p, rid.slot).size \in Nat
    <3>1. p.slots \in Seq(SlotFields) /\ rid.slot + 1 \in DOMAIN p.slots
      BY <1>1, <2>1 DEF PageOK, HasSlot
    <3> QED BY <3>1, SlotTypes DEF SlotAt
  <2>3. Len(old) = SlotAt(p, rid.slot).size
    BY <2>2 DEF GetTuple, BytesAt
  <2> QED BY <2>1, <2>2, <2>3
<1>5. Grown(p, UpdateTuple(p, rid.slot, tuple))
  <2> HIDE DEF p
  <2> QED BY <1>1, <1>2, <1>3, UpdateTupleGrows
<1> HIDE DEF old
<1> QED BY <1>1, <1>2, <1>4, <1>5, LoggedStep, Zenon, ZenonT(30)

\* A record taken from the write set.
LEMMA PoppedStep ==
  ASSUME PagesInv, TxnsInv, NEW t \in Txns, txn[t].pc \in {"commit", "abort"}, txn[t].write_set # <<>>,
         PopBack(t), latch' = latch, blocked' = blocked, PagesStep, PageIds' = PageIds
  PROVE  TxnsInv'
<1>1. txn' = [txn EXCEPT ![t].write_set = SubSeq(@, 1, Len(@) - 1)]
  BY DEF PopBack
<1>2. /\ DOMAIN txn = Txns /\ DOMAIN txn[t] = TxnFields /\ t # None /\ ~ blocked
      /\ txn[t].state \in {"GROWING", "COMMITTED", "ABORTED"}
      /\ \A x \in PageIds : latch[x] # t
      /\ DOMAIN latch = PageIds
  BY TxnHas
<1>3. /\ DOMAIN txn' = Txns /\ \A u \in Txns : u # t => txn'[u] = txn[u]
      /\ DOMAIN txn'[t] = TxnFields /\ txn'[t].pc = txn[t].pc /\ txn'[t].state = txn[t].state
      /\ txn'[t].write_set = SubSeq(txn[t].write_set, 1, Len(txn[t].write_set) - 1)
  BY <1>1, <1>2 DEF TxnFields
<1>4. /\ IsSeq(txn'[t].write_set)
      /\ \A i \in DOMAIN txn'[t].write_set : RecordOK(txn'[t].write_set[i], pages')
  BY <1>3, PopRecords, Zenon
<1>5. /\ DOMAIN latch' = PageIds
      /\ \A x \in PageIds : latch'[x] # t /\ \A u \in Txns : u # t => (latch'[x] = u <=> latch[x] = u)
  BY <1>2
<1>6. ~ blocked' /\ txn'[t].pc # "insert" /\ txn'[t].state \in {"GROWING", "COMMITTED", "ABORTED"}
  BY <1>2, <1>3
<1> QED BY <1>3, <1>4, <1>5, <1>6, WriteStep, Zenon, ZenonT(30)

LEMMA CommitRecordStep ==
  ASSUME PagesInv, TxnsInv, NEW t \in Txns, CommitRecord(t)
  PROVE  PagesStep /\ TxnsInv'
<1>1. /\ txn[t].pc = "commit" /\ txn[t].write_set # <<>> /\ PopBack(t)
      /\ latch' = latch /\ blocked' = blocked
  BY DEF CommitRecord
<1> DEFINE rid == Back(t).rid
           p == pages[rid.page]
<1>2. rid.page \in PageIds /\ HasSlot(p, rid.slot)
  BY <1>1, BackOK DEF RecordOK, PageIds
<1>3. pages' = pages \/ pages' = [pages EXCEPT ![rid.page] = ApplyDelete(p, rid.slot)]
  BY DEF CommitRecord
<1> HIDE DEF rid
<1>4. PagesStep /\ PageIds' = PageIds
  <2>1. CASE pages' = pages
    BY <2>1, PagesUnchanged DEF PageIds
  <2>2. CASE pages' = [pages EXCEPT ![rid.page] = ApplyDelete(p, rid.slot)]
    <3>1. PageOK(p)
      BY <1>2 DEF PagesInv
    <3>2. Grown(p, ApplyDelete(p, rid.slot))
      BY <1>2, <3>1, ApplyDeleteGrows
    <3> QED BY <1>2, <2>2, <3>2, PageChanged, Zenon, ZenonT(30) DEF PageIds
  <2> QED BY <1>3, <2>1, <2>2
<1> QED BY <1>1, <1>4, PoppedStep

LEMMA AbortRecordStep ==
  ASSUME PagesInv, TxnsInv, NEW t \in Txns, AbortRecord(t)
  PROVE  PagesStep /\ TxnsInv'
<1> DEFINE rec == Back(t)
           p == pages[rec.rid.page]
<1>1. /\ txn[t].pc = "abort" /\ txn[t].write_set # <<>> /\ PopBack(t)
      /\ latch' = latch /\ blocked' = blocked
      /\ pages' = [pages EXCEPT ![rec.rid.page] = Undone(p, rec)]
  BY Zenon, ZenonT(30) DEF AbortRecord
<1>2. /\ rec.rid.page \in PageIds /\ HasSlot(p, rec.rid.slot)
      /\ rec.wtype \in {"INSERT", "DELETE", "UPDATE"}
      /\ rec.wtype = "UPDATE" => Len(rec.tuple) \in Nat \ {0}
  BY <1>1, BackOK DEF RecordOK, PageIds
<1>3. PageOK(p)
  BY <1>2 DEF PagesInv
<1> HIDE DEF rec, p
<1>4. Grown(p, Undone(p, rec))
  <2>1. CASE rec.wtype = "DELETE"
    BY <1>2, <1>3, <2>1, MarkedGrows, Zenon, ZenonT(30) DEF Undone, RollbackDelete
  <2>2. CASE rec.wtype = "INSERT"
    BY <1>2, <1>3, <2>2, ApplyDeleteGrows DEF Undone
  <2>3. CASE rec.wtype = "UPDATE" /\ UpdateTupleOK(p, rec.rid.slot, rec.tuple)
    BY <1>2, <1>3, <2>3, UpdateTupleGrows DEF Undone
  <2>4. CASE rec.wtype = "UPDATE" /\ ~ UpdateTupleOK(p, rec.rid.slot, rec.tuple)
    <3>1. Undone(p, rec) = p
      BY <2>4 DEF Undone
    <3> QED BY <1>3, <3>1 DEF Grown, PageOK
  <2> QED BY <1>2, <2>1, <2>2, <2>3, <2>4
<1>5. PagesStep /\ PageIds' = PageIds
  BY <1>1, <1>2, <1>4, PageChanged, Zenon DEF PageIds, p
<1> QED BY <1>1, <1>5, PoppedStep

-----------------------------------------------------------------------------
(* The invariant and what it says. *)

LEMMA InitInv == Init => HeapInv
<1> SUFFICES ASSUME Init PROVE HeapInv
  OBVIOUS
<1> DEFINE first == InsertTuple(InitPage(INVALID_PAGE_ID), InitialRow)
<1>1. pages = [p \in {0} |-> first] /\ latch = [p \in {0} |-> None] /\ txn = [t \in Txns |-> Transaction]
      /\ blocked = FALSE /\ scan = [s \in Scanners |-> TableIterator] /\ stable = [s \in Scanners |-> {}]
  BY DEF Init
<1>2. PageOK(first) /\ first.prev = INVALID_PAGE_ID /\ first.next = INVALID_PAGE_ID
  <2>1. /\ PageOK(InitPage(INVALID_PAGE_ID)) /\ InitPage(INVALID_PAGE_ID).prev = INVALID_PAGE_ID
        /\ InitPage(INVALID_PAGE_ID).next = INVALID_PAGE_ID
    BY InitPageOK
  <2>2. Len(InitialRow) \in Nat \ {0} /\ InsertFits(InitPage(INVALID_PAGE_ID), InitialRow)
    BY TuplesAssumption, InitialRowAssumption
  <2>3. Grown(InitPage(INVALID_PAGE_ID), first)
    BY <2>1, <2>2, InsertTupleGrows
  <2> HIDE DEF first
  <2> QED BY <2>1, <2>3 DEF Grown
<1> HIDE DEF first
<1>3. PageIds = {0} /\ NumPages = 1 /\ PageIds = 0 .. NumPages - 1
  <2>1. PageIds = {0}
    BY <1>1 DEF PageIds
  <2>2. AllocatePage({0}) = 1
    <3>1. 0 .. 1 - 1 = {0}
      OBVIOUS
    <3>2. 1 \in Nat \ {0}
      OBVIOUS
    <3>3. AllocatePage(0 .. 1 - 1) = 1
      BY <3>2, NextPage, Zenon, ZenonT(30)
    <3> QED BY <3>1, <3>3
  <2> QED BY <2>1, <2>2 DEF NumPages
<1>4. PagesInv
  <2>1. pages[0] = first
    BY <1>1
  <2> QED BY <1>2, <1>3, <2>1 DEF PagesInv, INVALID_PAGE_ID
<1>5. TxnsInv
  <2>1. DOMAIN latch = PageIds /\ DOMAIN txn = Txns /\ ~ blocked
    BY <1>1, <1>3
  <2>2. ASSUME NEW t \in Txns
        PROVE  TxnOK(txn[t], t, pages, latch)
    <3> DEFINE x == Transaction
    <3>1. /\ DOMAIN x = TxnFields /\ x.state = "none" /\ x.pc = "ready" /\ x.write_set = <<>> /\ x.x_rows = {}
      BY DEF Transaction, TxnFields
    <3> HIDE DEF x
    <3>2. IsSeq(x.write_set) /\ DOMAIN x.write_set = {}
      BY <3>1 DEF IsSeq
    <3>3. \A p \in DOMAIN pages : latch[p] # t
      BY <1>1, NoneAssumption
    <3>4. TxnOK(x, t, pages, latch)
      BY <3>1, <3>2, <3>3 DEF TxnOK
    <3> QED BY <1>1, <3>4 DEF x
  <2> QED BY <2>1, <2>2 DEF TxnsInv
<1>6. ScansInv
  <2>1. ASSUME NEW s \in Scanners
        PROVE  IterOK(scan[s], stable[s], PageIds, RowsIn(pages))
    <3> DEFINE it == TableIterator
    <3>1. /\ DOMAIN it = {"pc", "page", "slot", "seen"} /\ it.pc = "idle" /\ it.seen = <<>>
      BY DEF TableIterator
    <3> HIDE DEF it
    <3>2. it.seen \in Seq(Rows) /\ Ordered(it.seen)
      BY <3>1 DEF Ordered
    <3>3. IterOK(it, {}, PageIds, RowsIn(pages))
      BY <3>1, <3>2 DEF IterOK, Moving
    <3> QED BY <1>1, <3>3 DEF it
  <2> QED BY <1>1, <2>1 DEF ScansInv
<1> QED BY <1>4, <1>5, <1>6 DEF HeapInv

\* A step that leaves the pages and the transactions alone.
LEMMA CheckpointStep ==
  ASSUME PagesInv, TxnsInv, BlockAllTransactions \/ ResumeTransactions
  PROVE  PagesStep /\ TxnsInv'
<1>1. /\ pages' = pages /\ latch' = latch /\ txn' = txn
      /\ blocked' => \A t \in Txns : ~ HoldsGlobalLatch(t)
  BY DEF BlockAllTransactions, ResumeTransactions
<1>2. PagesStep /\ PageIds' = PageIds
  BY <1>1, PagesUnchanged DEF PageIds
<1>3. TxnsInv'
  BY <1>1, <1>2 DEF TxnsInv, HoldsGlobalLatch
<1> QED BY <1>2, <1>3

LEMMA TxnStepsStill ==
  ASSUME PagesInv, TxnsInv, NEW t \in Txns, TxnStep(t) \/ TxnCall(t)
  PROVE  PagesStep /\ TxnsInv' /\ scan' = scan
<1>1. CASE InsertHere(t)
  BY <1>1, InsertHereStep, ZenonT(30) DEF InsertHere
<1>2. CASE InsertMove(t)
  BY <1>2, InsertMoveStep, ZenonT(30) DEF InsertMove
<1>3. CASE InsertNewPage(t)
  BY <1>3, InsertNewPageStep, Zenon DEF InsertNewPage
<1>4. CASE CommitRecord(t)
  BY <1>4, CommitRecordStep, Zenon DEF CommitRecord
<1>5. CASE AbortRecord(t)
  BY <1>5, AbortRecordStep, Zenon DEF AbortRecord
<1>6. CASE EndTxn(t)
  BY <1>6, EndTxnStep, Zenon DEF EndTxn
<1>7. CASE Begin(t)
  BY <1>7, BeginStep, Zenon DEF Begin
<1>8. CASE Commit(t)
  BY <1>8, CommitStep, Zenon DEF Commit
<1>9. CASE Abort(t)
  BY <1>9, AbortStep, Zenon DEF Abort
<1>10. ASSUME NEW tuple \in Tuples, InsertStart(t, tuple)
       PROVE  PagesStep /\ TxnsInv' /\ scan' = scan
  BY <1>10, InsertStartStep, Zenon DEF InsertStart
<1>11. ASSUME NEW rid \in VisibleRids, HeapMarkDelete(t, rid)
       PROVE  PagesStep /\ TxnsInv' /\ scan' = scan
  BY <1>11, MarkDeleteStep, Zenon DEF HeapMarkDelete
<1>12. ASSUME NEW rid \in VisibleRids, NEW tuple \in Tuples, HeapUpdateTuple(t, rid, tuple)
       PROVE  PagesStep /\ TxnsInv' /\ scan' = scan
  BY <1>12, UpdateStep, Zenon, ZenonT(30) DEF HeapUpdateTuple
<1> QED BY <1>1, <1>2, <1>3, <1>4, <1>5, <1>6, <1>7, <1>8, <1>9, <1>10, <1>11, <1>12, Zenon, ZenonT(30) DEF TxnStep, TxnCall

LEMMA NextInv == HeapInv /\ [Next]_vars => HeapInv'
<1> SUFFICES ASSUME HeapInv, [Next]_vars PROVE HeapInv'
  OBVIOUS
<1>0. PagesInv /\ TxnsInv /\ ScansInv
  BY DEF HeapInv
<1>1. CASE UNCHANGED vars
  <2>1. /\ pages' = pages /\ latch' = latch /\ txn' = txn /\ blocked' = blocked /\ scan' = scan /\ stable' = stable
    BY <1>1 DEF vars
  <2>2. PagesInv' /\ PageIds' = PageIds
    BY <1>0, <2>1, PagesUnchanged DEF PagesStep, PageIds
  <2>3. TxnsInv' /\ ScansInv'
    BY <1>0, <2>1, <2>2, Zenon, ZenonT(30) DEF TxnsInv, ScansInv, HoldsGlobalLatch
  <2> QED BY <2>2, <2>3 DEF HeapInv
<1>2. CASE Next
  <2>0. Observe
    BY <1>2 DEF Next
  <2>1. ASSUME NEW t \in Txns, TxnStep(t) \/ TxnCall(t)
        PROVE  HeapInv'
    <3>1. PagesStep /\ TxnsInv' /\ scan' = scan
      BY <1>0, <2>1, TxnStepsStill
    <3> QED BY <1>0, <2>0, <3>1, ScansStill DEF HeapInv, PagesStep
  <2>2. ASSUME NEW s \in Scanners, ScanBegin(s) \/ ScanStep(s)
        PROVE  HeapInv'
    <3>1. CASE ScanBegin(s)
      BY <1>0, <2>0, <3>1, ScanBeginStep DEF HeapInv
    <3>2. CASE ScanFirst(s)
      BY <1>0, <2>0, <3>2, ScanFirstStep DEF HeapInv
    <3>3. CASE ScanSkip(s)
      BY <1>0, <2>0, <3>3, ScanSkipStep DEF HeapInv
    <3>4. CASE ScanOpen(s)
      BY <1>0, <2>0, <3>4, ScanOpenStep DEF HeapInv
    <3>5. CASE ScanNext(s)
      BY <1>0, <2>0, <3>5, ScanNextStep DEF HeapInv
    <3>6. CASE ScanHop(s)
      BY <1>0, <2>0, <3>6, ScanHopStep DEF HeapInv
    <3> QED BY <2>2, <3>1, <3>2, <3>3, <3>4, <3>5, <3>6, Zenon, ZenonT(30) DEF ScanStep
  <2>3. ASSUME BlockAllTransactions \/ ResumeTransactions
        PROVE  HeapInv'
    <3>1. scan' = scan
      BY <2>3 DEF BlockAllTransactions, ResumeTransactions
    <3>2. PagesStep /\ TxnsInv'
      BY <1>0, <2>3, CheckpointStep
    <3> QED BY <1>0, <2>0, <3>1, <3>2, ScansStill DEF HeapInv, PagesStep
  <2> QED BY <1>2, <2>1, <2>2, <2>3, Zenon, ZenonT(30) DEF Next
<1> QED BY <1>1, <1>2

\* The invariant of pages, transactions and scans holds throughout.
THEOREM Invariance == Spec => []HeapInv
<1>1. Init => HeapInv
  BY InitInv
<1>2. HeapInv /\ [Next]_vars => HeapInv'
  BY NextInv
<1> QED BY <1>1, <1>2, PTL DEF Spec

\* What the invariant of a page says in terms of the areas of its tuples.
LEMMA PageAreas ==
  ASSUME NEW pg, PageOK(pg)
  PROVE  /\ \A s, u \in Used(pg) : s # u => Area(s) \intersect Area(u) = {}
         /\ UNION {Area(s) : s \in Used(pg)} = pg.fsp .. BUSTUB_PAGE_SIZE - 1
         /\ \A i, j \in DOMAIN pg.slots : i # j /\ pg.slots[i].size > 0 => pg.slots[i] # pg.slots[j]
<1> DEFINE slots == pg.slots
           D == DOMAIN slots
           O == Offsets(slots)
           Z == Sizes(slots)
           P == BUSTUB_PAGE_SIZE
           fsp == pg.fsp
<1>1. slots \in Seq(SlotFields) /\ fsp \in Nat /\ P \in Nat /\ Fill(D, O, Z, fsp, P)
  BY PageAssumption DEF PageOK, Tiles
<1>2. /\ O \in [D -> Nat] /\ Z \in [D -> Nat]
      /\ \A i \in D : slots[i].offset = O[i] /\ slots[i].size = Z[i]
  BY <1>1, SlotFunctions
<1>3. \A s \in Used(pg) : \E i \in D : s = slots[i] /\ Z[i] > 0
  BY <1>2 DEF Used
<1>4. \A i \in D : Z[i] > 0 => slots[i] \in Used(pg)
  BY <1>2 DEF Used
<1>5. \A i \in D : Area(slots[i]) = O[i] .. (O[i] + Z[i]) - 1
  <2> SUFFICES ASSUME NEW i \in D PROVE Area(slots[i]) = O[i] .. (O[i] + Z[i]) - 1
    OBVIOUS
  <2>1. slots[i].offset = O[i] /\ slots[i].size = Z[i] /\ O[i] \in Nat /\ Z[i] \in Nat
    BY <1>2
  <2>2. Area(slots[i]) = O[i] .. O[i] + Z[i] - 1
    BY <2>1 DEF Area
  <2>3. O[i] + Z[i] - 1 = (O[i] + Z[i]) - 1
    BY <2>1
  <2> QED BY <2>2, <2>3
<1> HIDE DEF slots, D, O, Z, P, fsp
<1>6. ASSUME NEW i \in D, NEW j \in D, i # j, Z[i] > 0, Z[j] > 0
      PROVE  O[i] + Z[i] <= O[j] \/ O[j] + Z[j] <= O[i]
  BY <1>1, <1>6 DEF Fill
<1>7. ASSUME NEW s \in Used(pg), NEW u \in Used(pg), s # u
      PROVE  Area(s) \intersect Area(u) = {}
  <2>1. PICK i \in D : s = slots[i] /\ Z[i] > 0
    BY <1>3
  <2>2. PICK j \in D : u = slots[j] /\ Z[j] > 0
    BY <1>3
  <2>3. i # j
    BY <1>7, <2>1, <2>2
  <2>4. Area(s) = O[i] .. (O[i] + Z[i]) - 1 /\ Area(u) = O[j] .. (O[j] + Z[j]) - 1
    BY <1>5, <2>1, <2>2
  <2>5. O[i] \in Nat /\ Z[i] \in Nat /\ O[j] \in Nat /\ Z[j] \in Nat
    BY <1>2
  <2>6. O[i] + Z[i] <= O[j] \/ O[j] + Z[j] <= O[i]
    BY <1>6, <2>1, <2>2, <2>3
  <2>7. (O[i] .. (O[i] + Z[i]) - 1) \intersect (O[j] .. (O[j] + Z[j]) - 1) = {}
    BY <2>5, <2>6
  <2> QED BY <2>4, <2>7
<1>8. ASSUME NEW x \in UNION {Area(s) : s \in Used(pg)}
      PROVE  x \in fsp .. P - 1
  <2>1. PICK s \in Used(pg) : x \in Area(s)
    OBVIOUS
  <2>2. PICK i \in D : s = slots[i] /\ Z[i] > 0
    BY <1>3
  <2>3. fsp <= O[i] /\ O[i] + Z[i] <= P
    BY <1>1, <2>2 DEF Fill
  <2>4. x \in O[i] .. (O[i] + Z[i]) - 1
    BY <1>5, <2>1, <2>2, Zenon, ZenonT(30)
  <2> QED BY <1>1, <1>2, <2>3, <2>4
<1>9. ASSUME NEW x \in fsp .. P - 1
      PROVE  x \in UNION {Area(s) : s \in Used(pg)}
  <2>1. PICK i \in D : O[i] <= x /\ x < O[i] + Z[i]
    BY <1>1 DEF Fill
  <2>2. Z[i] > 0 /\ x \in O[i] .. (O[i] + Z[i]) - 1
    BY <1>1, <1>2, <2>1
  <2>3. x \in Area(slots[i]) /\ slots[i] \in Used(pg)
    BY <1>4, <1>5, <2>2, Zenon, ZenonT(30)
  <2> QED BY <2>3
<1>10. ASSUME NEW i \in D, NEW j \in D, i # j, slots[i].size > 0
       PROVE  slots[i] # slots[j]
  <2> SUFFICES ASSUME slots[i] = slots[j] PROVE FALSE
    OBVIOUS
  <2>1. Z[i] > 0 /\ Z[j] = Z[i] /\ O[j] = O[i]
    BY <1>2, <1>10
  <2> QED BY <1>2, <1>6, <1>10, <2>1
<1>11. UNION {Area(s) : s \in Used(pg)} = fsp .. P - 1
  BY <1>8, <1>9
<1> QED BY <1>7, <1>10, <1>11 DEF slots, D, fsp, P

LEMMA InvWellFormed == HeapInv => HeapWellFormed
<1> SUFFICES ASSUME HeapInv, NEW p \in PageIds
             PROVE  LET pg == pages[p] IN
                    /\ GetFreeSpaceRemaining(pg) >= 0
                    /\ \A s, u \in Used(pg) : s # u => Area(s) \intersect Area(u) = {}
                    /\ UNION {Area(s) : s \in Used(pg)} = pg.fsp .. BUSTUB_PAGE_SIZE - 1
                    /\ \A i, j \in DOMAIN pg.slots :
                         i # j /\ pg.slots[i].size > 0 => pg.slots[i] # pg.slots[j]
                    /\ pg.next # INVALID_PAGE_ID => pages[pg.next].prev = p
                    /\ p # 0 => pages[pg.prev].next = p
  BY Zenon, ZenonT(30) DEF HeapWellFormed
<1> DEFINE pg == pages[p]
<1>1. PagesInv /\ PageOK(pg)
  BY DEF HeapInv, PagesInv
<1>2. GetFreeSpaceRemaining(pg) >= 0
  BY <1>1 DEF PageOK
<1>3. /\ \A s, u \in Used(pg) : s # u => Area(s) \intersect Area(u) = {}
      /\ UNION {Area(s) : s \in Used(pg)} = pg.fsp .. BUSTUB_PAGE_SIZE - 1
      /\ \A i, j \in DOMAIN pg.slots : i # j /\ pg.slots[i].size > 0 => pg.slots[i] # pg.slots[j]
  <2> HIDE DEF pg
  <2> QED BY <1>1, PageAreas
<1>4. NumPages \in Nat /\ PageIds = 0 .. NumPages - 1 /\ p \in 0 .. NumPages - 1
  BY <1>1 DEF PagesInv
<1>5. \A x \in PageIds : /\ pages[x].next = IF x = NumPages - 1 THEN INVALID_PAGE_ID ELSE x + 1
                         /\ pages[x].prev = x - 1
  BY <1>1 DEF PagesInv
<1>6. pg.next # INVALID_PAGE_ID => pages[pg.next].prev = p
  <2> SUFFICES ASSUME pg.next # INVALID_PAGE_ID PROVE pages[pg.next].prev = p
    OBVIOUS
  <2>1. pg.next = p + 1 /\ p + 1 \in PageIds /\ (p + 1) - 1 = p
    BY <1>4, <1>5
  <2>2. pages[p + 1].prev = (p + 1) - 1
    BY <1>5, <2>1
  <2> QED BY <2>1, <2>2
<1>7. p # 0 => pages[pg.prev].next = p
  <2> SUFFICES ASSUME p # 0 PROVE pages[pg.prev].next = p
    OBVIOUS
  <2>1. pg.prev = p - 1 /\ p - 1 \in PageIds /\ p - 1 # NumPages - 1 /\ (p - 1) + 1 = p
    BY <1>4, <1>5
  <2>2. pages[p - 1].next = (p - 1) + 1
    BY <1>5, <2>1
  <2> QED BY <2>1, <2>2
<1> QED BY <1>2, <1>3, <1>6, <1>7, Zenon, ZenonT(30)

\* Whatever transactions insert, delete, update, commit and roll back, and
\* whatever the sizes of the tuples, the tuples of a page tile its bytes
\* behind the free space pointer, the slots stay in front of it, and the pages
\* are a doubly-linked list (TablePage and TableHeap member functions).
THEOREM HeapStaysWellFormed == Spec => []HeapWellFormed
BY Invariance, InvWellFormed, PTL

LEMMA InvQuiescent == HeapInv => QuiescentWhenBlocked
<1> SUFFICES ASSUME HeapInv, blocked, NEW t \in Txns
             PROVE  txn[t].write_set = <<>> /\ txn[t].x_rows = {} /\ latch[0] # t
  BY DEF QuiescentWhenBlocked
<1>1. PagesInv /\ TxnsInv /\ 0 \in PageIds
  BY DEF HeapInv, PagesInv
<1>2. txn[t].pc = "ready" /\ txn[t].state \in {"none", "finished"}
  BY <1>1, TxnHas
<1>3. txn[t].write_set = <<>> /\ txn[t].x_rows = {} /\ \A p \in PageIds : latch[p] # t
  BY <1>1, <1>2, TxnHas
<1> QED BY <1>1, <1>3

\* A checkpoint that has blocked the transactions finds no write to commit or
\* roll back and no locked row (TransactionManager::BlockAllTransactions).
THEOREM CheckpointsQuiescent == Spec => []QuiescentWhenBlocked
BY Invariance, InvQuiescent, PTL

\* A scan returns rows in page and slot order, none twice, and when it ends it
\* has returned every row that was visible from its begin on, whatever
\* transactions do meanwhile (TableIterator, TableHeap::Begin).
THEOREM ScansAreComplete == Spec => []ScansComplete
BY Invariance, InvScans, PTL

=============================================================================
