------------------------- MODULE BufferPool_proofs --------------------------
(***************************************************************************)
(* The buffer pool keeps its frames, its page table, its free list and its *)
(* replacer in agreement and never takes a pinned frame; without a flush   *)
(* that outlives its pin, a clean frame agrees with the disk and the       *)
(* buffer pool implements a store of pages.  All for every number of       *)
(* frames, threads, pages and contents.                                    *)
(***************************************************************************)
EXTENDS BufferPoolFrames_proofs

\* Leaves that name no prover are tried with these, in this order.
USE SMT, Zenon, SMTT(30), ZenonT(30)

-----------------------------------------------------------------------------
(* Helpers. *)

\* Giving a picked frame away moves no page that somebody holds.
LEMMA OccupyStays ==
  ASSUME PoolInv, SomeUnpinned, NEW f \in PickedFrames, NEW p \in PageIds, ~ Find(p), NEW data,
         Occupy(f, p, data),
         NEW t \in Threads, NEW q \in PageIds, <<t, q>> \in pins
  PROVE  page_table'[q] = page_table[q]
<1>1. Find(q) /\ page_table[q] \in PoolFrames /\ pages[page_table[q]].pin_count > 0
  BY HeldPage
<1>2. /\ f \in PoolFrames /\ pages[f].pin_count = 0
      /\ Unmapped(f) \in [PageIds -> PoolFrames \union {NoFrame}]
      /\ Unmapped(f)[q] = IF page_table[q] = f THEN NoFrame ELSE page_table[q]
  BY PickedFrame, Zenon
<1>3. q # p /\ page_table[q] # f
  BY <1>1, <1>2
<1>4. page_table' = [Unmapped(f) EXCEPT ![p] = f]
  BY DEF Occupy
<1> HIDE DEF Unmapped
<1> QED BY <1>2, <1>3, <1>4

\* The end of the file after the pages R have been written.
LEMMA FlushedSize ==
  ASSUME NEW size \in 0 .. MaxPages, NEW R \in SUBSET PageIds
  PROVE  \E n \in 0 .. MaxPages : /\ n = size \/ n - 1 \in R
                                  /\ n >= size /\ \A p \in R : n > p
<1> DEFINE E == {size} \union {p + 1 : p \in R}
<1>1. MaxPages \in Nat /\ \A p \in R : p \in Nat /\ p + 1 \in 0 .. MaxPages /\ (p + 1) - 1 = p
  BY BoundsAssumption DEF PageIds
<1>2. E \in SUBSET (0 .. MaxPages) /\ E # {}
  BY <1>1
<1>3. PICK n \in E : \A x \in E : x <= n
  BY <1>1, <1>2, GreatestElement, Zenon
<1>4. n \in 0 .. MaxPages /\ n >= size
  BY <1>2, <1>3
<1>5. n = size \/ n - 1 \in R
  BY <1>1
<1>6. ASSUME NEW p \in R PROVE n > p
  <2>1. p + 1 <= n
    BY <1>3
  <2> QED BY <1>1, <1>4, <2>1
<1> QED BY <1>4, <1>5, <1>6

\* The pages FlushAllPages writes: those of the frames.
Resident == {p \in PageIds : \E f \in PoolFrames : pages[f].page_id = p /\ Find(p)}

\* FlushAllPages writes the data of every mapped page; the file ends behind
\* the last of them or where it did.
LEMMA FlushAllDisk ==
  ASSUME PoolInv, FlushAllPages
  PROVE  /\ disk' \in Disks
         /\ \A p \in PageIds : disk'.content[p] = IF Find(p) THEN pages[page_table[p]].data
                                                             ELSE disk.content[p]
         /\ disk'.size >= disk.size
         /\ \A p \in PageIds : Find(p) => p < disk'.size
<1> DEFINE content == [p \in PageIds |-> IF p \in Resident THEN pages[page_table[p]].data
                                                           ELSE disk.content[p]]
           Ends(n) == /\ n = disk.size \/ n - 1 \in Resident
                      /\ n >= disk.size /\ \A p \in Resident : n > p
           size == CHOOSE n \in 0 .. MaxPages : Ends(n)
<1>1. disk' = [content |-> content, size |-> size]
  BY DEF FlushAllPages, Resident
<1>2. /\ disk \in Disks /\ disk.size \in 0 .. MaxPages /\ disk.content \in [PageIds -> Contents]
      /\ pages \in [PoolFrames -> Pages]
  BY DEF PoolInv, TypeInv, Disks
<1>3. Resident \in SUBSET PageIds
  BY DEF Resident
<1>4. \E n \in 0 .. MaxPages : Ends(n)
  BY <1>2, <1>3, FlushedSize
<1>5. size \in 0 .. MaxPages /\ Ends(size)
  <2> HIDE DEF Ends
  <2> QED BY <1>4
<1>6. \A p \in PageIds : p \in Resident <=> Find(p)
  BY MappedFrame DEF Resident
<1>7. content \in [PageIds -> Contents]
  <2>1. ASSUME NEW p \in PageIds
        PROVE  (IF p \in Resident THEN pages[page_table[p]].data ELSE disk.content[p]) \in Contents
    <3>1. CASE p \in Resident
      <4>1. pages[page_table[p]] \in Pages
        BY <1>6, <3>1, MappedFrame
      <4> QED BY <3>1, <4>1 DEF Pages
    <3>2. CASE p \notin Resident
      BY <1>2, <3>2
    <3> QED BY <3>1, <3>2
  <2> QED BY <2>1
<1>8. disk'.content = content /\ disk'.size = size
  BY <1>1
<1>9. disk' \in Disks
  <2> HIDE DEF content, size
  <2> QED BY <1>1, <1>5, <1>7 DEF Disks
<1>10. \A p \in PageIds : disk'.content[p] = IF Find(p) THEN pages[page_table[p]].data
                                                        ELSE disk.content[p]
  BY <1>6, <1>8
<1>11. size >= disk.size /\ \A p \in PageIds : Find(p) => p < size
  <2>1. ASSUME NEW p \in PageIds, Find(p) PROVE p < size
    <3>1. size > p /\ p \in Nat
      BY <1>5, <1>6, <2>1, Numbers
    <3> HIDE DEF size
    <3> QED BY <1>5, <3>1
  <2> QED BY <1>5, <2>1
<1> QED BY <1>8, <1>9, <1>10, <1>11

-----------------------------------------------------------------------------
(* Contents. *)

\* Behind the end of the file, and where no page was allocated, the disk reads
\* as zeros.
Blank(d, n) == \A p \in PageIds : p >= d.size \/ p >= n => d.content[p] = Zeroed

\* The mapped page p is on disk as it is in memory.
OnDisk(p) == disk.content[p] = pages[page_table[p]].data

\* With callers that flush only pages they have pinned: writes happen under a
\* pin, a flush in progress still knows the right frame, and what is not dirty
\* is on disk.
DataInv ==
  /\ wrote \subseteq pins
  /\ \A t \in Threads :
       flushing[t] # NotFlushing =>
         /\ <<t, flushing[t].page>> \in pins
         /\ flushing[t].frame = page_table[flushing[t].page]
  /\ Blank(disk, next_page_id)
  /\ \A p \in PageIds :
       Find(p) /\ ~ pages[page_table[p]].is_dirty /\ (\A t \in Threads : <<t, p>> \notin wrote)
         => OnDisk(p)

\* A disk that is blank from one page on is blank from every later page on.
LEMMA LaterBlank ==
  ASSUME NEW m \in 0 .. MaxPages, NEW n \in 0 .. MaxPages, m <= n, NEW d, Blank(d, m)
  PROVE  Blank(d, n)
BY Numbers, BoundsAssumption DEF Blank

\* Reading a page into zeroed memory.
LEMMA ReadBlank ==
  ASSUME NEW d \in Disks, NEW n, Blank(d, n), NEW p \in PageIds
  PROVE  ReadPage(d, p, Zeroed) = d.content[p]
<1>1. d.size \in Nat /\ p \in Nat
  BY BoundsAssumption DEF Disks, PageIds
<1> QED BY <1>1 DEF ReadPage, Blank

\* Writing an allocated page changes that page only.
LEMMA WriteBlank ==
  ASSUME NEW d \in Disks, NEW n \in 0 .. MaxPages, Blank(d, n),
         NEW q \in PageIds, q < n, NEW data \in Contents
  PROVE  /\ Blank(WritePage(d, q, data), n)
         /\ WritePage(d, q, data).content[q] = data
         /\ \A p \in PageIds \ {q} : WritePage(d, q, data).content[p] = d.content[p]
<1> DEFINE w == WritePage(d, q, data)
<1>1. d.size \in Nat /\ d.content \in [PageIds -> Contents] /\ q \in Nat /\ n \in Nat
  BY BoundsAssumption DEF Disks, PageIds
<1>2. w.content = [d.content EXCEPT ![q] = data] /\ w.size = IF q + 1 > d.size THEN q + 1 ELSE d.size
  BY DEF WritePage
<1>3. w.size \in Nat /\ w.size >= d.size /\ w.size > q
  BY <1>1, <1>2
<1> HIDE DEF w
<1>4. w.content[q] = data /\ \A p \in PageIds \ {q} : w.content[p] = d.content[p]
  BY <1>1, <1>2
<1>5. ASSUME NEW p \in PageIds, p >= w.size \/ p >= n PROVE w.content[p] = Zeroed
  <2>1. p \in Nat
    BY Numbers
  <2>2. p # q /\ (p >= d.size \/ p >= n)
    BY <1>1, <1>3, <1>5, <2>1
  <2> QED BY <1>4, <2>2 DEF Blank
<1> QED BY <1>4, <1>5 DEF Blank, w

\* What an eviction leaves on disk: the page of the frame, as it was in memory.
LEMMA WrittenBackData ==
  ASSUME PoolInv, DataInv, SomeUnpinned, NEW f \in PickedFrames
  PROVE  /\ WrittenBack(f) \in Disks
         /\ Blank(WrittenBack(f), next_page_id)
         /\ \A q \in PageIds :
              WrittenBack(f).content[q] = IF page_table[q] = f THEN pages[f].data ELSE disk.content[q]
<1>1. /\ disk \in Disks /\ Blank(disk, next_page_id) /\ WrittenBack(f) \in Disks
      /\ next_page_id \in 0 .. MaxPages
      /\ f \in PoolFrames /\ pages[f] \in Pages
      /\ page_table \in [PageIds -> PoolFrames \union {NoFrame}]
  BY PickedFrame, WrittenBackType, Zenon DEF PoolInv, TypeInv, DataInv
<1>2. \A q \in PageIds : page_table[q] = f => pages[f].page_id = q /\ Find(q)
  <2>1. \A q \in PageIds : page_table[q] = f => Find(q)
    BY <1>1, Numbers DEF Find
  <2> QED BY <2>1, MappedFrame
<1>3. CASE FromFreeList
  <2>1. f \in Elements(free_list)
    BY <1>3, PickedFrame, Zenon
  <2>2. pages[f].page_id = INVALID_PAGE_ID
    BY <1>1, <2>1 DEF PoolInv, FrameInv, FreePage
  <2>3. \A q \in PageIds : page_table[q] # f
    BY <1>2, <2>2, Numbers
  <2>4. WrittenBack(f) = disk
    BY <1>3 DEF WrittenBack
  <2> QED BY <1>1, <2>3, <2>4
<1>4. CASE ~ FromFreeList
  <2> DEFINE e == pages[f].page_id
  <2>1. e \in PageIds /\ page_table[e] = f /\ pages[f].pin_count = 0
    BY <1>4, PickedFrame, Zenon
  <2>2. Find(e) /\ e \in Live
    BY <1>2, <2>1, MappedFrame
  <2>3. e < next_page_id
    BY <1>1, <2>2 DEF Live
  <2>4. CASE pages[f].is_dirty
    <3>1. WrittenBack(f) = WritePage(disk, e, pages[f].data) /\ pages[f].data \in Contents
      BY <1>1, <1>4, <2>4 DEF WrittenBack, Pages
    <3> HIDE DEF e, WritePage
    <3>2. /\ Blank(WrittenBack(f), next_page_id)
          /\ WrittenBack(f).content[e] = pages[f].data
          /\ \A p \in PageIds \ {e} : WrittenBack(f).content[p] = disk.content[p]
      BY <1>1, <2>1, <2>3, <3>1, WriteBlank
    <3>3. \A q \in PageIds : page_table[q] = f <=> q = e
      BY <1>2, <2>1 DEF e
    <3> QED BY <1>1, <3>2, <3>3
  <2>5. CASE ~ pages[f].is_dirty
    <3>1. WrittenBack(f) = disk
      BY <1>4, <2>5 DEF WrittenBack
    <3>2. \A t \in Threads : <<t, e>> \notin wrote
      <4>1. \A t \in Threads : <<t, e>> \notin pins
        BY <2>1, UnheldPage
      <4> QED BY <4>1 DEF DataInv
    <3>3. disk.content[e] = pages[f].data
      BY <2>1, <2>2, <2>5, <3>2 DEF DataInv, OnDisk
    <3> QED BY <1>1, <1>2, <3>1, <3>3
  <2> QED BY <2>4, <2>5
<1> QED BY <1>3, <1>4

\* What NewPage and FetchPage have in common: thread t gets page p, with the
\* content data that the disk holds, in a frame f taken from another page.
Admits(t, p, f, data) ==
  /\ SomeUnpinned
  /\ ~ Find(p)
  /\ data = WrittenBack(f).content[p]
  /\ Occupy(f, p, data)
  /\ next_page_id' \in 0 .. MaxPages
  /\ next_page_id <= next_page_id'
  /\ pins' = pins \union {<<t, p>>}
  /\ UNCHANGED <<wrote, deleted, flushing>>
  /\ \A q \in PageIds : q # p => (q \in Live' <=> q \in Live)
  /\ p \in Live'

\* The page in a frame that NewPage or FetchPage gives away is not lost, and the
\* page that gets the frame has the content it had.
LEMMA OccupyData ==
  ASSUME PoolInv, DataInv, NEW f \in PickedFrames, NEW t \in Threads,
         NEW p \in PageIds, NEW data, Admits(t, p, f, data)
  PROVE  /\ DataInv'
         /\ disk.content[p] = data
         /\ \A q \in PageIds \ {p} : ContentOf(q)' = ContentOf(q)
         /\ ContentOf(p)' = data
<1> USE Numbers
<1>0. /\ SomeUnpinned
      /\ ~ Find(p)
      /\ data = WrittenBack(f).content[p]
      /\ Occupy(f, p, data)
      /\ next_page_id' \in 0 .. MaxPages
      /\ next_page_id <= next_page_id'
      /\ pins' = pins \union {<<t, p>>}
      /\ UNCHANGED <<wrote, deleted, flushing>>
      /\ \A q \in PageIds : q # p => (q \in Live' <=> q \in Live)
      /\ p \in Live'
  BY Zenon, ZenonT(30) DEF Admits
<1> USE <1>0
<1> DEFINE w == WrittenBack(f)
<1>1. /\ w \in Disks /\ Blank(w, next_page_id)
      /\ \A q \in PageIds : w.content[q] = IF page_table[q] = f THEN pages[f].data ELSE disk.content[q]
  BY WrittenBackData
<1>2. /\ f \in PoolFrames
      /\ Unmapped(f) \in [PageIds -> PoolFrames \union {NoFrame}]
      /\ \A q \in PageIds : Unmapped(f)[q] = IF page_table[q] = f THEN NoFrame ELSE page_table[q]
      /\ (FromFreeList /\ pages[f].is_dirty) = FALSE
  BY PickedFrame, Zenon
<1>3. /\ disk' = w
      /\ page_table' = [Unmapped(f) EXCEPT ![p] = f]
      /\ pages' = [pages EXCEPT ![f] = [page_id |-> p, pin_count |-> 1, is_dirty |-> FALSE, data |-> data]]
  BY <1>2, Zenon DEF Occupy
<1> HIDE DEF w, Unmapped
<1>4. /\ pages \in [PoolFrames -> Pages] /\ disk \in Disks /\ Blank(disk, next_page_id)
      /\ page_table \in [PageIds -> PoolFrames \union {NoFrame}]
      /\ next_page_id \in 0 .. MaxPages
  BY DEF PoolInv, TypeInv, DataInv
<1>5. /\ page_table'[p] = f
      /\ \A q \in PageIds \ {p} : page_table'[q] = IF page_table[q] = f THEN NoFrame ELSE page_table[q]
  BY <1>2, <1>3
<1>6. /\ pages'[f].data = data /\ ~ pages'[f].is_dirty
      /\ \A g \in PoolFrames \ {f} : pages'[g] = pages[g]
  BY <1>2, <1>3, <1>4
<1>7. disk.content[p] = data
  <2>1. page_table[p] # f
    BY <1>2 DEF Find
  <2> QED BY <1>1, <2>1 DEF w
<1>8. Blank(disk', next_page_id')
  BY <1>1, <1>3, <1>4, LaterBlank, Zenon, ZenonT(30)
<1>9. DataInv'
  <2>1. wrote' \subseteq pins'
    BY DEF DataInv
  <2>2. ASSUME NEW s \in Threads, flushing'[s] # NotFlushing
        PROVE  /\ <<s, flushing'[s].page>> \in pins'
               /\ flushing'[s].frame = page_table'[flushing'[s].page]
    <3>1. /\ flushing'[s] = flushing[s]
          /\ <<s, flushing[s].page>> \in pins
          /\ flushing[s].frame = page_table[flushing[s].page]
      BY <2>2 DEF DataInv
    <3>2. flushing[s].page \in PageIds
      BY <2>2, <3>1 DEF PoolInv, TypeInv, Flushes
    <3>3. page_table'[flushing[s].page] = page_table[flushing[s].page]
      BY <3>1, <3>2, OccupyStays
    <3> QED BY <3>1, <3>3
  <2>3. ASSUME NEW q \in PageIds, page_table'[q] # NoFrame,
               ~ pages'[page_table'[q]].is_dirty, \A s \in Threads : <<s, q>> \notin wrote'
        PROVE  disk'.content[q] = pages'[page_table'[q]].data
    <3>1. CASE q = p
      BY <1>3, <1>5, <1>6, <3>1 DEF w
    <3>2. CASE q # p
      <4>1. page_table'[q] = page_table[q] /\ page_table[q] # f /\ page_table[q] \in PoolFrames
        BY <1>4, <1>5, <2>3, <3>2
      <4>2. pages'[page_table[q]] = pages[page_table[q]]
        BY <1>6, <4>1
      <4>3. disk.content[q] = pages[page_table[q]].data
        BY <2>3, <4>1, <4>2 DEF DataInv, Find, OnDisk
      <4> QED BY <1>1, <1>3, <4>1, <4>2, <4>3
    <3> QED BY <3>1, <3>2
  <2> QED BY <1>8, <2>1, <2>2, <2>3 DEF DataInv, Find, OnDisk
<1>10. ASSUME NEW q \in PageIds \ {p} PROVE ContentOf(q)' = ContentOf(q)
  <2>1. CASE q \notin Live
    BY <2>1 DEF ContentOf
  <2>2. CASE q \in Live /\ page_table[q] = f
    <3>1. page_table'[q] = NoFrame /\ Find(q)
      BY <1>2, <1>5, <2>2 DEF Find
    <3>2. ContentOf(q) = pages[f].data
      BY <2>2, <3>1 DEF ContentOf
    <3>3. ContentOf(q)' = ReadPage(w, q, Zeroed)
      BY <1>3, <2>2, <3>1 DEF ContentOf, Find
    <3> QED BY <1>1, <2>2, <3>2, <3>3, ReadBlank
  <2>3. CASE q \in Live /\ Find(q) /\ page_table[q] # f
    <3>1. /\ page_table'[q] = page_table[q] /\ page_table[q] \in PoolFrames
          /\ pages'[page_table[q]] = pages[page_table[q]]
      BY <1>4, <1>5, <1>6, <2>3 DEF Find
    <3> QED BY <2>3, <3>1, Zenon, ZenonT(30) DEF ContentOf, Find
  <2>4. CASE q \in Live /\ ~ Find(q) /\ page_table[q] # f
    <3>1. page_table'[q] = NoFrame
      BY <1>5, <2>4 DEF Find
    <3>2. ContentOf(q) = ReadPage(disk, q, Zeroed) /\ ContentOf(q)' = ReadPage(w, q, Zeroed)
      BY <1>3, <2>4, <3>1 DEF ContentOf, Find
    <3>3. ReadPage(disk, q, Zeroed) = disk.content[q] /\ ReadPage(w, q, Zeroed) = w.content[q]
      BY <1>1, <1>4, ReadBlank
    <3> QED BY <1>1, <2>4, <3>2, <3>3
  <2> QED BY <2>1, <2>2, <2>3, <2>4
<1>11. ContentOf(p)' = data
  BY <1>2, <1>5, <1>6 DEF ContentOf, Find
<1> QED BY <1>7, <1>9, <1>10, <1>11

\* Changing the page in one mapped frame changes the content of that page only.
LEMMA RepinData ==
  ASSUME PoolInv, DataInv, NEW p \in PageIds, Find(p), NEW page,
         pages' = [pages EXCEPT ![page_table[p]] = page],
         wrote' \subseteq pins',
         \A s \in Threads : flushing[s] # NotFlushing => <<s, flushing[s].page>> \in pins',
         \A s \in Threads, q \in PageIds \ {p} : <<s, q>> \in wrote' <=> <<s, q>> \in wrote,
         ~ page.is_dirty /\ (\A s \in Threads : <<s, p>> \notin wrote') => disk.content[p] = page.data,
         UNCHANGED <<page_table, next_page_id, disk, deleted, flushing>>
  PROVE  /\ DataInv'
         /\ \A q \in PageIds \ {p} : ContentOf(q)' = ContentOf(q)
         /\ ContentOf(p)' = page.data
<1> DEFINE f == page_table[p]
<1>1. /\ f \in PoolFrames /\ p \in Live /\ pages[f].page_id = p
      /\ pages \in [PoolFrames -> Pages]
  BY MappedFrame DEF PoolInv, TypeInv
<1>2. pages'[f] = page /\ \A g \in PoolFrames \ {f} : pages'[g] = pages[g]
  BY <1>1
<1>3. \A q \in PageIds \ {p} : Find(q) => pages'[page_table[q]] = pages[page_table[q]]
  <2>1. ASSUME NEW q \in PageIds \ {p}, Find(q) PROVE page_table[q] \in PoolFrames \ {f}
    BY <1>1, <2>1, MappedFrame
  <2> QED BY <1>2, <2>1
<1>4. Live' = Live
  BY DEF Live
<1> HIDE DEF f
<1>5. DataInv'
  <2>1. ASSUME NEW s \in Threads, flushing'[s] # NotFlushing
        PROVE  /\ <<s, flushing'[s].page>> \in pins'
               /\ flushing'[s].frame = page_table'[flushing'[s].page]
    BY <2>1 DEF DataInv
  <2>2. Blank(disk', next_page_id')
    BY DEF DataInv, Blank
  <2>3. ASSUME NEW q \in PageIds, page_table'[q] # NoFrame,
               ~ pages'[page_table'[q]].is_dirty, \A s \in Threads : <<s, q>> \notin wrote'
        PROVE  disk'.content[q] = pages'[page_table'[q]].data
    <3>1. CASE q = p
      BY <1>2, <2>3, <3>1 DEF f
    <3>2. CASE q # p
      <4>1. Find(q) /\ page_table'[q] = page_table[q]
        BY <2>3 DEF Find
      <4>2. pages'[page_table[q]] = pages[page_table[q]]
        BY <1>3, <3>2, <4>1
      <4>3. \A s \in Threads : <<s, q>> \notin wrote
        BY <2>3, <3>2
      <4>4. disk.content[q] = pages[page_table[q]].data
        BY <2>3, <4>1, <4>2, <4>3 DEF DataInv, OnDisk
      <4> QED BY <4>1, <4>2, <4>4
    <3> QED BY <3>1, <3>2
  <2> QED BY <2>1, <2>2, <2>3 DEF DataInv, Find, OnDisk
<1>6. ASSUME NEW q \in PageIds \ {p} PROVE ContentOf(q)' = ContentOf(q)
  <2>1. CASE Find(q)
    BY <1>3, <1>4, <2>1 DEF ContentOf, Find
  <2>2. CASE ~ Find(q)
    BY <1>4, <2>2 DEF ContentOf, Find
  <2> QED BY <2>1, <2>2
<1>7. ContentOf(p)' = page.data
  BY <1>1, <1>2, <1>4 DEF ContentOf, Find, f
<1> QED BY <1>5, <1>6, <1>7

\* Flushing changes the content of no page.
LEMMA FlushData ==
  ASSUME PoolInv, DataInv, disk' \in Disks, Blank(disk', next_page_id),
         \A q \in PageIds : ~ Find(q) => disk'.content[q] = disk.content[q],
         UNCHANGED <<pool, pins, deleted>>
  PROVE  \A q \in PageIds : ContentOf(q)' = ContentOf(q)
<1>1. SUFFICES ASSUME NEW q \in PageIds PROVE ContentOf(q)' = ContentOf(q)
  OBVIOUS
<1>2. Live' = Live /\ pages' = pages /\ page_table' = page_table
  BY DEF Live, pool
<1>3. CASE Find(q)
  BY <1>2, <1>3 DEF ContentOf, Find
<1>4. CASE ~ Find(q)
  <2>1. disk \in Disks /\ Blank(disk, next_page_id)
    BY DEF PoolInv, TypeInv, DataInv
  <2>2. ReadPage(disk, q, Zeroed) = disk.content[q] /\ ReadPage(disk', q, Zeroed) = disk'.content[q]
    BY <2>1, ReadBlank
  <2> QED BY <1>2, <1>4, <2>2 DEF ContentOf, Find
<1> QED BY <1>3, <1>4

-----------------------------------------------------------------------------
(* Each action, seen from the store of pages. *)

\* A step of the store of pages, under the mapping of the pool.
StoreStep == [Store!Next]_(Store!vars)

\* A step that changes neither the pages that exist nor their contents nor the
\* pins is a stuttering step of the store.
LEMMA StoreStutters ==
  ASSUME Live' = Live, pins' = pins, \A q \in PageIds : ContentOf(q)' = ContentOf(q)
  PROVE  StoreStep
BY DEF StoreStep, Store!vars

\* A step that changes nothing keeps the contents and is a stutter of the store.
LEMMA UnchangedStep ==
  ASSUME DataInv, UNCHANGED vars
  PROVE  DataInv' /\ StoreStep
<1>1. DataInv'
  BY DEF DataInv, vars, pool, callers, Find, OnDisk, Blank
<1>2. Live' = Live /\ pins' = pins /\ \A q \in PageIds : ContentOf(q)' = ContentOf(q)
  BY DEF vars, pool, callers, Live, ContentOf, Find
<1> QED BY <1>1, <1>2, StoreStutters

\* NewPage allocates a zeroed page in the store, or is a stutter.
LEMMA NewPageStep ==
  ASSUME PoolInv, DataInv, NEW t \in Threads, NewPage(t)
  PROVE  DataInv' /\ StoreStep
<1>1. CASE UNCHANGED vars
  BY <1>1, UnchangedStep
<1>2. CASE SomeUnpinned /\ ~ UNCHANGED vars
  <2>0. /\ next_page_id < MaxPages /\ next_page_id' = next_page_id + 1
        /\ \E f \in PickedFrames : Occupy(f, next_page_id, Buffer(f))
        /\ pins' = pins \union {<<t, next_page_id>>}
        /\ UNCHANGED <<wrote, deleted, flushing>>
    BY <1>2 DEF NewPage
  <2>1. next_page_id \in 0 .. MaxPages /\ MaxPages \in Nat
    BY BoundsAssumption DEF PoolInv, TypeInv
  <2>2. PICK p \in PageIds : p = next_page_id
    BY <2>0, <2>1 DEF PageIds
  <2>3. /\ next_page_id' \in 0 .. MaxPages /\ next_page_id <= next_page_id'
        /\ p \notin Live /\ p \notin deleted
    <3>1. \A q \in deleted : q < p
      BY <2>2 DEF PoolInv, TypeInv
    <3> QED BY <2>0, <2>1, <2>2, <3>1 DEF Live
  <2>4. ~ Find(p)
    BY <2>3 DEF PoolInv, FrameInv
  <2>5. Live' = Live \union {p}
    BY <2>0, <2>1, <2>2, <2>3 DEF Live
  <2>6. PICK f \in PickedFrames : Occupy(f, p, Buffer(f))
    BY <2>0, <2>2
  <2>7. Buffer(f) = Zeroed /\ WrittenBack(f).content[p] = Zeroed
    <3>1. Blank(WrittenBack(f), next_page_id) /\ p >= next_page_id
      BY <1>2, <2>1, <2>2, WrittenBackData
    <3> QED BY <1>2, <3>1, PickedFrame, Zenon, ZenonT(30) DEF Blank
  <2>8. /\ DataInv'
        /\ \A q \in PageIds \ {p} : ContentOf(q)' = ContentOf(q)
        /\ ContentOf(p)' = Zeroed
    <3>1. /\ \A q \in PageIds : q # p => (q \in Live' <=> q \in Live)
          /\ p \in Live'
          /\ pins' = pins \union {<<t, p>>}
          /\ Zeroed = WrittenBack(f).content[p]
          /\ Occupy(f, p, Zeroed)
          /\ UNCHANGED <<wrote, deleted, flushing>>
      BY <2>0, <2>2, <2>5, <2>6, <2>7
    <3>2. Admits(t, p, f, Zeroed)
      BY <1>2, <2>3, <2>4, <3>1, Zenon, ZenonT(30) DEF Admits
    <3> QED BY <3>2, OccupyData, Zenon, ZenonT(30)
  <2>9. ContentOf(p) = Zeroed
    BY <2>3 DEF ContentOf
  <2>10. Store!New(t, p)
    <3>1. [q \in PageIds |-> ContentOf(q)]' = [q \in PageIds |-> ContentOf(q)]
      BY <2>8, <2>9
    <3>2. [q \in PageIds |-> ContentOf(q)][p] = Zeroed
      BY <2>9
    <3> QED BY <2>0, <2>2, <2>3, <2>5, <3>1, <3>2 DEF Store!New
  <2> QED BY <2>8, <2>10 DEF StoreStep, Store!Next
<1> QED BY <1>1, <1>2 DEF NewPage

\* FetchPage reads the content the store has, whichever frame it evicts.
LEMMA FetchPageStep ==
  ASSUME PoolInv, DataInv, NEW t \in Threads, NEW p \in PageIds, FetchPage(t, p)
  PROVE  DataInv' /\ StoreStep
<1>0. p \in Live /\ <<t, p>> \notin pins
  BY DEF FetchPage
<1>1. CASE UNCHANGED vars
  BY <1>1, UnchangedStep
<1>2. CASE ~ UNCHANGED vars
  <2>1. /\ DataInv' /\ Live' = Live /\ pins' = pins \union {<<t, p>>}
        /\ \A q \in PageIds : ContentOf(q)' = ContentOf(q)
    <3>1. CASE Find(p)
      <4> DEFINE f == page_table[p]
                 page == [page_id |-> p, pin_count |-> pages[f].pin_count + 1,
                          is_dirty |-> pages[f].is_dirty, data |-> pages[f].data]
      <4>1. /\ pages' = [pages EXCEPT ![f].pin_count = @ + 1]
            /\ pins' = pins \union {<<t, p>>}
            /\ UNCHANGED <<page_table, next_page_id, disk, wrote, deleted, flushing>>
        BY <3>1 DEF FetchPage
      <4>2. f \in PoolFrames /\ pages[f] \in Pages /\ pages[f].page_id = p
        BY <3>1, MappedFrame
      <4>3. pages' = [pages EXCEPT ![f] = page]
        <5>1. [pages[f] EXCEPT !.pin_count = pages[f].pin_count + 1] = page
          BY <4>2, PageFields, Zenon
        <5>2. pages' = [pages EXCEPT ![f] = [pages[f] EXCEPT !.pin_count = pages[f].pin_count + 1]]
          BY <4>1
        <5> QED BY <5>1, <5>2, Zenon
      <4>4. page.is_dirty = pages[f].is_dirty /\ page.data = pages[f].data
        OBVIOUS
      <4>5. /\ wrote' \subseteq pins'
            /\ \A s \in Threads : flushing[s] # NotFlushing => <<s, flushing[s].page>> \in pins'
            /\ \A s \in Threads, q \in PageIds \ {p} : <<s, q>> \in wrote' <=> <<s, q>> \in wrote
        BY <4>1 DEF DataInv
      <4> HIDE DEF page
      <4>6. ~ page.is_dirty /\ (\A s \in Threads : <<s, p>> \notin wrote') => disk.content[p] = page.data
        BY <3>1, <4>1, <4>4 DEF DataInv, OnDisk
      <4>7. /\ DataInv' /\ ContentOf(p)' = page.data
            /\ \A q \in PageIds \ {p} : ContentOf(q)' = ContentOf(q)
        BY <3>1, <4>1, <4>3, <4>5, <4>6, RepinData, Zenon, ZenonT(30)
      <4>8. ContentOf(p) = pages[f].data
        BY <1>0, <3>1 DEF ContentOf
      <4>9. Live' = Live
        BY <4>1 DEF Live
      <4> QED BY <4>1, <4>4, <4>7, <4>8, <4>9
    <3>2. CASE ~ Find(p)
      <4>1. /\ SomeUnpinned
            /\ \E f \in PickedFrames : Occupy(f, p, ReadPage(WrittenBack(f), p, Buffer(f)))
            /\ pins' = pins \union {<<t, p>>}
            /\ UNCHANGED <<next_page_id, wrote, deleted, flushing>>
        BY <1>2, <3>2 DEF FetchPage
      <4>2. PICK f \in PickedFrames : Occupy(f, p, ReadPage(WrittenBack(f), p, Buffer(f)))
        BY <4>1
      <4> DEFINE data == WrittenBack(f).content[p]
      <4>3. Occupy(f, p, data)
        <5>1. Buffer(f) = Zeroed
          BY <4>1, PickedFrame, Zenon, ZenonT(30)
        <5>2. WrittenBack(f) \in Disks /\ Blank(WrittenBack(f), next_page_id)
          BY <4>1, WrittenBackData
        <5>3. ReadPage(WrittenBack(f), p, Zeroed) = data
          BY <5>2, ReadBlank
        <5> QED BY <4>2, <5>1, <5>3
      <4>4. Live' = Live
        BY <4>1 DEF Live
      <4>5. /\ next_page_id \in 0 .. MaxPages /\ next_page_id' \in 0 .. MaxPages
            /\ next_page_id <= next_page_id'
        BY <4>1 DEF PoolInv, TypeInv
      <4>6. PICK d : d = data
        OBVIOUS
      <4>7. /\ DataInv' /\ disk.content[p] = d /\ ContentOf(p)' = d
            /\ \A q \in PageIds \ {p} : ContentOf(q)' = ContentOf(q)
        <5>1. /\ d = WrittenBack(f).content[p] /\ Occupy(f, p, d)
          BY <4>3, <4>6
        <5>2. UNCHANGED <<wrote, deleted, flushing>>
          BY <4>1
        <5>3. SomeUnpinned /\ pins' = pins \union {<<t, p>>}
          BY <4>1, Zenon
        <5>4. p \in Live' /\ \A q \in PageIds : q # p => (q \in Live' <=> q \in Live)
          BY <1>0, <4>4, Zenon
        <5> HIDE DEF data
        <5>5. Admits(t, p, f, d)
          BY <3>2, <4>5, <5>1, <5>2, <5>3, <5>4, Zenon, ZenonT(30) DEF Admits
        <5> QED BY <5>5, OccupyData, Zenon, ZenonT(30)
      <4>8. ContentOf(p) = d
        <5>1. disk \in Disks /\ Blank(disk, next_page_id)
          BY DEF PoolInv, TypeInv, DataInv
        <5>2. ReadPage(disk, p, Zeroed) = disk.content[p]
          BY <5>1, ReadBlank
        <5>3. ContentOf(p) = ReadPage(disk, p, Zeroed)
          BY <1>0, <3>2, Zenon DEF ContentOf
        <5> HIDE DEF data
        <5> QED BY <4>7, <5>2, <5>3, Zenon, ZenonT(30)
      <4> QED BY <4>1, <4>4, <4>7, <4>8
    <3> QED BY <3>1, <3>2
  <2>2. Store!Fetch(t, p)
    <3>1. [q \in PageIds |-> ContentOf(q)]' = [q \in PageIds |-> ContentOf(q)]
      BY <2>1
    <3> QED BY <1>0, <2>1, <3>1 DEF Store!Fetch
  <2> QED BY <2>1, <2>2 DEF StoreStep, Store!Next
<1> QED BY <1>1, <1>2

\* A caller's write is a write of the store.
LEMMA WriteDataStep ==
  ASSUME PoolInv, DataInv, NEW t \in Threads, NEW p \in PageIds, NEW c \in Contents, WriteData(t, p, c)
  PROVE  DataInv' /\ StoreStep
<1> DEFINE f == page_table[p]
           page == [page_id |-> p, pin_count |-> pages[f].pin_count,
                    is_dirty |-> pages[f].is_dirty, data |-> c]
<1>1. /\ <<t, p>> \in pins
      /\ pages' = [pages EXCEPT ![f].data = c]
      /\ wrote' = wrote \union {<<t, p>>}
      /\ UNCHANGED <<page_table, next_page_id, disk, pins, deleted, flushing>>
  BY DEF WriteData
<1>2. Find(p)
  BY <1>1, HeldPage
<1>3. f \in PoolFrames /\ pages[f] \in Pages /\ pages[f].page_id = p
  BY <1>2, MappedFrame
<1>4. pages' = [pages EXCEPT ![f] = page]
  <2>1. [pages[f] EXCEPT !.data = c] = page
    BY <1>3, PageFields, Zenon
  <2>2. pages' = [pages EXCEPT ![f] = [pages[f] EXCEPT !.data = c]]
    BY <1>1
  <2> QED BY <2>1, <2>2, Zenon
<1>5. /\ wrote' \subseteq pins'
      /\ \A s \in Threads : flushing[s] # NotFlushing => <<s, flushing[s].page>> \in pins'
      /\ \A s \in Threads, q \in PageIds \ {p} : <<s, q>> \in wrote' <=> <<s, q>> \in wrote
      /\ ~ (\A s \in Threads : <<s, p>> \notin wrote')
  BY <1>1 DEF DataInv
<1>6. page.data = c
  OBVIOUS
<1> HIDE DEF page
<1>7. /\ DataInv' /\ ContentOf(p)' = c
      /\ \A q \in PageIds \ {p} : ContentOf(q)' = ContentOf(q)
  BY <1>1, <1>2, <1>4, <1>5, <1>6, RepinData, Zenon, ZenonT(30)
<1>8. Live' = Live
  BY <1>1 DEF Live
<1>9. Store!Write(t, p, c)
  <2>1. [q \in PageIds |-> ContentOf(q)]' = [[q \in PageIds |-> ContentOf(q)] EXCEPT ![p] = c]
    BY <1>7, Zenon
  <2> QED BY <1>1, <1>8, <2>1 DEF Store!Write
<1> QED BY <1>7, <1>9 DEF StoreStep, Store!Next

\* UnpinPage is a stutter of the store: the dirty flag keeps the write.
LEMMA UnpinPageStep ==
  ASSUME PoolInv, DataInv, NEW t \in Threads, NEW p \in PageIds, NEW is_dirty \in BOOLEAN,
         Idle(t), UnpinPage(t, p, is_dirty)
  PROVE  DataInv' /\ StoreStep
<1> DEFINE f == page_table[p]
           page == [page_id |-> pages[f].page_id, pin_count |-> pages[f].pin_count - 1,
                    is_dirty |-> is_dirty \/ pages[f].is_dirty, data |-> pages[f].data]
<1>1. CASE UNCHANGED vars
  BY <1>1, UnchangedStep
<1>2. CASE ~ UNCHANGED vars
  <2>1. /\ Find(p)
        /\ <<t, p>> \in pins
        /\ <<t, p>> \in wrote => is_dirty
        /\ pages' = [pages EXCEPT ![f] = page]
        /\ pins' = pins \ {<<t, p>>}
        /\ wrote' = wrote \ {<<t, p>>}
        /\ UNCHANGED <<page_table, next_page_id, disk, deleted, flushing>>
    BY <1>2, Zenon DEF UnpinPage
  <2>2. page.data = pages[f].data /\ (page.is_dirty <=> is_dirty \/ pages[f].is_dirty)
    BY Zenon, ZenonT(30)
  <2> HIDE DEF page
  <2>3. wrote' \subseteq pins'
    BY <2>1 DEF DataInv
  <2>4. ASSUME NEW s \in Threads, flushing[s] # NotFlushing
        PROVE  <<s, flushing[s].page>> \in pins'
    <3>1. s # t
      BY <2>4 DEF Idle
    <3> QED BY <2>1, <2>4, <3>1 DEF DataInv
  <2>5. \A s \in Threads, q \in PageIds \ {p} : <<s, q>> \in wrote' <=> <<s, q>> \in wrote
    BY <2>1
  <2>6. ASSUME ~ page.is_dirty, \A s \in Threads : <<s, p>> \notin wrote'
        PROVE  disk.content[p] = page.data
    <3>1. ~ pages[f].is_dirty /\ \A s \in Threads : <<s, p>> \notin wrote
      BY <2>1, <2>2, <2>6
    <3> QED BY <2>1, <2>2, <3>1 DEF DataInv, OnDisk
  <2>7. /\ DataInv' /\ ContentOf(p)' = page.data
        /\ \A q \in PageIds \ {p} : ContentOf(q)' = ContentOf(q)
    BY <2>1, <2>3, <2>4, <2>5, <2>6, RepinData, Zenon, ZenonT(30)
  <2>8. ContentOf(p) = pages[f].data
    <3>1. p \in Live
      BY <2>1, MappedFrame
    <3> QED BY <2>1, <3>1 DEF ContentOf
  <2>9. Live' = Live
    BY <2>1 DEF Live
  <2>10. Store!Unpin(t, p)
    <3>1. [q \in PageIds |-> ContentOf(q)]' = [q \in PageIds |-> ContentOf(q)]
      BY <2>2, <2>7, <2>8
    <3> QED BY <2>1, <2>9, <3>1 DEF Store!Unpin
  <2> QED BY <2>7, <2>10 DEF StoreStep, Store!Next
<1> QED BY <1>1, <1>2

\* DeletePage deletes the page of the store, or is a stutter.
LEMMA DeletePageStep ==
  ASSUME PoolInv, DataInv, NEW p \in PageIds, DeletePage(p)
  PROVE  DataInv' /\ StoreStep
<1>0. p \in Live
  BY DEF DeletePage
<1>1. CASE UNCHANGED vars
  BY <1>1, UnchangedStep
<1>2. CASE ~ UNCHANGED vars
  <2>1. /\ Find(p) => pages[page_table[p]].pin_count = 0
        /\ deleted' = deleted \union {p}
        /\ UNCHANGED <<next_page_id, disk, pins, wrote, flushing>>
    BY <1>2 DEF DeletePage, pool
  <2>2. \A t \in Threads : <<t, p>> \notin pins
    BY <2>1, UnheldPage
  <2>3. Live' = Live \ {p}
    BY <2>1 DEF Live
  <2>4. /\ ~ Find(p)'
        /\ \A q \in PageIds \ {p} :
             /\ page_table'[q] = page_table[q]
             /\ Find(q) => pages'[page_table[q]] = pages[page_table[q]]
    <3>1. CASE Find(p)
      <4>1. /\ pages' = [pages EXCEPT ![page_table[p]] = FreePage]
            /\ page_table' = [page_table EXCEPT ![p] = NoFrame]
        BY <1>2, <3>1 DEF DeletePage
      <4>2. /\ page_table \in [PageIds -> PoolFrames \union {NoFrame}]
            /\ pages \in [PoolFrames -> Pages]
        BY DEF PoolInv, TypeInv
      <4>3. ASSUME NEW q \in PageIds \ {p}, Find(q)
            PROVE  page_table[q] \in PoolFrames /\ page_table[q] # page_table[p]
        BY <3>1, <4>3, MappedFrame
      <4> QED BY <4>1, <4>2, <4>3 DEF Find
    <3>2. CASE ~ Find(p)
      BY <1>2, <3>2 DEF DeletePage, pool, Find
    <3> QED BY <3>1, <3>2
  <2>5. DataInv'
    <3>1. wrote' \subseteq pins' /\ Blank(disk', next_page_id')
      BY <2>1 DEF DataInv, Blank
    <3>2. ASSUME NEW s \in Threads, flushing'[s] # NotFlushing
          PROVE  /\ <<s, flushing'[s].page>> \in pins'
                 /\ flushing'[s].frame = page_table'[flushing'[s].page]
      <4>1. /\ flushing'[s] = flushing[s]
            /\ <<s, flushing[s].page>> \in pins
            /\ flushing[s].frame = page_table[flushing[s].page]
        BY <2>1, <3>2 DEF DataInv
      <4>2. flushing[s].page \in PageIds
        BY <3>2, <4>1 DEF PoolInv, TypeInv, Flushes
      <4>3. flushing[s].page # p
        BY <2>2, <4>1
      <4> QED BY <2>1, <2>4, <4>1, <4>2, <4>3
    <3>3. ASSUME NEW q \in PageIds, page_table'[q] # NoFrame,
                 ~ pages'[page_table'[q]].is_dirty, \A s \in Threads : <<s, q>> \notin wrote'
          PROVE  disk'.content[q] = pages'[page_table'[q]].data
      <4>1. q # p
        BY <2>4, <3>3 DEF Find
      <4>2. /\ page_table'[q] = page_table[q] /\ Find(q)
            /\ pages'[page_table[q]] = pages[page_table[q]]
        BY <2>4, <3>3, <4>1 DEF Find
      <4>3. disk.content[q] = pages[page_table[q]].data
        BY <2>1, <3>3, <4>2 DEF DataInv, OnDisk
      <4> QED BY <2>1, <4>2, <4>3
    <3> QED BY <3>1, <3>2, <3>3 DEF DataInv, Find, OnDisk
  <2>6. \A q \in PageIds \ {p} : ContentOf(q)' = ContentOf(q)
    <3>1. SUFFICES ASSUME NEW q \in PageIds \ {p} PROVE ContentOf(q)' = ContentOf(q)
      OBVIOUS
    <3>2. CASE Find(q)
      BY <2>3, <2>4, <3>2 DEF ContentOf, Find
    <3>3. CASE ~ Find(q)
      BY <2>1, <2>3, <2>4, <3>3 DEF ContentOf, Find
    <3> QED BY <3>2, <3>3
  <2>7. ContentOf(p)' = Zeroed
    BY <2>3 DEF ContentOf
  <2>8. Store!Delete(p)
    <3>1. [q \in PageIds |-> ContentOf(q)]' = [[q \in PageIds |-> ContentOf(q)] EXCEPT ![p] = Zeroed]
      BY <2>6, <2>7, Zenon
    <3>2. Store!PinnedBy(p) = {}
      BY <2>2 DEF Store!PinnedBy
    <3> QED BY <1>0, <2>1, <2>3, <3>1, <3>2 DEF Store!Delete
  <2> QED BY <2>5, <2>8 DEF StoreStep, Store!Next
<1> QED BY <1>1, <1>2

\* A flush writes the right page's data, because its caller holds the page.
LEMMA FlushWriteStep ==
  ASSUME PoolInv, DataInv, NEW t \in Threads, FlushWrite(t)
  PROVE  DataInv' /\ StoreStep
<1>1. /\ flushing[t] # NotFlushing
      /\ disk' = WritePage(disk, flushing[t].page, pages[flushing[t].frame].data)
      /\ wrote' = wrote \ {<<t, flushing[t].page>>}
      /\ flushing' = [flushing EXCEPT ![t] = NotFlushing]
      /\ UNCHANGED <<pool, pins, deleted>>
  BY DEF FlushWrite
<1>2. flushing[t].page \in PageIds
  BY <1>1 DEF PoolInv, TypeInv, Flushes
<1>3. PICK q \in PageIds : q = flushing[t].page
  BY <1>2
<1>4. <<t, q>> \in pins /\ flushing[t].frame = page_table[q]
  BY <1>1, <1>3 DEF DataInv
<1>5. /\ Find(q) /\ q \in Live /\ pages[page_table[q]] \in Pages
  BY <1>4, HeldPage, MappedFrame
<1>6. /\ disk \in Disks /\ Blank(disk, next_page_id) /\ next_page_id \in 0 .. MaxPages
      /\ q < next_page_id /\ pages[page_table[q]].data \in Contents
  <2>1. disk \in Disks /\ Blank(disk, next_page_id) /\ next_page_id \in 0 .. MaxPages
    BY DEF PoolInv, TypeInv, DataInv
  <2>2. q < next_page_id
    BY <1>5, <2>1 DEF Live
  <2> QED BY <1>5, <2>1, <2>2 DEF Pages
<1>7. disk' = WritePage(disk, q, pages[page_table[q]].data)
  BY <1>1, <1>3, <1>4
<1>8. /\ disk' \in Disks
      /\ Blank(disk', next_page_id)
      /\ disk'.content[q] = pages[page_table[q]].data
      /\ \A p \in PageIds \ {q} : disk'.content[p] = disk.content[p]
  BY <1>6, <1>7, WriteBlank, DiskTypes
<1>9. /\ pages' = pages /\ page_table' = page_table /\ next_page_id' = next_page_id
      /\ Live' = Live /\ pins' = pins
  BY <1>1 DEF pool, Live
<1>10. DataInv'
  <2>1. wrote' \subseteq pins'
    BY <1>1 DEF DataInv
  <2>2. ASSUME NEW s \in Threads, flushing'[s] # NotFlushing
        PROVE  /\ <<s, flushing'[s].page>> \in pins'
               /\ flushing'[s].frame = page_table'[flushing'[s].page]
    <3>1. flushing'[s] = flushing[s]
      BY <1>1, <2>2 DEF PoolInv, TypeInv
    <3> QED BY <1>9, <2>2, <3>1 DEF DataInv
  <2>3. ASSUME NEW p \in PageIds, page_table'[p] # NoFrame,
               ~ pages'[page_table'[p]].is_dirty, \A s \in Threads : <<s, p>> \notin wrote'
        PROVE  disk'.content[p] = pages'[page_table'[p]].data
    <3>1. CASE p = q
      BY <1>8, <1>9, <3>1
    <3>2. CASE p # q
      <4>1. \A s \in Threads : <<s, p>> \notin wrote
        BY <1>1, <1>3, <2>3, <3>2
      <4>2. disk.content[p] = pages[page_table[p]].data
        BY <1>9, <2>3, <4>1 DEF DataInv, OnDisk, Find
      <4> QED BY <1>8, <1>9, <3>2, <4>2
    <3> QED BY <3>1, <3>2
  <2> QED BY <1>8, <1>9, <2>1, <2>2, <2>3 DEF DataInv, Find, OnDisk, Blank
<1>11. \A p \in PageIds : ContentOf(p)' = ContentOf(p)
  <2>1. \A p \in PageIds : ~ Find(p) => disk'.content[p] = disk.content[p]
    BY <1>5, <1>8
  <2> QED BY <1>1, <1>8, <2>1, FlushData, Zenon, ZenonT(30)
<1> QED BY <1>9, <1>10, <1>11, StoreStutters

\* FlushAllPages is a stutter of the store.
LEMMA FlushAllStep ==
  ASSUME PoolInv, DataInv, FlushAllPages
  PROVE  DataInv' /\ StoreStep
<1>1. /\ disk' \in Disks
      /\ \A p \in PageIds : disk'.content[p] = IF Find(p) THEN pages[page_table[p]].data
                                                          ELSE disk.content[p]
      /\ disk'.size >= disk.size
      /\ \A p \in PageIds : Find(p) => p < disk'.size
  BY FlushAllDisk
<1>2. UNCHANGED <<pool, callers, flushing>>
  BY DEF FlushAllPages
<1>3. /\ pages' = pages /\ page_table' = page_table /\ next_page_id' = next_page_id
      /\ Live' = Live /\ pins' = pins
  BY <1>2 DEF pool, callers, Live
<1>4. Blank(disk', next_page_id)
  <2>1. /\ disk \in Disks /\ Blank(disk, next_page_id) /\ next_page_id \in 0 .. MaxPages
    BY DEF PoolInv, TypeInv, DataInv
  <2>2. disk.size \in Nat /\ disk'.size \in Nat /\ next_page_id \in Nat
    BY <1>1, <2>1, BoundsAssumption DEF Disks
  <2>3. ASSUME NEW p \in PageIds, p >= disk'.size \/ p >= next_page_id
        PROVE  disk'.content[p] = Zeroed
    <3>1. p \in Nat
      BY Numbers
    <3>2. ~ Find(p)
      <4>1. ASSUME Find(p) PROVE FALSE
        <5>1. p \in Live /\ p < disk'.size
          BY <1>1, <4>1, MappedFrame
        <5>2. p < next_page_id
          BY <2>2, <5>1 DEF Live
        <5> QED BY <2>2, <2>3, <3>1, <5>1, <5>2
      <4> QED BY <4>1
    <3>3. p >= disk.size \/ p >= next_page_id
      BY <1>1, <2>2, <2>3, <3>1
    <3> QED BY <1>1, <2>1, <3>2, <3>3 DEF Blank
  <2> QED BY <2>3 DEF Blank
<1>5. DataInv'
  <2>1. wrote' \subseteq pins'
    BY <1>2 DEF DataInv, callers
  <2>2. ASSUME NEW s \in Threads, flushing'[s] # NotFlushing
        PROVE  /\ <<s, flushing'[s].page>> \in pins'
               /\ flushing'[s].frame = page_table'[flushing'[s].page]
    BY <1>2, <1>3, <2>2 DEF DataInv
  <2>3. \A p \in PageIds : Find(p)' => OnDisk(p)'
    BY <1>1, <1>3 DEF Find, OnDisk
  <2> QED BY <1>3, <1>4, <2>1, <2>2, <2>3 DEF DataInv, Blank
<1>6. \A p \in PageIds : ContentOf(p)' = ContentOf(p)
  BY <1>1, <1>2, <1>4, FlushData DEF callers
<1> QED BY <1>3, <1>5, <1>6, StoreStutters

\* The first half of a flush is a stutter of the store.
LEMMA FlushFindStep ==
  ASSUME FlushUnpinned = FALSE, PoolInv, DataInv, NEW t \in Threads, NEW p \in PageIds, FlushFind(t, p)
  PROVE  DataInv' /\ StoreStep
<1>1. CASE UNCHANGED vars
  BY <1>1, UnchangedStep
<1>2. CASE ~ UNCHANGED vars
  <2>1. /\ Find(p) /\ <<t, p>> \in pins
        /\ flushing' = [flushing EXCEPT ![t] = [page |-> p, frame |-> page_table[p]]]
        /\ UNCHANGED <<pool, disk, callers>>
    BY <1>2 DEF FlushFind
  <2>2. flushing \in [Threads -> Flushes]
    BY DEF PoolInv, TypeInv
  <2>3. /\ pages' = pages /\ page_table' = page_table /\ next_page_id' = next_page_id
        /\ Live' = Live /\ pins' = pins /\ wrote' = wrote /\ disk' = disk
    BY <2>1 DEF pool, callers, Live
  <2>4. ASSUME NEW s \in Threads, flushing'[s] # NotFlushing
        PROVE  /\ <<s, flushing'[s].page>> \in pins'
               /\ flushing'[s].frame = page_table'[flushing'[s].page]
    <3>1. CASE s = t
      <4>1. flushing'[s] = [page |-> p, frame |-> page_table[p]]
        BY <2>1, <2>2, <3>1
      <4>2. flushing'[s].page = p /\ flushing'[s].frame = page_table[p]
        BY <4>1
      <4> QED BY <2>1, <2>3, <3>1, <4>2
    <3>2. CASE s # t
      <4>1. flushing'[s] = flushing[s]
        BY <2>1, <2>2, <3>2
      <4> QED BY <2>3, <2>4, <4>1, Zenon, ZenonT(30) DEF DataInv
    <3> QED BY <3>1, <3>2
  <2>5. DataInv'
    BY <2>3, <2>4 DEF DataInv, Find, OnDisk, Blank
  <2>6. \A q \in PageIds : ContentOf(q)' = ContentOf(q)
    BY <2>3 DEF ContentOf, Find
  <2> QED BY <2>3, <2>5, <2>6, StoreStutters
<1> QED BY <1>1, <1>2

\* A new pool has the invariant on contents.
LEMMA InitDataInv == Init => DataInv
<1> SUFFICES ASSUME Init PROVE DataInv
  OBVIOUS
<1>1. /\ wrote = {} /\ \A t \in Threads : flushing[t] = NotFlushing
      /\ \A p \in PageIds : ~ Find(p) /\ disk.content[p] = Zeroed
  BY DEF Init, Find
<1> QED BY <1>1 DEF DataInv, Blank

\* Every step keeps the contents right and is a step of the store or none.
LEMMA NextStep ==
  ASSUME FlushUnpinned = FALSE, PoolInv, DataInv, [Next]_vars
  PROVE  DataInv' /\ StoreStep
<1>1. CASE UNCHANGED vars
  BY <1>1, UnchangedStep
<1>2. CASE Next
  <2>1. PICK t \in Threads :
          \/ FlushWrite(t)
          \/ NewPage(t)
          \/ FlushAllPages
          \/ \E p \in PageIds :
               /\ Idle(t)
               /\ \/ FetchPage(t, p)
                  \/ DeletePage(p)
                  \/ \E c \in Contents : WriteData(t, p, c)
                  \/ \E is_dirty \in BOOLEAN : UnpinPage(t, p, is_dirty)
                  \/ FlushFind(t, p)
    BY <1>2 DEF Next
  <2>2. CASE FlushWrite(t)
    BY <2>2, FlushWriteStep
  <2>3. CASE NewPage(t)
    BY <2>3, NewPageStep
  <2>4. CASE FlushAllPages
    BY <2>4, FlushAllStep
  <2>5. ASSUME NEW p \in PageIds, FetchPage(t, p) PROVE DataInv' /\ StoreStep
    BY <2>5, FetchPageStep
  <2>6. ASSUME NEW p \in PageIds, DeletePage(p) PROVE DataInv' /\ StoreStep
    BY <2>6, DeletePageStep
  <2>7. ASSUME NEW p \in PageIds, NEW c \in Contents, WriteData(t, p, c) PROVE DataInv' /\ StoreStep
    BY <2>7, WriteDataStep
  <2>8. ASSUME NEW p \in PageIds, NEW is_dirty \in BOOLEAN, Idle(t), UnpinPage(t, p, is_dirty)
        PROVE  DataInv' /\ StoreStep
    BY <2>8, UnpinPageStep
  <2>9. ASSUME NEW p \in PageIds, FlushFind(t, p) PROVE DataInv' /\ StoreStep
    BY <2>9, FlushFindStep, Zenon
  <2> QED BY <2>1, <2>2, <2>3, <2>4, <2>5, <2>6, <2>7, <2>8, <2>9
<1> QED BY <1>1, <1>2

-----------------------------------------------------------------------------
(* The flushes keep the frames and the pins. *)

\* Steps that change only the disk, the flushes in progress and what callers
\* remember of their writes.
LEMMA FlushKeeps ==
  ASSUME PoolInv, disk' \in Disks, flushing' \in [Threads -> Flushes],
         wrote' \in SUBSET (Threads \X PageIds), UNCHANGED <<pool, pins, deleted>>
  PROVE  PoolInv'
<1>1. TypeInv'
  BY DEF PoolInv, TypeInv, pool
<1>2. FrameInv'
  BY Zenon, ZenonT(30) DEF PoolInv, FrameInv, Find, Live, pool
<1>3. PinInv'
  BY DEF PoolInv, PinInv, Find, Live, pool
<1> QED BY <1>1, <1>2, <1>3 DEF PoolInv

\* The two halves of a flush and FlushAllPages keep the invariant.
LEMMA FlushStepsKeep ==
  ASSUME PoolInv, NEW t \in Threads,
         FlushWrite(t) \/ FlushAllPages \/ \E p \in PageIds : FlushFind(t, p)
  PROVE  PoolInv' \/ UNCHANGED vars
<1>1. /\ disk \in Disks /\ flushing \in [Threads -> Flushes]
      /\ wrote \in SUBSET (Threads \X PageIds)
  BY DEF PoolInv, TypeInv
<1>2. CASE FlushWrite(t)
  <2>1. /\ flushing[t] # NotFlushing
        /\ disk' = WritePage(disk, flushing[t].page, pages[flushing[t].frame].data)
        /\ wrote' = wrote \ {<<t, flushing[t].page>>}
        /\ flushing' = [flushing EXCEPT ![t] = NotFlushing]
        /\ UNCHANGED <<pool, pins, deleted>>
    BY <1>2 DEF FlushWrite
  <2>2. flushing[t] \in [page : PageIds, frame : PoolFrames]
    BY <1>1, <2>1 DEF Flushes
  <2>3. flushing[t].page \in PageIds /\ flushing[t].frame \in PoolFrames
    BY <2>2
  <2>4. pages[flushing[t].frame].data \in Contents
    BY <2>3 DEF PoolInv, TypeInv, Pages
  <2>5. disk' \in Disks
    BY <1>1, <2>1, <2>3, <2>4, DiskTypes
  <2>6. flushing' \in [Threads -> Flushes]
    BY <1>1, <2>1 DEF Flushes
  <2>7. wrote' \in SUBSET (Threads \X PageIds)
    BY <1>1, <2>1
  <2> QED BY <2>1, <2>5, <2>6, <2>7, FlushKeeps
<1>3. CASE FlushAllPages
  <2>1. disk' \in Disks
    BY <1>3, FlushAllDisk
  <2>2. UNCHANGED <<pool, callers, flushing>>
    BY <1>3, Zenon, ZenonT(30) DEF FlushAllPages
  <2> QED BY <1>1, <2>1, <2>2, FlushKeeps DEF callers
<1>4. ASSUME NEW p \in PageIds, FlushFind(t, p), ~ UNCHANGED vars PROVE PoolInv'
  <2>1. /\ Find(p)
        /\ flushing' = [flushing EXCEPT ![t] = [page |-> p, frame |-> page_table[p]]]
        /\ UNCHANGED <<pool, disk, callers>>
    BY <1>4 DEF FlushFind
  <2>2. page_table[p] \in PoolFrames
    BY <2>1, MappedFrame, Zenon, ZenonT(30)
  <2>3. flushing' \in [Threads -> Flushes]
    BY <1>1, <2>1, <2>2 DEF Flushes
  <2> QED BY <1>1, <2>1, <2>3, FlushKeeps DEF callers
<1> QED BY <1>2, <1>3, <1>4

-----------------------------------------------------------------------------
(* The theorems on frames and pins. *)

\* A new pool has the invariant: every frame is on the free list.
LEMMA InitPoolInv == Init => PoolInv
<1> SUFFICES ASSUME Init PROVE PoolInv
  OBVIOUS
<1> USE Numbers DEF Init
<1>1. /\ EmptyReplacer \in Replacers /\ Consistent(EmptyReplacer)
      /\ \A f \in Frames : EmptyReplacer.access_count[f] = 0 /\ ~ EmptyReplacer.is_evictable[f]
  BY EmptyReplacerConsistent DEF EmptyReplacer
<1>2. FreePage \in Pages /\ FreePage.page_id = INVALID_PAGE_ID
  BY ContentsAssumption DEF FreePage, Pages
<1>3. free_list \in Seq(PoolFrames) /\ NoRepeats(free_list) /\ Elements(free_list) = PoolFrames
  <2>1. pool_size \in Nat
    BY ReplacerSizeAssumption DEF pool_size
  <2>2. \A i \in 1 .. pool_size : i - 1 \in PoolFrames
    BY <2>1 DEF PoolFrames
  <2>3. free_list \in Seq(PoolFrames) /\ DOMAIN free_list = 1 .. pool_size
    BY <2>1, <2>2
  <2>4. \A i \in DOMAIN free_list : free_list[i] = i - 1
    BY <2>3
  <2>5. NoRepeats(free_list)
    BY <2>1, <2>3, <2>4 DEF NoRepeats
  <2>6. ASSUME NEW f \in PoolFrames PROVE f \in Elements(free_list)
    <3>1. f + 1 \in 1 .. pool_size /\ (f + 1) - 1 = f
      BY <2>1 DEF PoolFrames
    <3> QED BY <2>3, <2>4, <3>1 DEF Elements
  <2>7. Elements(free_list) \subseteq PoolFrames
    BY <2>2, <2>3, <2>4 DEF Elements
  <2> QED BY <2>3, <2>5, <2>6, <2>7, Zenon, ZenonT(30)
<1>4. pages \in [PoolFrames -> Pages] /\ \A f \in PoolFrames : pages[f] = FreePage
  BY <1>2
<1>5. page_table \in [PageIds -> PoolFrames \union {NoFrame}] /\ \A p \in PageIds : ~ Find(p)
  BY DEF Find
<1>6. TypeInv
  <2>1. disk \in Disks
    BY ContentsAssumption, BoundsAssumption DEF Disks
  <2>2. flushing \in [Threads -> Flushes]
    BY DEF Flushes
  <2>3. next_page_id \in 0 .. MaxPages
    BY BoundsAssumption
  <2> QED BY <1>1, <1>3, <1>4, <1>5, <2>1, <2>2, <2>3 DEF TypeInv
<1>7. FrameInv
  BY <1>1, <1>2, <1>3, <1>4, <1>5, Zenon, ZenonT(30) DEF FrameInv
<1>8. PinInv
  BY <1>5 DEF PinInv
<1> QED BY <1>6, <1>7, <1>8 DEF PoolInv

\* Every step keeps the invariant.
LEMMA NextPoolInv == PoolInv /\ [Next]_vars => PoolInv'
<1> SUFFICES ASSUME PoolInv, [Next]_vars PROVE PoolInv'
  OBVIOUS
<1>1. CASE UNCHANGED vars
  <2>1. /\ pages' = pages /\ page_table' = page_table /\ free_list' = free_list
        /\ replacer' = replacer /\ next_page_id' = next_page_id /\ disk' = disk
        /\ pins' = pins /\ wrote' = wrote /\ deleted' = deleted /\ flushing' = flushing
    BY <1>1 DEF vars, pool, callers
  <2>2. TypeInv' = TypeInv
    BY <2>1, Zenon DEF TypeInv
  <2>3. FrameInv' = FrameInv
    BY <2>1, Zenon DEF FrameInv, Find, Live
  <2>4. PinInv' = PinInv
    BY <2>1, Zenon, ZenonT(30) DEF PinInv, Find, Live
  <2> QED BY <2>2, <2>3, <2>4 DEF PoolInv
<1>2. CASE Next
  <2>1. PICK t \in Threads :
          \/ FlushWrite(t)
          \/ NewPage(t)
          \/ FlushAllPages
          \/ \E p \in PageIds :
               \/ FetchPage(t, p)
               \/ DeletePage(p)
               \/ \E c \in Contents : WriteData(t, p, c)
               \/ \E is_dirty \in BOOLEAN : UnpinPage(t, p, is_dirty)
               \/ FlushFind(t, p)
    BY <1>2 DEF Next
  <2>2. CASE FlushWrite(t) \/ FlushAllPages \/ \E p \in PageIds : FlushFind(t, p)
    BY <1>1, <2>2, FlushStepsKeep
  <2>3. CASE NewPage(t)
    BY <1>1, <2>3, NewPageKeeps
  <2>4. ASSUME NEW p \in PageIds, FetchPage(t, p) PROVE PoolInv'
    BY <1>1, <2>4, FetchPageKeeps
  <2>5. ASSUME NEW p \in PageIds, DeletePage(p) PROVE PoolInv'
    BY <1>1, <2>5, DeletePageKeeps
  <2>6. ASSUME NEW p \in PageIds, NEW c \in Contents, WriteData(t, p, c) PROVE PoolInv'
    BY <2>6, WriteDataKeeps
  <2>7. ASSUME NEW p \in PageIds, NEW is_dirty \in BOOLEAN, UnpinPage(t, p, is_dirty) PROVE PoolInv'
    BY <1>1, <2>7, UnpinPageKeeps
  <2> QED BY <2>1, <2>2, <2>3, <2>4, <2>5, <2>6, <2>7
<1> QED BY <1>1, <1>2

\* In every reachable state the frames, the page table, the free list and the
\* replacer agree, and pin counts count the holders.
THEOREM PoolInvariance == Spec => []PoolInv
BY InitPoolInv, NextPoolInv, PTL DEF Spec

\* NewPage, FetchPage, UnpinPage, DeletePage and the flushes keep every frame
\* either free and blank or mapped by the page it holds and tracked by the
\* replacer, evictable exactly if it is unpinned.
THEOREM FramesCorrect == Spec => []FrameInv
<1>1. PoolInv => FrameInv
  BY DEF PoolInv
<1> QED BY <1>1, PoolInvariance, PTL

\* The pin count of a mapped page is the number of threads that have pinned it.
THEOREM PinsCorrect == Spec => []PinInv
<1>1. PoolInv => PinInv
  BY DEF PoolInv
<1> QED BY <1>1, PoolInvariance, PTL

\* When NewPage or FetchPage calls Evict it succeeds, with an unpinned frame
\* of the pool: the uninitialised frame_id is never used.
THEOREM EvictNeverFailsHolds == Spec => []EvictNeverFails
<1>1. PoolInv => EvictNeverFails
  BY PoolInvEvict
<1> QED BY <1>1, PoolInvariance, PTL

\* A pointer to a page stays valid as long as its holder keeps the pin: no
\* call of another thread moves or drops the page.
THEOREM PinnedPagesStayHolds == Spec => PinnedPagesStay
<1> DEFINE Stays == \A pin \in pins \intersect pins' : page_table'[pin[2]] = page_table[pin[2]]
<1>1. PoolInv /\ [Next]_vars => [Stays]_vars
  <2> SUFFICES ASSUME PoolInv, Next, NEW pin \in pins, pin \in pins'
               PROVE  page_table'[pin[2]] = page_table[pin[2]]
    OBVIOUS
  <2>1. pins \in SUBSET (Threads \X PageIds)
    BY DEF PoolInv, TypeInv
  <2>2. PICK s \in Threads, q \in PageIds : pin = <<s, q>>
    BY <2>1, PinIsPair
  <2>3. SUFFICES page_table'[q] = page_table[q]
    BY <2>2
  <2>4. CASE page_table' = page_table
    BY <2>4
  <2>5. PICK t \in Threads :
          \/ FlushWrite(t)
          \/ NewPage(t)
          \/ FlushAllPages
          \/ \E p \in PageIds :
               \/ FetchPage(t, p)
               \/ DeletePage(p)
               \/ \E c \in Contents : WriteData(t, p, c)
               \/ \E is_dirty \in BOOLEAN : UnpinPage(t, p, is_dirty)
               \/ FlushFind(t, p)
    BY DEF Next
  <2>6. CASE FlushWrite(t) \/ FlushAllPages
    <3>1. pool' = pool
      <4>1. CASE FlushWrite(t)
        BY <4>1 DEF FlushWrite
      <4>2. CASE FlushAllPages
        BY <4>2, Zenon, ZenonT(30) DEF FlushAllPages
      <4> QED BY <2>6, <4>1, <4>2
    <3> QED BY <2>4, <3>1 DEF pool
  <2>7. CASE NewPage(t) /\ page_table' # page_table
    <3>1. /\ SomeUnpinned /\ next_page_id < MaxPages
          /\ \E f \in PickedFrames : Occupy(f, next_page_id, Buffer(f))
      BY <2>7 DEF NewPage, vars, pool
    <3>2. next_page_id \in PageIds /\ ~ Find(next_page_id)
      <4>1. next_page_id \in 0 .. MaxPages /\ MaxPages \in Nat
        BY BoundsAssumption DEF PoolInv, TypeInv
      <4>2. next_page_id \in PageIds /\ next_page_id \notin Live
        BY <3>1, <4>1 DEF PageIds, Live
      <4> QED BY <4>2 DEF PoolInv, FrameInv
    <3> QED BY <2>2, <3>1, <3>2, OccupyStays
  <2>8. ASSUME NEW p \in PageIds, FetchPage(t, p), page_table' # page_table
        PROVE  page_table'[q] = page_table[q]
    <3>1. /\ SomeUnpinned /\ ~ Find(p)
          /\ \E f \in PickedFrames : Occupy(f, p, ReadPage(WrittenBack(f), p, Buffer(f)))
      BY <2>8 DEF FetchPage, vars, pool
    <3> QED BY <2>2, <3>1, OccupyStays
  <2>9. ASSUME NEW p \in PageIds, DeletePage(p), page_table' # page_table
        PROVE  page_table'[q] = page_table[q]
    <3>1. /\ Find(p) /\ pages[page_table[p]].pin_count = 0
          /\ page_table' = [page_table EXCEPT ![p] = NoFrame]
      BY <2>9 DEF DeletePage, vars, pool
    <3>2. q # p
      BY <2>2, <3>1, UnheldPage
    <3> QED BY <3>1, <3>2 DEF PoolInv, TypeInv
  <2>10. ASSUME NEW p \in PageIds,
                \/ \E c \in Contents : WriteData(t, p, c)
                \/ \E is_dirty \in BOOLEAN : UnpinPage(t, p, is_dirty)
                \/ FlushFind(t, p)
         PROVE  page_table' = page_table
    BY <2>10, Zenon DEF WriteData, UnpinPage, FlushFind, vars, pool
  <2> QED BY <2>4, <2>5, <2>6, <2>7, <2>8, <2>9, <2>10
<1> QED BY <1>1, PoolInvariance, PTL DEF Spec, PinnedPagesStay

-----------------------------------------------------------------------------
(* The theorems on contents. *)

\* If callers flush only pages they have pinned, a resident page that is not
\* dirty and has no unreported write reads the same from disk: evicting it
\* without writing it back loses nothing.
THEOREM CleanMeansOnDiskHolds == FlushUnpinned = FALSE /\ Spec => []CleanMeansOnDisk
<1> SUFFICES ASSUME FlushUnpinned = FALSE PROVE Spec => []CleanMeansOnDisk
  BY Zenon
<1>1. Init => DataInv
  BY InitDataInv
<1>2. PoolInv /\ DataInv /\ [Next]_vars => DataInv'
  BY NextStep, Zenon, ZenonT(30)
<1>3. PoolInv /\ DataInv => CleanMeansOnDisk
  <2> SUFFICES ASSUME PoolInv, DataInv PROVE CleanMeansOnDisk
    OBVIOUS
  <2>1. disk \in Disks /\ Blank(disk, next_page_id)
    BY DEF PoolInv, TypeInv, DataInv
  <2>2. \A p \in PageIds : ReadPage(disk, p, Zeroed) = disk.content[p]
    BY <2>1, ReadBlank
  <2> QED BY <2>2 DEF DataInv, CleanMeansOnDisk, OnDisk
<1> QED BY <1>1, <1>2, <1>3, PoolInvariance, PTL DEF Spec

\* If callers flush only pages they have pinned, the pool implements the store
\* of pages: NewPage, FetchPage, UnpinPage and DeletePage are the store's
\* operations, and no eviction, write-back, read or flush changes a page.
THEOREM PoolImplementsStore == FlushUnpinned = FALSE /\ Spec => Implements
<1> SUFFICES ASSUME FlushUnpinned = FALSE PROVE Spec => Implements
  BY Zenon, ZenonT(30)
<1>1. Init => DataInv
  BY InitDataInv
<1>2. PoolInv /\ DataInv /\ [Next]_vars => DataInv'
  BY NextStep, Zenon
<1>3. Init => Store!Init
  <2> SUFFICES ASSUME Init PROVE Store!Init
    OBVIOUS
  <2>1. Live = {}
    BY DEF Init, Live
  <2>2. \A p \in PageIds : ContentOf(p) = Zeroed
    BY <2>1 DEF ContentOf
  <2>3. pins = {}
    BY DEF Init
  <2> QED BY <2>1, <2>2, <2>3 DEF Store!Init
<1>4. PoolInv /\ DataInv /\ [Next]_vars => [Store!Next]_(Store!vars)
  BY NextStep, Zenon DEF StoreStep
<1> QED BY <1>1, <1>2, <1>3, <1>4, PoolInvariance, PTL DEF Spec, Implements, Store!Spec

=============================================================================
