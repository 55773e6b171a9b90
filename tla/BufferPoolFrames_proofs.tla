---------------------- MODULE BufferPoolFrames_proofs -----------------------
(***************************************************************************)
(* The inductive invariant of the buffer pool, and the lemmas on what its  *)
(* operations do to the frames, the free list, the page table and the      *)
(* replacer: how a frame is picked and given to a page, and how a frame    *)
(* already given to a page changes; that NewPage, FetchPage, UnpinPage,    *)
(* DeletePage and the callers' writes keep the invariant.                  *)
(***************************************************************************)
EXTENDS BufferPool, LRUKReplacer_proofs, TLAPS

\* Leaves that name no prover are tried with these, in this order.
USE SMT, Zenon, SMTT(30), ZenonT(30)

-----------------------------------------------------------------------------
(* The invariant. *)

\* What the disk can hold: a content for each page and a file size.
Disks == [content : [PageIds -> Contents], size : 0 .. MaxPages]

\* A flush between its lookup and its write, or none.
Flushes == [page : PageIds, frame : PoolFrames] \union {NotFlushing}

\* The types of the variables.
TypeInv ==
  /\ pages \in [PoolFrames -> Pages]
  /\ page_table \in [PageIds -> PoolFrames \union {NoFrame}]
  /\ free_list \in Seq(PoolFrames)
  /\ replacer \in Replacers
  /\ next_page_id \in 0 .. MaxPages
  /\ disk \in Disks
  /\ pins \in SUBSET (Threads \X PageIds)
  /\ wrote \in SUBSET (Threads \X PageIds)
  /\ deleted \in SUBSET PageIds /\ \A p \in deleted : p < next_page_id
  /\ flushing \in [Threads -> Flushes]

\* The inductive invariant on frames and pins.
PoolInv == TypeInv /\ FrameInv /\ PinInv

-----------------------------------------------------------------------------
(* Constants. *)

\* Frames and pages are numbers; a frame of the pool is one the replacer takes.
LEMMA Numbers ==
  /\ PoolFrames \subseteq Frames /\ pool_size \in Frames /\ pool_size \notin PoolFrames
  /\ Frames = PoolFrames \union {pool_size}
  /\ PoolFrames \subseteq Nat /\ PageIds \subseteq Nat
  /\ NoFrame \notin PoolFrames /\ INVALID_PAGE_ID \notin PageIds
BY ReplacerSizeAssumption, BoundsAssumption
   DEF PoolFrames, Frames, pool_size, PageIds, NoFrame, INVALID_PAGE_ID

-----------------------------------------------------------------------------
(* What the operations of the replacer do to counts and flags. *)

\* RecordAccess followed by SetEvictable(frame, false), as NewPage and
\* FetchPage call them: one more access, and the frame is not evictable.
LEMMA AccessedLemma ==
  ASSUME NEW r \in Replacers, Consistent(r), NEW f \in Frames
  PROVE  /\ Accessed(r, f) \in Replacers
         /\ Consistent(Accessed(r, f))
         /\ Accessed(r, f).access_count = [r.access_count EXCEPT ![f] = r.access_count[f] + 1]
         /\ Accessed(r, f).is_evictable = [r.is_evictable EXCEPT ![f] = FALSE]
<1> DEFINE a == RecordAccess(r, f)
<1>1. a \in Replacers /\ Consistent(a)
  BY RecordAccessConsistent
<1>2. /\ a.access_count = [r.access_count EXCEPT ![f] = r.access_count[f] + 1]
      /\ a.is_evictable = r.is_evictable
  BY DEF RecordAccess
<1>3. a.access_count[f] # 0
  <2>1. r.access_count \in [Frames -> Nat]
    BY DEF Replacers
  <2> QED BY <1>2, <2>1
<1> HIDE DEF a
<1>4. SetEvictable(a, f, FALSE) \in Replacers /\ Consistent(SetEvictable(a, f, FALSE))
  BY <1>1, SetEvictableConsistent, Zenon
<1>5. /\ SetEvictable(a, f, FALSE).access_count = a.access_count
      /\ SetEvictable(a, f, FALSE).is_evictable = [a.is_evictable EXCEPT ![f] = FALSE]
  BY <1>1, <1>3 DEF SetEvictable, Replacers
<1> QED BY <1>2, <1>4, <1>5, Zenon DEF Accessed, a

\* SetEvictable of a tracked frame sets its flag and no other.
LEMMA SetEvictableLemma ==
  ASSUME NEW r \in Replacers, Consistent(r), NEW f \in Frames, NEW b \in BOOLEAN,
         r.access_count[f] # 0
  PROVE  /\ SetEvictable(r, f, b) \in Replacers
         /\ Consistent(SetEvictable(r, f, b))
         /\ SetEvictable(r, f, b).access_count = r.access_count
         /\ SetEvictable(r, f, b).is_evictable = [r.is_evictable EXCEPT ![f] = b]
<1>1. /\ SetEvictable(r, f, b).access_count = r.access_count
      /\ SetEvictable(r, f, b).is_evictable = [r.is_evictable EXCEPT ![f] = b]
  BY DEF SetEvictable, Replacers
<1> QED BY <1>1, SetEvictableConsistent

\* Evict forgets its victim and nothing else.
LEMMA EvictedLemma ==
  ASSUME NEW r \in Replacers, Consistent(r), EvictSucceeds(r)
  PROVE  /\ Victim(r) \in EvictableFrames(r)
         /\ Evict(r) \in Replacers
         /\ Consistent(Evict(r))
         /\ Evict(r).access_count = [r.access_count EXCEPT ![Victim(r)] = 0]
         /\ Evict(r).is_evictable = [r.is_evictable EXCEPT ![Victim(r)] = FALSE]
<1>1. Victim(r) \in EvictableFrames(r)
  BY EvictLemma
<1>2. /\ Evict(r).access_count = [r.access_count EXCEPT ![Victim(r)] = 0]
      /\ Evict(r).is_evictable = [r.is_evictable EXCEPT ![Victim(r)] = FALSE]
  BY DEF Evict, Forget
<1> QED BY <1>1, <1>2, EvictConsistent

\* Remove forgets an evictable frame and nothing else.
LEMMA RemovedLemma ==
  ASSUME NEW r \in Replacers, Consistent(r), NEW f \in Frames,
         r.access_count[f] # 0, r.is_evictable[f]
  PROVE  /\ Remove(r, f) \in Replacers
         /\ Consistent(Remove(r, f))
         /\ Remove(r, f).access_count = [r.access_count EXCEPT ![f] = 0]
         /\ Remove(r, f).is_evictable = [r.is_evictable EXCEPT ![f] = FALSE]
<1>1. ~ RemoveThrows(r, f)
  BY DEF RemoveThrows
<1>2. /\ Remove(r, f).access_count = [r.access_count EXCEPT ![f] = 0]
      /\ Remove(r, f).is_evictable = [r.is_evictable EXCEPT ![f] = FALSE]
  BY DEF Remove, Forget
<1> QED BY <1>1, <1>2, RemoveConsistent

-----------------------------------------------------------------------------
(* The free list. *)

\* Taking the head of a list without repetitions takes that element away.
LEMMA TailLemma ==
  ASSUME NEW S, NEW list \in Seq(S), NoRepeats(list), list # << >>
  PROVE  /\ Head(list) \in Elements(list)
         /\ Tail(list) \in Seq(S)
         /\ NoRepeats(Tail(list))
         /\ Elements(Tail(list)) = Elements(list) \ {Head(list)}
<1>1. /\ Len(list) \in Nat /\ Len(list) >= 1 /\ DOMAIN list = 1 .. Len(list)
      /\ Head(list) = list[1]
  OBVIOUS
<1>2. /\ Tail(list) \in Seq(S)
      /\ DOMAIN Tail(list) = 1 .. Len(list) - 1
      /\ \A i \in 1 .. Len(list) - 1 : Tail(list)[i] = list[i + 1]
  OBVIOUS
<1>3. Head(list) \in Elements(list)
  BY <1>1 DEF Elements
<1>4. NoRepeats(Tail(list))
  <2>1. SUFFICES ASSUME NEW i \in 1 .. Len(list) - 1, NEW j \in 1 .. Len(list) - 1,
                        list[i + 1] = list[j + 1]
                 PROVE  i = j
    BY <1>2 DEF NoRepeats
  <2>2. i + 1 \in DOMAIN list /\ j + 1 \in DOMAIN list
    BY <1>1
  <2>3. i + 1 = j + 1
    BY <2>1, <2>2 DEF NoRepeats
  <2> QED BY <2>3
<1>5. Elements(Tail(list)) = Elements(list) \ {Head(list)}
  <2>1. ASSUME NEW x \in Elements(Tail(list)) PROVE x \in Elements(list) \ {Head(list)}
    <3>1. PICK i \in 1 .. Len(list) - 1 : x = list[i + 1]
      BY <1>2 DEF Elements
    <3>2. i + 1 \in DOMAIN list /\ 1 \in DOMAIN list /\ i + 1 # 1
      BY <1>1
    <3> QED BY <1>1, <3>1, <3>2 DEF Elements, NoRepeats
  <2>2. ASSUME NEW x \in Elements(list), x # Head(list) PROVE x \in Elements(Tail(list))
    <3>1. PICK i \in DOMAIN list : x = list[i]
      BY DEF Elements
    <3>2. i # 1 /\ i - 1 \in 1 .. Len(list) - 1 /\ (i - 1) + 1 = i
      BY <1>1, <2>2, <3>1
    <3> QED BY <1>2, <3>1, <3>2 DEF Elements
  <2> QED BY <2>1, <2>2
<1> QED BY <1>2, <1>3, <1>4, <1>5

\* Appending an element that is not in the list.
LEMMA AppendLemma ==
  ASSUME NEW S, NEW list \in Seq(S), NoRepeats(list), NEW f \in S, f \notin Elements(list)
  PROVE  /\ Append(list, f) \in Seq(S)
         /\ NoRepeats(Append(list, f))
         /\ Elements(Append(list, f)) = Elements(list) \union {f}
<1> DEFINE e == Append(list, f)
<1>1. /\ Len(list) \in Nat /\ DOMAIN list = 1 .. Len(list)
      /\ e \in Seq(S) /\ DOMAIN e = 1 .. Len(list) + 1
      /\ \A i \in 1 .. Len(list) : e[i] = list[i]
      /\ e[Len(list) + 1] = f
  OBVIOUS
<1> HIDE DEF e
<1>2. \A i \in DOMAIN e : (i \in DOMAIN list /\ e[i] = list[i]) \/ (i = Len(list) + 1 /\ e[i] = f)
  BY <1>1
<1>3. NoRepeats(e)
  BY <1>2 DEF NoRepeats, Elements
<1>4. Elements(e) = Elements(list) \union {f}
  <2>1. Elements(e) \subseteq Elements(list) \union {f}
    BY <1>2 DEF Elements
  <2>2. ASSUME NEW x \in Elements(list) PROVE x \in Elements(e)
    BY <1>1 DEF Elements
  <2>3. f \in Elements(e)
    <3>1. Len(list) + 1 \in DOMAIN e
      BY <1>1
    <3> QED BY <1>1, <3>1 DEF Elements
  <2> QED BY <2>1, <2>2, <2>3
<1> QED BY <1>1, <1>3, <1>4 DEF e

-----------------------------------------------------------------------------
(* A frame to give away. *)

\* The two assertions at the calls of Evict hold.
LEMMA PoolInvEvict ==
  ASSUME PoolInv
  PROVE  EvictNeverFails
<1>1. SUFFICES ASSUME SomeUnpinned, ~ FromFreeList
               PROVE  /\ EvictSucceeds(replacer)
                      /\ Victim(replacer) \in PoolFrames
                      /\ pages[Victim(replacer)].pin_count = 0
  BY DEF EvictNeverFails
<1>2. PICK f \in PoolFrames : pages[f].pin_count = 0
  BY <1>1 DEF SomeUnpinned
<1>3. f \notin Elements(free_list)
  BY <1>1 DEF FromFreeList, Elements
<1>4. pages[f].page_id # INVALID_PAGE_ID
  BY <1>3, Numbers DEF PoolInv, FrameInv
<1>5. f \in EvictableFrames(replacer)
  BY <1>2, <1>4, Numbers DEF PoolInv, FrameInv, EvictableFrames
<1>6. EvictSucceeds(replacer) /\ Victim(replacer) \in EvictableFrames(replacer)
  BY <1>5, EvictLemma DEF PoolInv, TypeInv, FrameInv
<1>7. Victim(replacer) \in Frames /\ replacer.is_evictable[Victim(replacer)]
  BY <1>6 DEF EvictableFrames
<1> QED BY <1>6, <1>7 DEF PoolInv, FrameInv

\* What NewPage and FetchPage have in hand once a frame is picked: an
\* unpinned frame that no page is mapped to any more and that neither the free
\* list nor the replacer holds, with zeroed memory.
LEMMA PickedFrame ==
  ASSUME PoolInv, SomeUnpinned, NEW f \in PickedFrames
  PROVE  /\ f \in PoolFrames
         /\ pages[f].pin_count = 0
         /\ Unmapped(f) \in [PageIds -> PoolFrames \union {NoFrame}]
         /\ \A q \in PageIds :
              Unmapped(f)[q] = IF page_table[q] = f THEN NoFrame ELSE page_table[q]
         /\ EvictedReplacer \in Replacers
         /\ Consistent(EvictedReplacer)
         /\ EvictedReplacer.access_count = [replacer.access_count EXCEPT ![f] = 0]
         /\ EvictedReplacer.is_evictable = [replacer.is_evictable EXCEPT ![f] = FALSE]
         /\ Buffer(f) = Zeroed
         /\ FromFreeList =>
              /\ ~ pages[f].is_dirty
              /\ f \in Elements(free_list)
              /\ Tail(free_list) \in Seq(PoolFrames)
              /\ NoRepeats(Tail(free_list))
              /\ Elements(Tail(free_list)) = Elements(free_list) \ {f}
         /\ ~ FromFreeList =>
              /\ f \notin Elements(free_list)
              /\ pages[f].page_id \in PageIds
              /\ page_table[pages[f].page_id] = f
<1> USE Numbers
<1>0. /\ replacer \in Replacers /\ Consistent(replacer)
      /\ replacer.access_count \in [Frames -> Nat]
      /\ replacer.is_evictable \in [Frames -> BOOLEAN]
      /\ page_table \in [PageIds -> PoolFrames \union {NoFrame}]
      /\ pages \in [PoolFrames -> Pages]
  BY DEF PoolInv, TypeInv, FrameInv, Replacers
<1>1. CASE FromFreeList
  <2>1. f = Head(free_list) /\ free_list # << >>
    BY <1>1 DEF PickedFrames, FromFreeList
  <2>2. /\ free_list \in Seq(PoolFrames) /\ NoRepeats(free_list)
    BY DEF PoolInv, TypeInv, FrameInv
  <2>3. /\ f \in Elements(free_list)
        /\ Tail(free_list) \in Seq(PoolFrames)
        /\ NoRepeats(Tail(free_list))
        /\ Elements(Tail(free_list)) = Elements(free_list) \ {f}
    BY <2>1, <2>2, TailLemma
  <2>4. f \in PoolFrames
    BY <2>1, <2>2
  <2>5. pages[f] = FreePage /\ replacer.access_count[f] = 0
    BY <2>3, <2>4, Zenon DEF PoolInv, FrameInv
  <2>6. pages[f].pin_count = 0 /\ ~ pages[f].is_dirty /\ pages[f].data = Zeroed
        /\ pages[f].page_id = INVALID_PAGE_ID
    BY <2>5 DEF FreePage
  <2>7. replacer.is_evictable[f] = FALSE
    <3>1. f \in Frames
      BY <2>4
    <3>2. replacer.is_evictable[f] => pages[f].page_id # INVALID_PAGE_ID
      BY <3>1, Zenon DEF PoolInv, FrameInv
    <3>3. replacer.is_evictable[f] \in BOOLEAN
      BY <1>0, <3>1, Zenon
    <3> QED BY <2>6, <3>2, <3>3, Zenon
  <2>8. \A q \in PageIds : page_table[q] # f
    <3>1. SUFFICES ASSUME NEW q \in PageIds, page_table[q] = f PROVE FALSE
      OBVIOUS
    <3>2. pages[f].page_id = q
      BY <2>4, <3>1 DEF PoolInv, FrameInv, Find
    <3> QED BY <2>6, <3>2
  <2>9. EvictedReplacer = replacer /\ Unmapped(f) = page_table /\ Buffer(f) = pages[f].data
    BY <1>1 DEF EvictedReplacer, Unmapped, Buffer
  <2>10. /\ [replacer.access_count EXCEPT ![f] = 0] = replacer.access_count
         /\ [replacer.is_evictable EXCEPT ![f] = FALSE] = replacer.is_evictable
    BY <1>0, <2>4, <2>5, <2>7, Zenon
  <2> QED BY <1>0, <1>1, <2>3, <2>4, <2>6, <2>8, <2>9, <2>10
<1>2. CASE ~ FromFreeList
  <2>1. EvictSucceeds(replacer) /\ Victim(replacer) \in PoolFrames
        /\ pages[Victim(replacer)].pin_count = 0
    BY <1>2, PoolInvEvict DEF EvictNeverFails
  <2>2. f = Victim(replacer)
    BY <1>2, <2>1 DEF PickedFrames
  <2>3. f \notin Elements(free_list)
    BY <1>2 DEF FromFreeList, Elements
  <2>4. pages[f].page_id \in PageIds /\ page_table[pages[f].page_id] = f
    BY <2>1, <2>2, <2>3, Zenon DEF PoolInv, FrameInv
  <2>5. \A q \in PageIds : page_table[q] = f => q = pages[f].page_id
    <3>1. SUFFICES ASSUME NEW q \in PageIds, page_table[q] = f PROVE q = pages[f].page_id
      OBVIOUS
    <3>2. Find(q)
      BY <2>1, <2>2, <3>1 DEF Find
    <3> QED BY <3>1, <3>2, Zenon DEF PoolInv, FrameInv
  <2>6. EvictedReplacer = Evict(replacer) /\ Buffer(f) = Zeroed
        /\ Unmapped(f) = [page_table EXCEPT ![pages[f].page_id] = NoFrame]
    BY <1>2, <2>1 DEF EvictedReplacer, Buffer, Unmapped
  <2>7. /\ Evict(replacer) \in Replacers
        /\ Consistent(Evict(replacer))
        /\ Evict(replacer).access_count = [replacer.access_count EXCEPT ![f] = 0]
        /\ Evict(replacer).is_evictable = [replacer.is_evictable EXCEPT ![f] = FALSE]
    BY <1>0, <2>1, <2>2, EvictedLemma
  <2> QED BY <1>0, <1>2, <2>1, <2>2, <2>3, <2>4, <2>5, <2>6, <2>7
<1> QED BY <1>1, <1>2

-----------------------------------------------------------------------------
(* Pins and disk. *)

\* A pin is a thread and a page.
LEMMA PinIsPair ==
  ASSUME NEW S \in SUBSET (Threads \X PageIds), NEW pin \in S
  PROVE  \E t \in Threads, p \in PageIds : pin = <<t, p>>
OBVIOUS

\* Allocating page ids takes no page away.
LEMMA LiveGrows ==
  ASSUME next_page_id \in 0 .. MaxPages, next_page_id' \in 0 .. MaxPages,
         next_page_id <= next_page_id', deleted' = deleted
  PROVE  /\ Live \subseteq Live'
         /\ \A p \in PageIds : p < next_page_id' /\ p \notin deleted => p \in Live'
<1>1. MaxPages \in Nat
  BY BoundsAssumption
<1>2. Live = (0 .. next_page_id - 1) \ deleted /\ Live' = (0 .. next_page_id' - 1) \ deleted
  BY DEF Live
<1>3. ASSUME NEW a \in 0 .. MaxPages, NEW b \in 0 .. MaxPages, a <= b
      PROVE  0 .. a - 1 \subseteq 0 .. b - 1
  BY <1>1, <1>3
<1>4. ASSUME NEW b \in 0 .. MaxPages, NEW p \in PageIds, p < b
      PROVE  p \in 0 .. b - 1
  BY <1>1, <1>4 DEF PageIds
<1> QED BY <1>2, <1>3, <1>4

\* The threads that pin page p.
Holders(p) == {t \in Threads : <<t, p>> \in pins}

\* A page that somebody holds is mapped to a frame with a positive pin count.
LEMMA HeldPage ==
  ASSUME PoolInv, NEW t \in Threads, NEW p \in PageIds, <<t, p>> \in pins
  PROVE  /\ Find(p) /\ p \in Live
         /\ page_table[p] \in PoolFrames
         /\ pages[page_table[p]].page_id = p
         /\ pages[page_table[p]].pin_count > 0
<1>1. Find(p) /\ p \in Live
  BY DEF PoolInv, PinInv
<1>2. page_table[p] \in PoolFrames /\ pages[page_table[p]].page_id = p
  BY <1>1, Numbers DEF PoolInv, TypeInv, FrameInv, Find
<1>3. pages[page_table[p]].pin_count = Cardinality(Holders(p))
  BY <1>1 DEF PoolInv, PinInv, Holders
<1>4. IsFiniteSet(Holders(p)) /\ t \in Holders(p)
  BY ThreadsAssumption, FS_Subset, Zenon DEF Holders
<1>5. Cardinality(Holders(p)) \in Nat /\ Cardinality(Holders(p)) # 0
  BY <1>4, FS_CardinalityType, FS_EmptySet
<1> QED BY <1>1, <1>2, <1>3, <1>5

\* A page without a frame, or whose frame has pin count 0, is held by nobody.
LEMMA UnheldPage ==
  ASSUME PoolInv, NEW p \in PageIds, Find(p) => pages[page_table[p]].pin_count = 0
  PROVE  \A t \in Threads : <<t, p>> \notin pins
BY HeldPage

\* WritePage and ReadPage respect types.
LEMMA DiskTypes ==
  ASSUME NEW d \in Disks, NEW p \in PageIds, NEW data \in Contents
  PROVE  WritePage(d, p, data) \in Disks /\ ReadPage(d, p, data) \in Contents
BY BoundsAssumption DEF Disks, WritePage, ReadPage, PageIds

\* Writing back the page of a picked frame.
LEMMA WrittenBackType ==
  ASSUME PoolInv, SomeUnpinned, NEW f \in PickedFrames
  PROVE  WrittenBack(f) \in Disks
<1>1. disk \in Disks /\ pages \in [PoolFrames -> Pages]
  BY DEF PoolInv, TypeInv
<1>2. f \in PoolFrames /\ (~ FromFreeList => pages[f].page_id \in PageIds)
  BY PickedFrame, Zenon
<1>3. pages[f].data \in Contents
  BY <1>1, <1>2 DEF Pages
<1> QED BY <1>1, <1>2, <1>3, DiskTypes DEF WrittenBack

-----------------------------------------------------------------------------
(* NewPage and FetchPage give a picked frame to a page without one. *)

\* Giving a picked frame to a page that has none, pinned once by one thread, keeps
\* the invariant.
LEMMA OccupyKeeps ==
  ASSUME PoolInv, SomeUnpinned, NEW f \in PickedFrames,
         NEW t \in Threads, NEW p \in PageIds, ~ Find(p), NEW data \in Contents,
         Occupy(f, p, data),
         next_page_id' \in 0 .. MaxPages, next_page_id <= next_page_id',
         p < next_page_id', p \notin deleted,
         pins' = pins \union {<<t, p>>},
         UNCHANGED <<wrote, deleted, flushing>>
  PROVE  PoolInv'
<1> USE Numbers
<1> DEFINE e == EvictedReplacer
           u == Unmapped(f)
<1>1. /\ f \in PoolFrames
      /\ pages[f].pin_count = 0
      /\ u \in [PageIds -> PoolFrames \union {NoFrame}]
      /\ \A q \in PageIds : u[q] = IF page_table[q] = f THEN NoFrame ELSE page_table[q]
      /\ e \in Replacers
      /\ Consistent(e)
      /\ e.access_count = [replacer.access_count EXCEPT ![f] = 0]
      /\ e.is_evictable = [replacer.is_evictable EXCEPT ![f] = FALSE]
  BY PickedFrame, Zenon
<1>2. /\ pages \in [PoolFrames -> Pages]
      /\ page_table \in [PageIds -> PoolFrames \union {NoFrame}]
      /\ replacer.access_count \in [Frames -> Nat]
      /\ replacer.is_evictable \in [Frames -> BOOLEAN]
  BY DEF PoolInv, TypeInv, Replacers
<1>3. /\ free_list' \in Seq(PoolFrames)
      /\ NoRepeats(free_list')
      /\ Elements(free_list') = Elements(free_list) \ {f}
  <2>1. CASE FromFreeList
    BY <2>1, PickedFrame, Zenon DEF Occupy
  <2>2. CASE ~ FromFreeList
    <3>1. f \notin Elements(free_list) /\ free_list' = free_list
      BY <2>2, PickedFrame, Zenon DEF Occupy
    <3> QED BY <3>1 DEF PoolInv, TypeInv, FrameInv
  <2> QED BY <2>1, <2>2
<1>4. /\ pages' = [pages EXCEPT ![f] = [page_id |-> p, pin_count |-> 1,
                                        is_dirty |-> FALSE, data |-> data]]
      /\ page_table' = [u EXCEPT ![p] = f]
      /\ replacer' = Accessed(e, f)
      /\ disk' = WrittenBack(f)
  <2>1. (FromFreeList /\ pages[f].is_dirty) = FALSE
    BY PickedFrame, Zenon
  <2> QED BY <2>1, Zenon DEF Occupy
<1> HIDE DEF e, u
<1>5. /\ replacer' \in Replacers
      /\ Consistent(replacer')
      /\ replacer'.access_count = [replacer.access_count EXCEPT ![f] = 1]
      /\ replacer'.is_evictable = [replacer.is_evictable EXCEPT ![f] = FALSE]
  <2>1. /\ replacer' \in Replacers
        /\ Consistent(replacer')
        /\ replacer'.access_count = [e.access_count EXCEPT ![f] = e.access_count[f] + 1]
        /\ replacer'.is_evictable = [e.is_evictable EXCEPT ![f] = FALSE]
    BY <1>1, <1>4, AccessedLemma, Zenon, ZenonT(30)
  <2> QED BY <1>1, <1>2, <2>1
<1>6. pages' \in [PoolFrames -> Pages]
  <2>1. [page_id |-> p, pin_count |-> 1, is_dirty |-> FALSE, data |-> data] \in Pages
    BY DEF Pages
  <2> QED BY <1>2, <1>4, <2>1, Zenon
<1>7. /\ page_table' \in [PageIds -> PoolFrames \union {NoFrame}]
      /\ page_table'[p] = f
      /\ \A q \in PageIds \ {p} :
           page_table'[q] = IF page_table[q] = f THEN NoFrame ELSE page_table[q]
  BY <1>1, <1>4
<1>8. /\ pages'[f].page_id = p /\ pages'[f].pin_count = 1
      /\ \A g \in PoolFrames \ {f} : pages'[g] = pages[g]
  BY <1>1, <1>2, <1>4
<1>9. TypeInv'
  <2>1. disk' \in Disks
    BY <1>4, WrittenBackType
  <2>2. pins' \in SUBSET (Threads \X PageIds)
    BY DEF PoolInv, TypeInv
  <2>3. deleted' \in SUBSET PageIds /\ \A q \in deleted' : q < next_page_id'
    <3>1. /\ deleted' = deleted /\ deleted \in SUBSET PageIds
          /\ \A q \in deleted : q < next_page_id
          /\ next_page_id \in 0 .. MaxPages
      BY DEF PoolInv, TypeInv
    <3>2. ASSUME NEW q \in deleted PROVE q < next_page_id'
      <4>1. q \in Nat /\ q < next_page_id
        BY <3>1, <3>2
      <4> QED BY <3>1, <4>1
    <3> QED BY <3>1, <3>2
  <2> QED BY <1>3, <1>5, <1>6, <1>7, <2>1, <2>2, <2>3 DEF PoolInv, TypeInv
<1>10. p \in Live' /\ Live \subseteq Live'
  <2>1. next_page_id \in 0 .. MaxPages
    BY DEF PoolInv, TypeInv
  <2> QED BY <2>1, LiveGrows
<1>11. FrameInv'
  <2>1. ASSUME NEW g \in PoolFrames
        PROVE  \/ /\ g \in Elements(free_list')
                  /\ pages'[g] = FreePage
                  /\ replacer'.access_count[g] = 0
               \/ /\ g \notin Elements(free_list')
                  /\ pages'[g].page_id \in PageIds
                  /\ page_table'[pages'[g].page_id] = g
                  /\ replacer'.access_count[g] > 0
    <3>1. CASE g = f
      BY <1>1, <1>2, <1>3, <1>5, <1>7, <1>8, <3>1
    <3>2. CASE g # f
      <4>1. /\ pages'[g] = pages[g]
            /\ g \in Elements(free_list') <=> g \in Elements(free_list)
            /\ replacer'.access_count[g] = replacer.access_count[g]
        BY <1>2, <1>3, <1>5, <1>8, <3>2
      <4>2. CASE g \in Elements(free_list)
        BY <4>1, <4>2 DEF PoolInv, FrameInv
      <4>3. CASE g \notin Elements(free_list)
        <5>1. /\ pages[g].page_id \in PageIds
              /\ page_table[pages[g].page_id] = g
              /\ replacer.access_count[g] > 0
          BY <4>3 DEF PoolInv, FrameInv
        <5>2. pages[g].page_id # p
          BY <5>1 DEF Find
        <5>3. page_table'[pages[g].page_id] = g
          BY <1>7, <3>2, <5>1, <5>2, Zenon, ZenonT(30)
        <5> QED BY <4>1, <4>3, <5>1, <5>3
      <4> QED BY <4>2, <4>3
    <3> QED BY <3>1, <3>2
  <2>2. ASSUME NEW q \in PageIds, page_table'[q] # NoFrame
        PROVE  q \in Live' /\ pages'[page_table'[q]].page_id = q
    <3>1. CASE q = p
      BY <1>7, <1>8, <1>10, <3>1
    <3>2. CASE q # p
      <4>1. page_table'[q] = page_table[q] /\ page_table[q] # f /\ page_table[q] \in PoolFrames
        BY <1>2, <1>7, <2>2, <3>2
      <4>2. q \in Live /\ pages[page_table[q]].page_id = q
        BY <2>2, <4>1 DEF PoolInv, FrameInv, Find
      <4> QED BY <1>8, <1>10, <4>1, <4>2, Zenon, ZenonT(30)
    <3> QED BY <3>1, <3>2
  <2>3. ASSUME NEW g \in Frames
        PROVE  replacer'.is_evictable[g] <=> /\ g \in PoolFrames
                                             /\ pages'[g].page_id # INVALID_PAGE_ID
                                             /\ pages'[g].pin_count = 0
    <3>1. CASE g = f
      BY <1>1, <1>2, <1>5, <1>8, <3>1
    <3>2. CASE g # f
      <4>1. replacer'.is_evictable[g] = replacer.is_evictable[g]
        BY <1>2, <1>5, <3>2
      <4> QED BY <1>8, <3>2, <4>1, Zenon, ZenonT(30) DEF PoolInv, FrameInv
    <3> QED BY <3>1, <3>2
  <2>4. replacer'.access_count[pool_size] = 0
    BY <1>1, <1>2, <1>5 DEF PoolInv, FrameInv
  <2> QED BY <1>3, <1>5, <1>6, <2>1, <2>2, <2>3, <2>4 DEF FrameInv, Find
<1>12. PinInv'
  <2>1. ASSUME NEW pin \in pins' PROVE pin[2] \in Live' /\ Find(pin[2])'
    <3>1. CASE pin = <<t, p>>
      BY <1>1, <1>7, <1>10, <3>1 DEF Find
    <3>2. CASE pin \in pins
      <4>0. pins \in SUBSET (Threads \X PageIds)
        BY DEF PoolInv, TypeInv
      <4>1. PICK s \in Threads, q \in PageIds : pin = <<s, q>>
        BY <3>2, <4>0, PinIsPair
      <4>2. /\ Find(q) /\ q \in Live /\ page_table[q] \in PoolFrames
            /\ pages[page_table[q]].pin_count > 0
        BY <3>2, <4>1, HeldPage, Zenon
      <4>3. page_table[q] # f /\ q # p
        BY <1>1, <4>2
      <4>4. page_table'[q] = page_table[q]
        BY <1>7, <4>3
      <4> QED BY <1>10, <4>1, <4>2, <4>4 DEF Find
    <3> QED BY <3>1, <3>2
  <2>2. ASSUME NEW q \in PageIds, page_table'[q] # NoFrame
        PROVE  pages'[page_table'[q]].pin_count = Cardinality(Holders(q)')
    <3>1. CASE q = p
      <4>1. Holders(p)' = {t}
        BY UnheldPage DEF Holders
      <4> QED BY <1>7, <1>8, <3>1, <4>1, FS_Singleton, Zenon, ZenonT(30)
    <3>2. CASE q # p
      <4>1. page_table'[q] = page_table[q] /\ page_table[q] # f /\ page_table[q] \in PoolFrames
        BY <1>2, <1>7, <2>2, <3>2
      <4>2. Holders(q)' = Holders(q)
        BY <3>2 DEF Holders
      <4>3. pages[page_table[q]].pin_count = Cardinality(Holders(q))
        BY <2>2, <4>1 DEF PoolInv, PinInv, Find, Holders
      <4> QED BY <1>8, <4>1, <4>2, <4>3, Zenon, ZenonT(30)
    <3> QED BY <3>1, <3>2
  <2> QED BY <2>1, <2>2 DEF PinInv, Find, Holders
<1> QED BY <1>9, <1>11, <1>12 DEF PoolInv

-----------------------------------------------------------------------------
(* FetchPage of a resident page, UnpinPage and the callers' writes change   *)
(* the pin count, the flags and the data of one mapped frame.               *)

\* Changing the pin count, the dirty flag and the data of the frame of one page
\* keeps the invariant when the pin count follows the pins of that page.
LEMMA RepinKeeps ==
  ASSUME PoolInv, NEW p \in PageIds, Find(p), NEW page \in Pages, page.page_id = p,
         pages' = [pages EXCEPT ![page_table[p]] = page],
         replacer' \in Replacers, Consistent(replacer'),
         \A g \in Frames \ {page_table[p]} :
           /\ replacer'.access_count[g] = replacer.access_count[g]
           /\ replacer'.is_evictable[g] = replacer.is_evictable[g],
         replacer'.access_count[page_table[p]] > 0,
         replacer'.is_evictable[page_table[p]] <=> page.pin_count = 0,
         pins' \in SUBSET (Threads \X PageIds),
         \A s \in Threads, q \in PageIds \ {p} : <<s, q>> \in pins' <=> <<s, q>> \in pins,
         page.pin_count = Cardinality(Holders(p)'),
         wrote' \in SUBSET (Threads \X PageIds),
         UNCHANGED <<page_table, free_list, next_page_id, disk, deleted, flushing>>
  PROVE  PoolInv'
<1> USE Numbers
<1> DEFINE f == page_table[p]
<1>1. /\ pages \in [PoolFrames -> Pages]
      /\ f \in PoolFrames
      /\ p \in Live /\ pages[f].page_id = p
      /\ f \notin Elements(free_list)
  <2>1. /\ pages \in [PoolFrames -> Pages] /\ f \in PoolFrames
        /\ p \in Live /\ pages[f].page_id = p
    BY DEF PoolInv, TypeInv, FrameInv, Find
  <2>2. pages[f] # FreePage
    BY <2>1 DEF FreePage
  <2> QED BY <2>1, <2>2, Zenon, ZenonT(30) DEF PoolInv, FrameInv
<1>2. /\ pages' \in [PoolFrames -> Pages]
      /\ pages'[f] = page
      /\ \A g \in PoolFrames \ {f} : pages'[g] = pages[g]
  BY <1>1
<1>3. \A g \in PoolFrames : pages'[g].page_id = pages[g].page_id
  BY <1>1, <1>2
<1>4. TypeInv'
  BY <1>2 DEF PoolInv, TypeInv
<1>5. Live' = Live
  BY DEF Live
<1>6. FrameInv'
  <2>1. ASSUME NEW g \in PoolFrames
        PROVE  \/ /\ g \in Elements(free_list')
                  /\ pages'[g] = FreePage
                  /\ replacer'.access_count[g] = 0
               \/ /\ g \notin Elements(free_list')
                  /\ pages'[g].page_id \in PageIds
                  /\ page_table'[pages'[g].page_id] = g
                  /\ replacer'.access_count[g] > 0
    <3>1. CASE g = f
      BY <1>1, <1>2, <3>1
    <3>2. CASE g # f
      <4>1. replacer'.access_count[g] = replacer.access_count[g] /\ pages'[g] = pages[g]
        BY <1>2, <3>2, Zenon
      <4> QED BY <4>1 DEF PoolInv, FrameInv
    <3> QED BY <3>1, <3>2
  <2>2. ASSUME NEW q \in PageIds, page_table'[q] # NoFrame
        PROVE  q \in Live' /\ pages'[page_table'[q]].page_id = q
    <3>1. page_table[q] \in PoolFrames /\ q \in Live /\ pages[page_table[q]].page_id = q
      BY <2>2 DEF PoolInv, TypeInv, FrameInv, Find
    <3> QED BY <1>3, <1>5, <3>1, Zenon, ZenonT(30)
  <2>3. ASSUME NEW g \in Frames
        PROVE  replacer'.is_evictable[g] <=> /\ g \in PoolFrames
                                             /\ pages'[g].page_id # INVALID_PAGE_ID
                                             /\ pages'[g].pin_count = 0
    <3>1. CASE g = f
      BY <1>1, <1>2, <3>1
    <3>2. CASE g # f
      <4>1. replacer'.is_evictable[g] = replacer.is_evictable[g]
        BY <3>2, Zenon, ZenonT(30)
      <4> QED BY <1>2, <3>2, <4>1, ZenonT(30) DEF PoolInv, FrameInv
    <3> QED BY <3>1, <3>2, Zenon, ZenonT(30)
  <2>4. replacer'.access_count[pool_size] = 0
    <3>1. pool_size \in Frames \ {f}
      BY <1>1
    <3> QED BY <3>1 DEF PoolInv, FrameInv
  <2>5. NoRepeats(free_list')
    BY DEF PoolInv, FrameInv
  <2> QED BY <1>2, <2>1, <2>2, <2>3, <2>4, <2>5 DEF FrameInv, Find
<1>7. PinInv'
  <2>1. ASSUME NEW pin \in pins' PROVE pin[2] \in Live' /\ Find(pin[2])'
    <3>1. PICK s \in Threads, q \in PageIds : pin = <<s, q>>
      BY <2>1, PinIsPair
    <3>2. CASE q = p
      BY <1>1, <1>5, <3>1, <3>2 DEF Find
    <3>3. CASE q # p
      <4>1. Find(q) /\ q \in Live
        BY <2>1, <3>1, <3>3, HeldPage
      <4> QED BY <1>5, <3>1, <4>1 DEF Find
    <3> QED BY <3>2, <3>3
  <2>2. ASSUME NEW q \in PageIds, page_table'[q] # NoFrame
        PROVE  pages'[page_table'[q]].pin_count = Cardinality(Holders(q)')
    <3>1. CASE q = p
      BY <1>2, <3>1
    <3>2. CASE q # p
      <4>1. page_table[q] \in PoolFrames /\ page_table[q] # f
        BY <1>1, <2>2, <3>2 DEF PoolInv, TypeInv, FrameInv, Find
      <4>2. Holders(q)' = Holders(q)
        BY <3>2 DEF Holders
      <4>3. pages[page_table[q]].pin_count = Cardinality(Holders(q))
        BY <2>2 DEF PoolInv, PinInv, Find, Holders
      <4> QED BY <1>2, <4>1, <4>2, <4>3
    <3> QED BY <3>1, <3>2
  <2> QED BY <2>1, <2>2 DEF PinInv, Find, Holders
<1> QED BY <1>4, <1>6, <1>7 DEF PoolInv

\* What FrameInv says of the frame of a mapped page.
LEMMA MappedFrame ==
  ASSUME PoolInv, NEW p \in PageIds, Find(p)
  PROVE  /\ page_table[p] \in PoolFrames /\ page_table[p] \in Frames
         /\ pages[page_table[p]] \in Pages
         /\ pages[page_table[p]].page_id = p
         /\ page_table[p] \notin Elements(free_list)
         /\ replacer.access_count[page_table[p]] > 0
         /\ replacer.is_evictable[page_table[p]] <=> pages[page_table[p]].pin_count = 0
         /\ p \in Live
<1> USE Numbers
<1>1. /\ page_table[p] \in PoolFrames /\ page_table[p] \in Frames
      /\ pages[page_table[p]] \in Pages
      /\ pages[page_table[p]].page_id = p
      /\ p \in Live
  BY Zenon, ZenonT(30) DEF PoolInv, TypeInv, FrameInv, Find
<1>2. pages[page_table[p]] # FreePage
  BY <1>1 DEF FreePage
<1> QED BY <1>1, <1>2, Zenon, ZenonT(30) DEF PoolInv, FrameInv

-----------------------------------------------------------------------------
(* The actions that move pages. *)

\* Changing one field of a page.
LEMMA PageFields ==
  ASSUME NEW page \in Pages, NEW n, NEW c
  PROVE  /\ [page EXCEPT !.pin_count = n] =
              [page_id |-> page.page_id, pin_count |-> n, is_dirty |-> page.is_dirty, data |-> page.data]
         /\ [page EXCEPT !.data = c] =
              [page_id |-> page.page_id, pin_count |-> page.pin_count, is_dirty |-> page.is_dirty, data |-> c]
BY DEF Pages

\* NewPage keeps the invariant.
LEMMA NewPageKeeps ==
  ASSUME PoolInv, NEW t \in Threads, NewPage(t)
  PROVE  PoolInv' \/ UNCHANGED vars
<1>1. CASE UNCHANGED vars
  BY <1>1
<1>2. CASE SomeUnpinned /\ ~ UNCHANGED vars
  <2> DEFINE p == next_page_id
  <2>1. /\ p < MaxPages /\ next_page_id' = p + 1
        /\ \E f \in PickedFrames : Occupy(f, p, Buffer(f))
        /\ pins' = pins \union {<<t, p>>}
        /\ UNCHANGED <<wrote, deleted, flushing>>
    BY <1>2 DEF NewPage
  <2>2. p \in 0 .. MaxPages /\ MaxPages \in Nat
    BY BoundsAssumption DEF PoolInv, TypeInv
  <2>3. /\ p \in PageIds /\ next_page_id' \in 0 .. MaxPages
        /\ p <= next_page_id' /\ p < next_page_id' /\ p \notin Live
    BY <2>1, <2>2 DEF PageIds, Live
  <2>4. ~ Find(p)
    BY <2>3 DEF PoolInv, FrameInv
  <2>5. p \notin deleted
    BY <2>2 DEF PoolInv, TypeInv
  <2>6. PICK f \in PickedFrames : Occupy(f, p, Buffer(f))
    BY <2>1
  <2>7. Buffer(f) \in Contents
    BY <1>2, PickedFrame, ContentsAssumption, Zenon
  <2> HIDE DEF p
  <2> QED BY <1>2, <2>1, <2>3, <2>4, <2>5, <2>6, <2>7, OccupyKeeps DEF p
<1> QED BY <1>1, <1>2 DEF NewPage

\* FetchPage keeps the invariant, whether the page is resident or read in.
LEMMA FetchPageKeeps ==
  ASSUME PoolInv, NEW t \in Threads, NEW p \in PageIds, FetchPage(t, p)
  PROVE  PoolInv' \/ UNCHANGED vars
<1>0. p \in Live /\ <<t, p>> \notin pins
  BY DEF FetchPage
<1>1. CASE UNCHANGED vars
  BY <1>1
<1>2. CASE Find(p)
  <2> DEFINE f == page_table[p]
             page == [page_id |-> p, pin_count |-> pages[f].pin_count + 1,
                      is_dirty |-> pages[f].is_dirty, data |-> pages[f].data]
  <2>1. /\ pages' = [pages EXCEPT ![f].pin_count = @ + 1]
        /\ replacer' = Accessed(replacer, f)
        /\ pins' = pins \union {<<t, p>>}
        /\ UNCHANGED <<page_table, free_list, next_page_id, disk, wrote, deleted, flushing>>
    BY <1>2 DEF FetchPage
  <2>2. /\ f \in PoolFrames /\ f \in Frames /\ pages[f] \in Pages /\ pages[f].page_id = p
        /\ replacer.access_count[f] > 0
    BY <1>2, MappedFrame
  <2>3. /\ page \in Pages /\ page.page_id = p /\ page.pin_count = pages[f].pin_count + 1
        /\ ~ (page.pin_count = 0)
    BY <2>2 DEF Pages
  <2>4. pages' = [pages EXCEPT ![f] = page]
    <3>1. [pages[f] EXCEPT !.pin_count = pages[f].pin_count + 1] = page
      BY <2>2, PageFields, Zenon
    <3>2. pages' = [pages EXCEPT ![f] = [pages[f] EXCEPT !.pin_count = pages[f].pin_count + 1]]
      BY <2>1
    <3> QED BY <3>1, <3>2, Zenon
  <2>5. /\ replacer \in Replacers /\ Consistent(replacer)
        /\ replacer.access_count \in [Frames -> Nat]
        /\ replacer.is_evictable \in [Frames -> BOOLEAN]
    BY DEF PoolInv, TypeInv, FrameInv, Replacers
  <2>6. /\ replacer' \in Replacers /\ Consistent(replacer')
        /\ replacer'.access_count = [replacer.access_count EXCEPT ![f] = replacer.access_count[f] + 1]
        /\ replacer'.is_evictable = [replacer.is_evictable EXCEPT ![f] = FALSE]
    BY <2>1, <2>2, <2>5, AccessedLemma
  <2>7. /\ \A g \in Frames \ {f} : /\ replacer'.access_count[g] = replacer.access_count[g]
                                  /\ replacer'.is_evictable[g] = replacer.is_evictable[g]
        /\ replacer'.access_count[f] > 0
        /\ ~ replacer'.is_evictable[f]
    <3> HIDE DEF f, page
    <3> QED BY <2>2, <2>5, <2>6
  <2>8. /\ pins' \in SUBSET (Threads \X PageIds)
        /\ wrote' \in SUBSET (Threads \X PageIds)
        /\ \A s \in Threads, q \in PageIds \ {p} : <<s, q>> \in pins' <=> <<s, q>> \in pins
    BY <2>1 DEF PoolInv, TypeInv
  <2>9. page.pin_count = Cardinality(Holders(p)')
    <3>1. Holders(p)' = Holders(p) \union {t} /\ t \notin Holders(p)
      BY <1>0, <2>1 DEF Holders
    <3>2. IsFiniteSet(Holders(p))
      BY ThreadsAssumption, FS_Subset, Zenon DEF Holders
    <3>3. pages[f].pin_count = Cardinality(Holders(p))
      BY <1>2 DEF PoolInv, PinInv, Holders
    <3> QED BY <2>3, <3>1, <3>2, <3>3, FS_AddElement, Zenon, ZenonT(30)
  <2> HIDE DEF page
  <2> QED BY <1>2, <2>1, <2>3, <2>4, <2>6, <2>7, <2>8, <2>9, RepinKeeps, Zenon, ZenonT(30)
<1>3. CASE ~ Find(p) /\ SomeUnpinned /\ ~ UNCHANGED vars
  <2>1. /\ \E f \in PickedFrames : Occupy(f, p, ReadPage(WrittenBack(f), p, Buffer(f)))
        /\ pins' = pins \union {<<t, p>>}
        /\ UNCHANGED <<next_page_id, wrote, deleted, flushing>>
    BY <1>3 DEF FetchPage
  <2>2. PICK f \in PickedFrames : Occupy(f, p, ReadPage(WrittenBack(f), p, Buffer(f)))
    BY <2>1
  <2>3. ReadPage(WrittenBack(f), p, Buffer(f)) \in Contents
    <3>1. Buffer(f) \in Contents
      BY <1>3, PickedFrame, ContentsAssumption, Zenon
    <3>2. WrittenBack(f) \in Disks
      BY <1>3, WrittenBackType
    <3> QED BY <3>1, <3>2, DiskTypes
  <2>4. /\ next_page_id \in 0 .. MaxPages /\ next_page_id' = next_page_id
        /\ next_page_id <= next_page_id'
        /\ p < next_page_id /\ p \notin deleted
    <3>1. next_page_id \in 0 .. MaxPages /\ next_page_id' = next_page_id
      BY <2>1 DEF PoolInv, TypeInv
    <3>2. p < next_page_id /\ p \notin deleted
      BY <1>0, <3>1 DEF Live
    <3> QED BY <3>1, <3>2
  <2> HIDE DEF ReadPage
  <2> QED BY <1>3, <2>1, <2>2, <2>3, <2>4, OccupyKeeps
<1> QED BY <1>1, <1>2, <1>3 DEF FetchPage

\* A caller's write through a pinned page keeps the invariant.
LEMMA WriteDataKeeps ==
  ASSUME PoolInv, NEW t \in Threads, NEW p \in PageIds, NEW c \in Contents, WriteData(t, p, c)
  PROVE  PoolInv'
<1> DEFINE f == page_table[p]
           page == [page_id |-> p, pin_count |-> pages[f].pin_count,
                    is_dirty |-> pages[f].is_dirty, data |-> c]
<1>1. /\ <<t, p>> \in pins
      /\ pages' = [pages EXCEPT ![f].data = c]
      /\ wrote' = wrote \union {<<t, p>>}
      /\ UNCHANGED <<page_table, free_list, replacer, next_page_id, disk, pins, deleted, flushing>>
  BY DEF WriteData
<1>2. Find(p)
  BY <1>1, HeldPage
<1>3. /\ f \in PoolFrames /\ f \in Frames /\ pages[f] \in Pages /\ pages[f].page_id = p
      /\ replacer.access_count[f] > 0
      /\ replacer.is_evictable[f] <=> pages[f].pin_count = 0
  BY <1>2, MappedFrame
<1>4. page \in Pages /\ page.page_id = p /\ page.pin_count = pages[f].pin_count
  BY <1>3, Zenon DEF Pages
<1>5. pages' = [pages EXCEPT ![f] = page]
  <2>1. [pages[f] EXCEPT !.data = c] = page
    BY <1>3, PageFields, Zenon, ZenonT(30)
  <2>2. pages' = [pages EXCEPT ![f] = [pages[f] EXCEPT !.data = c]]
    BY <1>1
  <2> QED BY <2>1, <2>2, Zenon
<1>6. /\ replacer' \in Replacers /\ Consistent(replacer') /\ replacer' = replacer
      /\ pins' \in SUBSET (Threads \X PageIds) /\ pins' = pins
      /\ wrote' \in SUBSET (Threads \X PageIds)
  BY <1>1 DEF PoolInv, TypeInv, FrameInv
<1>7. page.pin_count = Cardinality(Holders(p)')
  <2>1. Holders(p)' = Holders(p)
    BY <1>6 DEF Holders
  <2> QED BY <1>2, <1>4, <2>1, Zenon DEF PoolInv, PinInv, Holders
<1> HIDE DEF page
<1> QED BY <1>1, <1>2, <1>3, <1>4, <1>5, <1>6, <1>7, RepinKeeps, Zenon, ZenonT(30)

\* UnpinPage keeps the invariant: the frame becomes evictable at the last unpin.
LEMMA UnpinPageKeeps ==
  ASSUME PoolInv, NEW t \in Threads, NEW p \in PageIds, NEW is_dirty \in BOOLEAN,
         UnpinPage(t, p, is_dirty)
  PROVE  PoolInv' \/ UNCHANGED vars
<1> DEFINE f == page_table[p]
           n == pages[f].pin_count
           page == [page_id |-> pages[f].page_id, pin_count |-> n - 1,
                    is_dirty |-> is_dirty \/ pages[f].is_dirty, data |-> pages[f].data]
<1>1. CASE UNCHANGED vars
  BY <1>1
<1>2. CASE ~ UNCHANGED vars
  <2>1. /\ Find(p)
        /\ <<t, p>> \in pins
        /\ n > 0
        /\ pages' = [pages EXCEPT ![f] = page]
        /\ replacer' = IF n = 1 THEN SetEvictable(replacer, f, TRUE) ELSE replacer
        /\ pins' = pins \ {<<t, p>>}
        /\ wrote' = wrote \ {<<t, p>>}
        /\ UNCHANGED <<page_table, free_list, next_page_id, disk, deleted, flushing>>
    BY <1>2, Zenon, ZenonT(30) DEF UnpinPage
  <2>2. /\ f \in PoolFrames /\ f \in Frames /\ pages[f] \in Pages /\ pages[f].page_id = p
        /\ replacer.access_count[f] > 0
        /\ replacer.is_evictable[f] <=> n = 0
    BY <2>1, MappedFrame
  <2>3. n \in Nat /\ n - 1 \in Nat
    BY <2>1, <2>2 DEF Pages
  <2>4. page \in Pages /\ page.page_id = p /\ page.pin_count = n - 1
    BY <2>2, <2>3 DEF Pages
  <2>5. /\ replacer \in Replacers /\ Consistent(replacer)
        /\ replacer.access_count \in [Frames -> Nat]
        /\ replacer.is_evictable \in [Frames -> BOOLEAN]
    BY ZenonT(30) DEF PoolInv, TypeInv, FrameInv, Replacers
  <2> HIDE DEF page, n, f
  <2>6. /\ replacer' \in Replacers /\ Consistent(replacer')
        /\ replacer'.access_count = replacer.access_count
        /\ replacer'.is_evictable = [replacer.is_evictable EXCEPT ![f] = (n = 1)]
    <3>1. CASE n = 1
      <4>1. replacer.access_count[f] # 0
        BY <2>2
      <4> QED BY <2>1, <2>2, <2>5, <3>1, <4>1, SetEvictableLemma, Zenon, ZenonT(30)
    <3>2. CASE n # 1
      <4>1. replacer.is_evictable[f] = FALSE /\ (n = 1) = FALSE
        BY <2>1, <2>2, <2>3, <2>5, <3>2
      <4>2. replacer.is_evictable = [replacer.is_evictable EXCEPT ![f] = FALSE]
        BY <2>2, <2>5, <4>1, Zenon, ZenonT(30)
      <4> QED BY <2>1, <2>5, <3>2, <4>1, <4>2
    <3> QED BY <3>1, <3>2, Zenon
  <2>7. /\ \A g \in Frames \ {f} : /\ replacer'.access_count[g] = replacer.access_count[g]
                                  /\ replacer'.is_evictable[g] = replacer.is_evictable[g]
        /\ replacer'.access_count[f] > 0
        /\ replacer'.is_evictable[f] <=> page.pin_count = 0
    <3>1. \A g \in Frames \ {f} : /\ replacer'.access_count[g] = replacer.access_count[g]
                               /\ replacer'.is_evictable[g] = replacer.is_evictable[g]
      BY <2>2, <2>5, <2>6
    <3>2. replacer'.is_evictable[f] <=> n = 1
      BY <2>2, <2>5, <2>6, Zenon
    <3>3. n = 1 <=> page.pin_count = 0
      BY <2>3, <2>4
    <3> QED BY <2>2, <2>6, <3>1, <3>2, <3>3
  <2>8. /\ pins' \in SUBSET (Threads \X PageIds)
        /\ wrote' \in SUBSET (Threads \X PageIds)
        /\ \A s \in Threads, q \in PageIds \ {p} : <<s, q>> \in pins' <=> <<s, q>> \in pins
    BY <2>1 DEF PoolInv, TypeInv
  <2>9. page.pin_count = Cardinality(Holders(p)')
    <3>1. Holders(p)' = Holders(p) \ {t} /\ t \in Holders(p)
      BY <2>1 DEF Holders
    <3>2. IsFiniteSet(Holders(p))
      BY ThreadsAssumption, FS_Subset, Zenon, ZenonT(30) DEF Holders
    <3>3. n = Cardinality(Holders(p))
      BY <2>1 DEF PoolInv, PinInv, Holders, n, f
    <3>4. Cardinality(Holders(p)') = Cardinality(Holders(p)) - 1
      BY <3>1, <3>2, FS_RemoveElement, Zenon
    <3> QED BY <2>4, <3>3, <3>4
  <2> QED BY <2>1, <2>4, <2>6, <2>7, <2>8, <2>9, RepinKeeps, Zenon, ZenonT(30) DEF f
<1> QED BY <1>1, <1>2

\* A deleted page's frame goes to the free list, unknown to the replacer.
LEMMA DeletePageKeeps ==
  ASSUME PoolInv, NEW p \in PageIds, DeletePage(p)
  PROVE  PoolInv' \/ UNCHANGED vars
<1> USE Numbers
<1>0. p \in Live
  BY DEF DeletePage
<1>1. deleted \in SUBSET PageIds /\ (\A q \in deleted : q < next_page_id) /\ p < next_page_id
  <2>1. next_page_id \in 0 .. MaxPages
    BY DEF PoolInv, TypeInv
  <2> QED BY <1>0, <2>1 DEF PoolInv, TypeInv, Live
<1>2. CASE UNCHANGED vars
  BY <1>2
<1>3. CASE ~ Find(p) /\ ~ UNCHANGED vars
  <2>1. deleted' = deleted \union {p} /\ UNCHANGED <<pool, disk, pins, wrote, flushing>>
    BY <1>3 DEF DeletePage
  <2>2. Live' = Live \ {p}
    BY <2>1 DEF Live, pool
  <2>3. TypeInv'
    BY <1>1, <2>1 DEF PoolInv, TypeInv, pool
  <2>4. FrameInv'
    BY <1>3, <2>1, <2>2 DEF PoolInv, FrameInv, Find, pool
  <2>5. PinInv'
    <3>1. ASSUME NEW pin \in pins' PROVE pin[2] \in Live' /\ Find(pin[2])'
      <4>1. pin[2] \in Live /\ Find(pin[2])
        BY <2>1, <3>1, Zenon, ZenonT(30) DEF PoolInv, PinInv
      <4> QED BY <1>3, <2>1, <2>2, <4>1 DEF Find, pool
    <3> QED BY <2>1, <3>1 DEF PoolInv, PinInv, Find, pool
  <2> QED BY <2>3, <2>4, <2>5 DEF PoolInv
<1>4. CASE Find(p) /\ ~ UNCHANGED vars
  <2> DEFINE f == page_table[p]
  <2>1. /\ pages[f].pin_count = 0
        /\ replacer' = Remove(replacer, f)
        /\ pages' = [pages EXCEPT ![f] = FreePage]
        /\ page_table' = [page_table EXCEPT ![p] = NoFrame]
        /\ free_list' = Append(free_list, f)
        /\ deleted' = deleted \union {p}
        /\ UNCHANGED <<next_page_id, disk, pins, wrote, flushing>>
    BY <1>4 DEF DeletePage
  <2>2. /\ f \in PoolFrames /\ f \in Frames /\ pages[f].page_id = p
        /\ f \notin Elements(free_list)
        /\ replacer.access_count[f] > 0
        /\ replacer.is_evictable[f]
    BY <1>4, <2>1, MappedFrame
  <2>3. /\ replacer \in Replacers /\ Consistent(replacer)
        /\ replacer.access_count \in [Frames -> Nat]
        /\ replacer.is_evictable \in [Frames -> BOOLEAN]
        /\ pages \in [PoolFrames -> Pages]
        /\ page_table \in [PageIds -> PoolFrames \union {NoFrame}]
        /\ free_list \in Seq(PoolFrames) /\ NoRepeats(free_list)
    BY DEF PoolInv, TypeInv, FrameInv, Replacers
  <2> HIDE DEF f
  <2>4. /\ replacer' \in Replacers /\ Consistent(replacer')
        /\ replacer'.access_count = [replacer.access_count EXCEPT ![f] = 0]
        /\ replacer'.is_evictable = [replacer.is_evictable EXCEPT ![f] = FALSE]
    <3>1. replacer.access_count[f] # 0
      BY <2>2
    <3>2. replacer' = Remove(replacer, f) /\ f \in Frames /\ replacer.is_evictable[f]
      BY <2>1, <2>2, Zenon
    <3>3. replacer \in Replacers /\ Consistent(replacer)
      BY <2>3, Zenon
    <3> QED BY <3>1, <3>2, <3>3, RemovedLemma, Zenon
  <2>5. /\ free_list' \in Seq(PoolFrames) /\ NoRepeats(free_list')
        /\ Elements(free_list') = Elements(free_list) \union {f}
    <3>1. /\ free_list' = Append(free_list, f) /\ f \in PoolFrames /\ f \notin Elements(free_list)
          /\ free_list \in Seq(PoolFrames) /\ NoRepeats(free_list)
      BY <2>1, <2>2, <2>3, Zenon, ZenonT(30)
    <3> QED BY <3>1, AppendLemma
  <2>6. /\ FreePage \in Pages /\ FreePage.page_id = INVALID_PAGE_ID
        /\ pages' \in [PoolFrames -> Pages]
        /\ pages'[f] = FreePage
        /\ \A g \in PoolFrames \ {f} : pages'[g] = pages[g]
    <3>1. FreePage \in Pages /\ FreePage.page_id = INVALID_PAGE_ID
      BY ContentsAssumption DEF FreePage, Pages
    <3> QED BY <2>1, <2>2, <2>3, <3>1
  <2>7. /\ page_table' \in [PageIds -> PoolFrames \union {NoFrame}]
        /\ page_table'[p] = NoFrame
        /\ \A q \in PageIds \ {p} : page_table'[q] = page_table[q]
    BY <2>1, <2>3
  <2>8. Live' = Live \ {p}
    BY <2>1 DEF Live
  <2>9. \A q \in PageIds \ {p} : page_table[q] # f
    BY <2>2 DEF PoolInv, FrameInv, Find
  <2>10. TypeInv'
    BY <1>1, <2>1, <2>4, <2>5, <2>6, <2>7 DEF PoolInv, TypeInv
  <2>11. FrameInv'
    <3>1. ASSUME NEW g \in PoolFrames
          PROVE  \/ /\ g \in Elements(free_list')
                    /\ pages'[g] = FreePage
                    /\ replacer'.access_count[g] = 0
                 \/ /\ g \notin Elements(free_list')
                    /\ pages'[g].page_id \in PageIds
                    /\ page_table'[pages'[g].page_id] = g
                    /\ replacer'.access_count[g] > 0
      <4>1. CASE g = f
        BY <2>2, <2>3, <2>4, <2>5, <2>6, <4>1
      <4>2. CASE g # f
        <5>1. /\ replacer'.access_count[g] = replacer.access_count[g]
              /\ pages'[g] = pages[g]
              /\ g \in Elements(free_list') <=> g \in Elements(free_list)
          BY <2>3, <2>4, <2>5, <2>6, <4>2
        <5>2. CASE g \in Elements(free_list)
          BY <5>1, <5>2 DEF PoolInv, FrameInv
        <5>3. CASE g \notin Elements(free_list)
          <6>1. /\ pages[g].page_id \in PageIds /\ page_table[pages[g].page_id] = g
                /\ replacer.access_count[g] > 0
            BY <5>3, Zenon DEF PoolInv, FrameInv
          <6>2. pages[g].page_id # p
            BY <4>2, <6>1 DEF f
          <6> QED BY <2>7, <5>1, <5>3, <6>1, <6>2, Zenon, ZenonT(30)
        <5> QED BY <5>2, <5>3
      <4> QED BY <4>1, <4>2
    <3>2. ASSUME NEW q \in PageIds, page_table'[q] # NoFrame
          PROVE  q \in Live' /\ pages'[page_table'[q]].page_id = q
      <4>1. q # p /\ page_table'[q] = page_table[q] /\ page_table[q] \in PoolFrames \ {f}
        BY <2>3, <2>7, <2>9, <3>2
      <4>2. q \in Live /\ pages[page_table[q]].page_id = q
        BY <3>2, <4>1, Zenon, ZenonT(30) DEF PoolInv, FrameInv, Find
      <4> QED BY <2>6, <2>8, <4>1, <4>2, Zenon, ZenonT(30)
    <3>3. ASSUME NEW g \in Frames
          PROVE  replacer'.is_evictable[g] <=> /\ g \in PoolFrames
                                               /\ pages'[g].page_id # INVALID_PAGE_ID
                                               /\ pages'[g].pin_count = 0
      <4>1. CASE g = f
        BY <2>2, <2>3, <2>4, <2>6, <4>1
      <4>2. CASE g # f
        <5>1. replacer'.is_evictable[g] = replacer.is_evictable[g]
          BY <2>3, <2>4, <4>2
        <5>2. replacer.is_evictable[g] <=> /\ g \in PoolFrames
                                           /\ pages[g].page_id # INVALID_PAGE_ID
                                           /\ pages[g].pin_count = 0
          BY <3>3, Zenon, ZenonT(30) DEF PoolInv, FrameInv
        <5>3. g \in PoolFrames => pages'[g] = pages[g]
          BY <2>6, <4>2
        <5> QED BY <5>1, <5>2, <5>3, Zenon, ZenonT(30)
      <4> QED BY <4>1, <4>2
    <3>4. replacer'.access_count[pool_size] = 0
      BY <2>2, <2>3, <2>4 DEF PoolInv, FrameInv
    <3>5. (pages \in [PoolFrames -> Pages] /\ Consistent(replacer) /\ NoRepeats(free_list))'
      BY <2>4, <2>5, <2>6, Zenon, ZenonT(30)
    <3> QED BY <3>1, <3>2, <3>3, <3>4, <3>5, Zenon, ZenonT(30) DEF FrameInv, Find
  <2>12. PinInv'
    <3>1. \A t \in Threads : <<t, p>> \notin pins
      BY <2>1, UnheldPage DEF f
    <3>2. ASSUME NEW pin \in pins' PROVE pin[2] \in Live' /\ Find(pin[2])'
      <4>1. pins \in SUBSET (Threads \X PageIds) /\ pins' = pins
        BY <2>1 DEF PoolInv, TypeInv
      <4>2. PICK s \in Threads, q \in PageIds : pin = <<s, q>>
        BY <3>2, <4>1, PinIsPair
      <4>3. q # p /\ Find(q) /\ q \in Live
        BY <3>1, <3>2, <4>1, <4>2, HeldPage
      <4> QED BY <2>7, <2>8, <4>2, <4>3 DEF Find
    <3>3. ASSUME NEW q \in PageIds, page_table'[q] # NoFrame
          PROVE  pages'[page_table'[q]].pin_count = Cardinality(Holders(q)')
      <4>1. q # p /\ page_table'[q] = page_table[q] /\ page_table[q] \in PoolFrames \ {f}
        BY <2>3, <2>7, <2>9, <3>3
      <4>2. Holders(q)' = Holders(q)
        BY <2>1 DEF Holders
      <4>3. pages[page_table[q]].pin_count = Cardinality(Holders(q))
        BY <3>3, <4>1 DEF PoolInv, PinInv, Find, Holders
      <4> QED BY <2>6, <4>1, <4>2, <4>3, Zenon, ZenonT(30)
    <3> QED BY <3>2, <3>3 DEF PinInv, Find, Holders
  <2> QED BY <2>10, <2>11, <2>12 DEF PoolInv
<1> QED BY <1>2, <1>3, <1>4

=============================================================================
