# A TLA+ verification of the database

The repository is a fork of the BusTub teaching database (C++). This directory
models it from the page frames up to the SQL statement: buffer pool, hash table
and B+ tree; table heap and transactions; values and tuples; catalog, binder,
planner, optimizer, executors and the instance that ties them together. TLC
checks the models on small instances; TLAPS proves parts of them for every value
of the constants.

Source paths below are relative to `src/project2代码/src/`.

## 1. The system

| part | state | operations | who calls it |
|---|---|---|---|
| LRU-K replacer, `buffer/lru_k_replacer.cpp` | two lists, access counts, evictable flags, `curr_size_`; one latch | Evict, RecordAccess, SetEvictable, Remove, Size | buffer pool |
| Extendible hash table, `container/hash/` | directory, buckets, depths, `num_buckets_`; one latch | Find, Insert, Remove | buffer pool (page table) |
| Disk manager, `storage/disk/disk_manager.cpp` | the database file | ReadPage, WritePage, log I/O | buffer pool |
| Buffer pool, `buffer/buffer_pool_manager_instance.cpp` | frames, page table, free list, replacer, next page id; one latch | NewPage, FetchPage, UnpinPage, FlushPage, FlushAllPages, DeletePage | B+ tree, table heap |
| B+ tree and iterator, `storage/index/`, `storage/page/b_plus_tree_*.cpp` | `root_page_id_` with its latch, pages with theirs | GetValue, Insert, Remove, Begin, Begin(key), End, `*`, `++`, IsEnd | indexes |
| Trie, `include/primer/p0_trie.h` | tree of nodes; one latch | Insert, Remove, GetValue | tests |
| Table page, heap and iterator, `storage/page/table_page.cpp`, `storage/table/` | slotted pages in a chain | Insert, MarkDelete, Update, ApplyDelete, RollbackDelete, GetTuple, iteration | transactions, executors |
| Transaction manager, `concurrency/transaction_manager.cpp` | transactions, write sets, global latch | Begin, Commit, Abort, BlockAll, ResumeAll | instance, checkpoints |
| Values and tuples, `type/`, `storage/table/tuple.cpp` | none | arithmetic, comparison, casts, hashes; building and reading tuples | expressions |
| Catalog, `include/catalog/catalog.h`, `catalog/` | tables and indexes by name and number | create, look up, generate test tables | everything above it |
| Binder, planner, optimizer, `binder/`, `planner/`, `optimizer/` | none beyond a statement | parse tree to bound statement to plan to better plan | instance |
| Executors, `execution/` | a cursor each | Init, Next | execution engine |
| Instance, `common/bustub_instance.cpp` | catalog and its lock, session variables | ExecuteSql | shell |

The lock manager, log manager, recovery, checkpoints, the clock and LRU replacers,
both on-disk hash tables and most executors are stubs. `PROJECT.json` lists
every part with its status, and the hazards with the lines where they bite.

## 2. Modules

| module | models |
|---|---|
| `LRUKReplacer` | the replacer's methods as operators on one record |
| `LRUKReplacerSystem` | any sequence of calls of those methods, with the access times as history |
| `LRUKReplacer_proofs`, `LRUKReplacerSystem_proofs` | lemmas on the operators; the theorems |
| `PageStore` | abstract: pages as cells that are created, pinned, written, deleted |
| `BufferPool` | the pool over `LRUKReplacer`, the disk and calling threads |
| `BufferPoolFrames_proofs`, `BufferPool_proofs` | lemmas on picking, filling and changing frames; the theorems on frames, pins, contents and the disk, and that the pool implements `PageStore` |
| `HashMap` | abstract: a map from keys to values |
| `ExtendibleHashTable`, `ExtendibleHashTable_proofs` | the hash table; its theorems |
| `OrderedIndex` | abstract: a set of keys with insert, remove and read |
| `BPlusTreePages` | the page layout and the sequential changes of a tree |
| `BPlusTree` | threads that search, insert, remove and scan with latches |
| `PrefixMap` | abstract: a map, whose Remove may take prefixes of its argument along |
| `Trie`, `Trie_proofs` | the trie, its latch, and GetValue's read after the unlock; its theorems |
| `TransactionalTable` | abstract: rows with committed values and pending writes |
| `TablePage` | the operations of a slotted page on slots and bytes |
| `TableHeap`, `TableHeap_proofs` | heap, iterators and transaction manager over `TablePage`; the theorems on both |
| `Values`, `Tuples` | the type system; tuples, schemas and keys |
| `ValueAlgebra`, `ValueAlgebra_proofs` | sequences of operations on values, and their laws; the laws proved |
| `Expressions`, `Plans` | expressions with their evaluation; plan nodes |
| `MockTables`, `Catalog` | generated tables; the catalog |
| `Bound`, `Binder` | parse trees and bound statements; the binder |
| `Planner`, `Optimizer`, `Executors` | as they say |
| `Relations`, `PlanSemantics`, `SqlMeaning` | abstract: joins, groups and orders of rows; what a plan stands for; what a statement means |
| `BustubInstance` | sessions that execute requests |
| `MC...` | the instances for TLC; `MCTableHeap` also maps the heap to `TransactionalTable` |

**Replacer.** A record holds `access_count`, `is_evictable`, `history_list`,
`cache_list` and `curr_size`. The iterator maps of the code change with their
lists in every statement, so an iterator is the position of a frame in its list.
Every method holds `latch_`; a call is a step. A frame id above
`replacer_size_` throws; `replacer_size_` itself is accepted, as in the code.

**Buffer pool.** All methods but FlushPage hold `latch_` and are one step.
FlushPage holds nothing: `FlushFind` looks the frame up, `FlushWrite` writes
what the frame holds then. `Evict`'s result is ignored by the code and its output
is uninitialised, so `PickedFrames` is any frame if Evict fails. The page table
is the map that `ExtendibleHashTable` is shown to implement. `disk.size` keeps
the file's end, since a read past it leaves the buffer as it is. Callers obey
the pool's contract: they unpin what they pinned, say so if they wrote, and pin a
page once per thread. The constant `FlushUnpinned` says whether a caller may
flush a page it has not pinned; the code does not forbid it.

**Hash table.** Insert loops under the latch, splitting one bucket per
iteration. An iteration is a step, and while `inserting` holds a pair no other
call begins. Keys are integers that hash to themselves.

**B+ tree.** `th[t]` is what a thread is doing. A step ends where the thread may
wait for a latch or touches something without one:

- `FetchRoot` takes the root latch, reads `root_page_id_`, pins that page and lets
  the latch go. The page is latched only in the next step (`LatchRead`), as in
  `FindLeaf`.
- `LatchWrite` latches a page and lets the ancestors go if the page is safe.
- `InsertInLeaf` is one step with all splits above the leaf, because every page
  whose entries it changes is write-latched. `ChangesAreLatched` checks that
  this is so. Parent page ids are written in children that are not latched; no
  search reads them.
- A Remove repairs the tree in one `Fix...` step per level, since each may wait
  for a sibling. `Purge` deletes pages after the latches are gone; `DeletePage`
  refuses a pinned page and the code does not look at the answer.
- The iterator keeps its leaf until it has the next one (`Advance`).

A record is its key: the RID goes where its key goes. The unused key 0 of an
internal page stays as stale as in the code, since merging reads it. The pool is
assumed to have a frame whenever the tree asks. `internal_max_size >= 3` is
assumed. `GetSize() == RemoveAndDeleteRecord(...)` (`b_plus_tree.cpp:232`) is
taken to evaluate its left operand first, which C++ leaves open; compiled code
has not been examined.

`present` is history: the keys that were in the tree at some time and at all
times of a read. `Witness` only records.

**Trie.** A node is named by its path, so the `children_` maps are the set of
paths. Insert and Remove are one step each under the write latch. GetValue is
two: the node is found under the read latch and read after it. A node that has
been freed in between may hold anything (`Garbage` or any stored value).

**Table heap and transactions.** A page is its slots, its free space pointer and
its bytes, which is where mistakes in moving tuples would show. Sizes are scaled
down: a page of 7 bytes, a header of 2, a slot of 1. An insert walks the pages
with the latch of its page (`InsertMove` takes the next before it lets go); every
other operation latches one page for one step. Commit and Abort work their write
set off from its end, one record per step. The lock manager is a stub, so the
model takes a row lock for its callers: two unfinished transactions do not write
the same row. Scans take none, as in the code. `lost` and `stable` are history.

**Values.** A value is a type, a number or text, and a null flag. The widths of
the integer types are a constant, so that casts, promotions and the number that
stands for NULL lie where they do in C++ but the ranges are small. A DECIMAL is a
number of halves. Text is a sequence of small codes. An exception is the value
`Error(kind)`. The outcome of an operation follows the code's case split by the
type of the left operand, then of the right one.

**SQL.** `Bound` describes the parse tree the third-party parser hands over. The
binder, the planner, the optimizer rules and the executors are functions that
return a set: empty for an exception, more than one element where the order of
an unordered map or a shuffle decides. `BustubInstance` runs them as steps of
concurrent sessions: parse, bind (outside the lock, as in the code), plan and
optimize under the shared lock, execute, write. Creating a table or an index
takes the lock exclusively. An exception leaves the transaction open (`leaked`).
Generated tables have `MaxRows = 3` rows, with `Draws` in place of random numbers.

`SqlMeaning` says what a statement means without the code's machinery: names are
matched against paths, groups are sequences of rows, an aggregate is computed
where it stands. `PlanSemantics` says what a plan node stands for, from the
comments on the plan classes, also where the executor is not written.


## 3. What TLC checks

Times are for two workers.

| run | instance | states | time | shows |
|---|---|---|---|---|
| `lruk_safety` | 3 frames, k = 2, 5 accesses | 56,497 | 13 s | lists, counts, flags, order; victim rule; Evict fails only if it must |
| `pool_frames` | 2 threads, 2 frames, 3 pages, contents ignored | 132,621 | 26 s | `FrameInv`, exact pin counts, `EvictNeverFails`; pinned pages stay |
| `pool_content` | 2 threads, 1 frame, 3 pages, 2 contents | 34,945 | 22 s | no reported write is lost; implements `PageStore` |
| `hash_map` | 5 keys, 2 values, buckets of 2 | 66,355 | 96 s | directory integrity; implements `HashMap`; Insert ends and its pair is found |
| `btree_writers` | 2 threads inserting and removing, 2 operations each | 58,405 | 51 s | shape, no leaked page, every call ends, latched changes, implements `OrderedIndex` |
| `btree_readers` | lookup or scan, Insert, Remove; 9 keys, three levels | 398,460 | 95 s | lookups linearizable, scans complete, no access to a page that is gone |
| `trie_map` | 2 threads, 6 keys, 2 value types | 181,308 | 165 s | no garbage nodes; implements `PrefixMap` |
| `table_txns` | 2 transactions with 2 and 1 writes, a scan, a checkpoint; 2 pages, 3 tuples | 161,860 | 95 s | pages tiled and linked; quiescence; scans complete; implements `TransactionalTable` |
| `values_laws` | operands of 7 types, widths 3, 4, 8, 9 bits | 59,559 | 54 s | exact arithmetic, NULLs, one order, hashes, casts, tuples |
| `sql_statements` | some 90 requests beside 2 of 9 that change the catalog | 93,866 | 45 s | plans mean statements, optimizing keeps meaning, results are right, catalog consistent |

Every property of these runs is violated by a plausible bug; `PROJECT.json`
lists the mutated definitions, which stand beside the originals in the modules.

**Bounds.** Fewer frames than pages make every eviction, write-back and refetch
happen. `pool_frames` and `pool_content` split one question for speed: the union
of their properties also holds with two threads, two frames, three pages, two
contents and symmetric threads (707,737 states, over five minutes, which is why
it is not one of the runs). `k = 2` separates both lists. The hash keys `{0, 1, 3, 4, 5}`
need three bits, so one Insert may split twice in a row. Pages of three entries
are the smallest with both borrowing and merging of leaves, and the trees start
full enough that the first operations split or merge; `PrefillLate` adds keys
after the first ones so that a leaf is full next to one that is not. The trie's
keys have prefixes, siblings and a key of its own, and the empty key, which every
operation refuses. A table page holds two small tuples or one large one, so that
inserts append pages, updates move tuples, and slots are used again; one tuple
fits nowhere. The widths of the integers are chosen so that each pair of types
meets the limits of the narrower one, and so that TINYINT and SMALLINT are
narrower than `int`, as promotion needs. The requests hold every clause, join
type, aggregate and error of the binder and planner once or more. The limits on
calls (`MaxOps`, `MaxClock`, `MaxAccesses`, `MaxWrites`, `MaxRequests`) bound the
length of behaviours: what needs longer ones is not covered except where it is
proved.

**What the runs leave out on purpose.** Faults of the code (section 4) would hide
everything else, so the passing runs avoid their triggers, and nothing is claimed
for those cases.

- `btree_readers` has a tree in which no operation replaces the root and that is
  never empty; `Begin(key)` finds its key in its leaf. It does not ask whether a
  scan and a Remove block each other: they can (section 4).
- `pool_content` has no caller that flushes a page it has not pinned.
- `EvictionOrder` leaves open which frame goes when all have k accesses and the
  least recently used one is not the one with the largest backward k-distance.
- `PrefixMap` leaves open what Remove does where one key begins with another: its
  answer for a string that is no key but begins one, whether a key goes that
  others extend, and whether a key goes with the last one that extends it.
- `PrefixMap` lets a GetValue whose node was freed return anything, and
  `TransactionalTable` lets a row be lost when its old tuple does not fit.
- `ComparisonLaws` and `ArithmeticExact` are about numbers. Numbers against
  VARCHAR and BOOLEAN are asymmetric in the code. `ArithmeticExact` leaves open
  what an operation does whose result is `MIN - 1`, the number of NULL.
- `OptimizerKeepsMeaning` covers plans whose indexes hold every row of their table.
- `ResultsAreMeaning` covers plans without an aggregation, whose executor is empty.
- The requests do not contain: predicates that are not BOOLEAN (read as a low
  byte), ORDER BY on nullable columns, min or max of VARCHAR, VALUES rows of
  mixed types, nested WITH, column references in VALUES, `t.*`.

**Deadlock.** TLC's own check is on for the pool, the replacer and the hash table.
In the other runs calls are bounded and the end state is silent, so it is off;
`OperationsEnd` states for the B+ tree's writers that every call ends.

**Fairness.** The hash table has weak fairness of the loop: the thread that
holds the latch runs. The B+ tree has weak fairness of each thread's next step:
threads are scheduled and a free latch is granted. Starvation of a waiter by an
endless stream of others is outside this, since calls are bounded. The other
models have no fairness and claim no liveness.

## 4. Where the code and its documentation disagree

Two disagreements are runs that TLC refutes with a short trace:

| run | what happens |
|---|---|
| `btree_root_gap` | GetValue can miss a key that is present throughout, if the root splits between the root latch and the page latch |
| `table_undo` | Abort ignores that an old tuple no longer fits (`transaction_manager.cpp:81`); the row keeps the aborted value, though `transaction.h:336` speaks of the undo set |

Six more are properties that the runs do not check; TLC refutes each under the
configuration named here:

| configuration, module, property | what happens |
|---|---|
| `LRUKReplacer_kdistance.cfg`, `LRUKReplacerSystem`, `MaxBackwardKDistance` | among frames with k accesses the least recently used is evicted, not the one with the largest backward k-distance (`lru_k_replacer.h:29`, `:60`) |
| `BufferPool_flushrace.cfg`, `BufferPool`, `OnlyHoldersChangeContent` | FlushPage, unlatched, can write one page's bytes under another page's id (`buffer_pool_manager_instance.h:162` says the latch protects shared data) |
| `BPlusTree_scandeadlock.cfg`, `BPlusTree`, `SomeoneCanMove` | a scan (leaf, then right: `index_iterator.cpp:46`) and a Remove (leaf, then left sibling: `b_plus_tree.cpp:273`) can wait for each other |
| `Trie_liveread.cfg`, `MCTrie`, `ReadsLiveNodes` | GetValue reads a node that a Remove has freed (`p0_trie.h:435`) |
| `Trie_liveread.cfg` with `PROPERTY RemovesItsKeyOnly` for its invariant, `MCTrie` | Remove returns true for a path that ends no key (`p0_trie.h:356` says false), leaves a key that others extend in place, and takes away a key that no other one than its argument extends (`:352` says otherwise) |
| `ValueAlgebra_range.cfg`, `ValueAlgebra`, `ArithmeticStaysInRange` | `MIN - 1` does not throw but is NULL (`integer_parent_type.h:89`), against `test/type/type_test.cpp:80` |

Others are in the models, which follow the code, but have no configuration:

- GetValue on an empty tree fails the assertion of `b_plus_tree.cpp:460`
  (`FetchRoot` ends in `Broken`); `Begin(key)` above all keys of its leaf gives an
  iterator past the last entry that is not at its end (`ReadPastEnd`).
- With `k = 1` RecordAccess erases an iterator it never stored
  (`lru_k_replacer.cpp:65`); the models assume `k >= 2`.
- WritePage reports a failed write to its debug log only (`disk_manager.cpp:88`),
  so the pool clears a dirty page all the same. The models' writes succeed.
- FlushPage does not unset the dirty flag, though
  `buffer_pool_manager_instance.h:114` says so (`FlushWrite` leaves `pages`).
- Insert of a key that exists splits its bucket if that is full, though
  `extendible_hash_table.h:85` speaks of updating the value.
  With buckets of one pair that never ends: the split cannot part the bucket's
  only key from itself (`bucket_size >= 2` in `DepthSuffices`, section 5).
- The header page never records the root: the call at `b_plus_tree.cpp:90` is
  commented out (`StartNewTree`).
- MergeFilterNLJ keeps the type of the join (`merge_filter_nlj.cpp:65`), so a
  filter over an outer join whose ON is constantly true would become part of the
  ON. Boolean literals do not pass the binder and a number throws in
  `IsPredicateTrue`; a text constant reaches it, and is outside the requests.
- TableHeap::MarkDelete ignores the page's answer and logs a delete that did not
  happen (`table_heap.cpp:105`). The model's callers delete rows they have found.
- The iterator's constructor throws if its row vanishes between Begin and the
  read (`table_iterator.cpp:24`, `ScanOpen`).
- A VARCHAR `'300'` becomes a TINYINT by truncation (`varlen_type.cpp:199`); a
  number against a VARCHAR compares differently in the two orders (`type.h:54`
  derives one from the other); equal DECIMAL and BIGINT hash differently; a NULL
  VARCHAR casts in ValueFactory but throws in Value::CastAs.
- An exception in ExecuteSql leaves the transaction open and the global latch
  read-locked (`bustub_instance.cpp:175`).
- Binding (`:209`) and the meta commands read the catalog outside its lock;
  `session_variables_` has none.
- An index keeps one row per key, so index scans and index joins lose the others;
  a plan that orders by an indexed column therefore depends on the index.
- `create index` on a mock table dereferences its null heap (`alive` becomes
  FALSE). An update of an unknown column and a column in VALUES dereference null
  pointers too; the model treats these two like an exception.
- A CTE whose columns are used under an alias fails to plan; one with aggregates
  planned twice throws; NULL keys form one group each; min and max are declared
  INTEGER whatever they aggregate (`plan_node.cpp:76`).

## 5. What is proved

TLAPS proves the following for every value of the constants, under the named
assumptions of the modules. Each inductive invariant was first checked by TLC on
the instance of the run.

**Replacer** (`LRUKReplacerSystem_proofs`), for every `replacer_size`, `k` and
`MaxClock`:

- `TypeCorrect`, `ListsCorrect`, `SizeCorrect`, `OrderCorrect`: the invariants of
  `lruk_safety`;
- `EvictionOrderHolds`: Evict takes frames with fewer than k accesses first, by
  their first access; otherwise never a frame that another one precedes both by
  its last and by its k-th last access;
- `EvictTotalHolds`: Evict fails only when nothing is evictable.

Assumptions: `replacer_size` and `MaxClock` are naturals, and `k >= 2` (section 4
says what happens with `k = 1`).

None of the properties is inductive alone. That a list holds each frame once
needs the counts that say which list a frame is in. That Evict cannot fall
through needs `curr_size` to be the number of evictable frames and every such
frame to be in a list. The victim rule needs the lists to be sorted by first and
by latest access. `Inv` is the conjunction: types, lists, size, order.
`LRUKReplacer_proofs` shows that each operator keeps the part that has no
history (`Consistent`), from lemmas on erasing from and pushing to a list.

**Buffer pool** (`BufferPoolFrames_proofs`, `BufferPool_proofs`), for every number
of frames, pages, threads and contents:

- `FramesCorrect`, `PinsCorrect`: a frame is free or holds one page of the page
  table; pin counts are exact; a frame is evictable if and only if its page is
  unpinned;
- `EvictNeverFailsHolds`: the ignored result of Evict is never `false`, so the
  uninitialised frame id is never used;
- `PinnedPagesStayHolds`: no step takes a pinned page out of its frame;
- `CleanMeansOnDiskHolds`, `PoolImplementsStore`: no write that was reported is
  lost, and the pool implements `PageStore`.

Assumptions: the threads are a finite set (a pin count is a cardinality),
`Zeroed` is a content, the bounds are naturals, and those of the replacer. The
last two theorems have the hypothesis `FlushUnpinned = FALSE`: without it they are
false, as `BufferPool_flushrace.cfg` shows.

`PoolInv`, types with `FrameInv` and `PinInv`, is inductive: which frame NewPage
and FetchPage may take depends on the replacer agreeing with the pin counts, and
`Consistent` of the replacer is part of `FrameInv`, so the pool's proof uses the
replacer's lemmas and not its code. Contents need more (`DataInv`). A write
happens under a pin. A flush in progress still knows the right frame, because
its caller's pin keeps the page there between `FlushFind` and `FlushWrite`. The
file is blank behind what was written, so a page that was never written out reads as
zeros. The refinement then maps each action to one step of the store, or to none
(eviction, write-back, flush).

**Hash table** (`ExtendibleHashTable_proofs`), for every bucket size, set of keys
and set of values:

- `DirectoryIntact`: a bucket is pointed to by exactly the indices that agree with
  it on its low bits, and no local depth exceeds the global one;
- `NumBucketsCorrect`: `num_buckets_` is the number of distinct buckets;
- `TableImplementsMap`: a split is invisible and loses no pair; Insert and Remove
  change one key;
- `DepthSuffices`: with `bucket_size >= 2` a bucket that Insert finds full has a bit
  left to split on, so the bound `MaxDepth` of the model stops no Insert.

Assumptions: `bucket_size >= 1`; keys are naturals that `MaxDepth` bits tell apart
(equal hashes of different keys would make the loop endless); `NotFound` is no
value.

`Inv` adds to the directory's integrity that a pair lies where its key's low bits
say, that no list is longer than the bucket size, and that a key occurs once. The
integrity alone does not survive a split: that both new buckets are pointed to
needs the indices of the old one to be all those with its low bits. The facts
about `Pow2` and remainders are proved by induction over the naturals, as a
set that holds 0 and the successor of each of its elements.

**Table heap** (`TableHeap_proofs`), for every page size, header and slot size, every set of transactions and scans, every set of tuples and every bound on pages
and writes:

- `HeapStaysWellFormed`: the tuples of a page tile its bytes behind the free space
  pointer, slots and tuples do not meet, and the pages are doubly linked;
- `CheckpointsQuiescent`: while a checkpoint blocks transactions there is no
  write to commit or to roll back, no locked row and no latch on the first page;
- `ScansAreComplete`: a scan delivers rows in order, none twice, and when it ends
  every row that was visible since its begin.

Assumptions: sizes are naturals and the header fits the page; tuples are not empty
(the code asserts it); the first row fits an empty page; `None` is no transaction.

`HeapInv` has three parts. *Pages* are numbered as they are linked, and their
slots' offsets and sizes fill the page (`Fill`): every byte behind the pointer is
some tuple's, and no two tuples overlap. ApplyDelete and UpdateTuple move the
tuples below the changed one, so their proofs rest on lemmas that removing,
growing or shrinking one tuple and shifting those below it keeps `Fill`.
*Transactions*: an insert holds the latch of the page it is at and nobody else
holds it, which is why a page that InsertTuple saw as the last still is when it
appends one; a record of a write set names a slot that exists; a finished
transaction has no records, and none is unfinished while `blocked` holds.
*Scans*: a scan at a place has seen, in order, only rows it has passed, and among
them every stable row it has passed (`Passed`). Pages appended meanwhile lie ahead
of it, and the stable rows are only ever fewer.

**Trie** (`Trie_proofs`), for every alphabet, set of keys, value types, values and
threads:

- `NoGarbage`: every node but the root hangs below its parent and ends a key or
  has children;
- `TrieImplementsMap`: the trie implements `PrefixMap`. Insert never overwrites;
  Remove forgets its argument when no longer key is stored, and never a key with
  extensions off the path of its argument; a lookup may answer wrongly only if such a Remove freed its node.

Assumptions: keys are strings over the alphabet; `None`, which stands for "no
value" and "no lookup", is neither a value nor the record of a lookup.

`TrieInv` says that the paths are closed under prefixes, that every node but the
root lies on the way to the end of a key, and that a node a thread has found still
ends a key unless it was freed. "Ends a key or has children" alone does not
survive the unwinding of Remove, which looks at one node at a time: that what is
left below a node leads to the end of a key needs the whole path. Insert's walk and
Remove's loop are recursive functions; their closed forms (`Walked`, `Unwound`:
the prefixes of the key behind the last branch are released) are shown to satisfy
the recursive definition.

**Values** (`ValueAlgebra_proofs`), for every choice of integer widths, 8, 16, 32
and 64 bits included, and every value that computing, casting and choosing can
reach:

- `ValuesStayValues`: a number lies in the range of its type, and is NULL exactly
  when it is the number that stands for NULL;
- `ArithmeticIsExact`, `NullStaysTyped`, `ComparisonsAgree`,
  `EqualValuesHashAlike`, `CastsAreFaithful`, `TuplesKeepValues`: the laws of
  `values_laws`, with the case they leave open (section 3);
- `GetsValue`: for every schema and row, GetValue on the tuple built from the row
  gives every value back.

Assumption: the widths are at least 2 bits, grow from type to type, and INTEGER, the
C++ int, is at least twice as wide as SMALLINT. The code's widths satisfy it. The
last part is what keeps a product of two narrow integers within the int it is
computed in.

The invariant (`ValuesInv`) is that both operands are values. It is needed because
the laws are false of arbitrary records, such as a NULL flag beside another number.
The arithmetic laws then follow from what two's complement truncation does:
`Wrap` keeps a number in range and moves every other one by a multiple of
the width's power of two. The overflow checks look at the truncated result; the
proof shows for each operation and each order of the two widths that they
notice exactly the results out of range. That a text read back is the number it
was printed from is an induction over the digits. `GetsValue` says that the columns
of a tuple do not overlap: offsets are sums of column sizes, payloads lie behind
all of them in order, and a write to one leaves the bytes of the others alone.
The results on DECIMAL are about the model's numbers of halves with one bit less
than BIGINT, not about IEEE 754.

**Only model-checked.**

- Liveness (the hash table's Insert ends, every call of the tree's writers ends)
  and `SomeoneCanMove`, which uses ENABLED: out of the prover's reach.
- `table_txns`' refinement of `TransactionalTable`: it is about the bytes of the
  tuples, and the invariant above is about where they lie.
- The B+ tree, and everything of SQL above the values. `BPlusTreePages`,
  `Binder`, `Bound`, `Planner`, `Optimizer`, `Executors`, `Expressions`,
  `PlanSemantics`, `SqlMeaning` and `BustubInstance` walk trees with recursive
  operators, about which the prover cannot reason. So `TreeWellFormed`,
  `NoPageLeaks`, `ChangesAreLatched`, the tree's refinement of `OrderedIndex`,
  and the four invariants of `sql_statements` stay with TLC.

## 6. Not modelled

- Stubs in the code: the lock manager, the log manager, recovery, the checkpoint
  manager beyond its call of BlockAllTransactions, the clock and LRU replacers,
  the on-disk hash tables, and the bodies of the unwritten executors. The model
  has what a stub does, which is nothing, where other code calls it.
- `End()` and the loop `it != End()`, which latches from the root again while the
  iterator holds a leaf; the drawing and file-loading helpers of the tree.
- I/O errors, the 32-bit offset of `ReadPage`, the log file.
- Running out of frames inside the tree or the heap (the heap's NewPage apart).
- The index wrappers, which forward; the rollback of the index write set, which
  nothing fills.
- TIMESTAMP, Sqrt, and the serialised and printed forms of tuples.
- EstimatedCardinality (`optimizer/optimizer.cpp:23`), which the pipelines never ask.
- The SQL parser, third-party code, and the tables that name its nodes; the layout
  of printed results.

Definitions map to about 10,000 of the 28,000 lines under `src/`, comments and
blank lines counted. What remains is mostly stubs, declarations of interfaces,
tests' support code, the parser's tables and printing.

## 7. Plan

1. `End()`, and the tree over a pool that runs out of frames.
2. The disk manager's offset arithmetic.
3. Proofs: the heap implements `TransactionalTable`, which needs an invariant on
   the bytes of a page; the latch discipline of the B+ tree
   (`ChangesAreLatched`), once the page operations are written without recursive
   operators.
