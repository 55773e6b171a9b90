------------------------- MODULE ExtendibleHashTable ------------------------
(***************************************************************************)
(* The in-memory extendible hash table (container/hash/                    *)
(* extendible_hash_table.cpp), the buffer pool's page table.  dir_ points  *)
(* to shared buckets: here to bucket identities, and "buckets" is the heap *)
(* of the buckets some directory entry points to.                          *)
(*                                                                         *)
(* Every method holds latch_ throughout.  Insert loops under it, splitting *)
(* one bucket per iteration: an iteration is a step, and while "inserting" *)
(* holds a pair no other method gets the latch.  Keys are integers and     *)
(* std::hash is the identity on them.                                      *)
(***************************************************************************)
EXTENDS Integers, Sequences, FiniteSets, Functions

CONSTANTS
  Keys,         \* int keys
  Values,
  NotFound,     \* Find returns false
  bucket_size,
  MaxDepth      \* bound on the directory's depth; see KeysAssumption

\* 1 << n
Pow2 ==
  LET pow[n \in 0 .. MaxDepth] == IF n = 0 THEN 1 ELSE 2 * pow[n - 1]
  IN  [n \in 0 .. MaxDepth |-> pow[n]]

ASSUME BucketSizeAssumption == bucket_size \in Nat \ {0}
\* Keys that agree on MaxDepth bits are equal: MaxDepth is never in the way.
ASSUME KeysAssumption ==
  /\ Keys \subseteq Nat
  /\ MaxDepth \in Nat
  /\ \A x, y \in Keys : x % Pow2[MaxDepth] = y % Pow2[MaxDepth] => x = y
\* Finding nothing is no value, and inserting nothing is no pair.
ASSUME NotFoundAssumption == NotFound \notin Values /\ NotFound \notin Keys \X Values

VARIABLES
  global_depth,  \* global_depth_
  num_buckets,   \* num_buckets_
  dir,           \* dir_
  buckets,       \* the Bucket objects: depth_ and list_
  inserting,     \* the pair whose Insert holds the latch, or NotFound
  ret            \* the call that returned last, with its result; << >> during Insert

vars == <<global_depth, num_buckets, dir, buckets, inserting, ret>>

BucketIds == 1 .. Pow2[MaxDepth] + 2

\* Mutant: num_buckets_ starts at 0.
InitNoBucket ==
  /\ global_depth = 0
  /\ num_buckets = 0
  /\ dir = [i \in {0} |-> 1]
  /\ buckets = [b \in {1} |-> [depth |-> 0, list |-> << >>]]
  /\ inserting = NotFound
  /\ ret = << >>

Init ==
  /\ global_depth = 0
  /\ num_buckets = 1
  /\ dir = [i \in {0} |-> 1]
  /\ buckets = [b \in {1} |-> [depth |-> 0, list |-> << >>]]
  /\ inserting = NotFound
  /\ ret = << >>

-----------------------------------------------------------------------------

\* hash & ((1 << depth) - 1), and bit "depth" of a hash or of an index.
LowBits(hash, depth) == hash % Pow2[depth]
HighBit(hash, depth) == (hash \div Pow2[depth]) % 2

IndexOf(key) == LowBits(key, global_depth)

Target(key) == dir[IndexOf(key)]

IsFull(bucket) == Len(bucket.list) = bucket_size

\* The position of the first pair with the key.
First(list, key) ==
  CHOOSE i \in DOMAIN list : list[i][1] = key /\ \A j \in 1 .. i - 1 : list[j][1] # key

\* Bucket::Find: the value of the first pair with the key.
BucketFind(bucket, key) ==
  IF \E i \in DOMAIN bucket.list : bucket.list[i][1] = key
  THEN bucket.list[First(bucket.list, key)][2]
  ELSE NotFound

Lookup(key) == BucketFind(buckets[Target(key)], key)

Find(key) ==
  /\ inserting = NotFound
  /\ ret' = <<"Find", key, Lookup(key)>>
  /\ UNCHANGED <<global_depth, num_buckets, dir, buckets, inserting>>

-----------------------------------------------------------------------------
(* Remove: list_.remove takes out every pair equal to the first found. *)

\* What a loop over a list leaves: the pairs at the given positions, in order.
Kept(list, positions) ==
  LET upto[n \in 0 .. Len(list)] ==
        IF n = 0 THEN << >>
        ELSE IF n \in positions THEN Append(upto[n - 1], list[n]) ELSE upto[n - 1]
  IN  upto[Len(list)]

Remove(key) ==
  /\ inserting = NotFound
  /\ LET b == Target(key)
         list == buckets[b].list
         others == {n \in DOMAIN list : list[n] # <<key, Lookup(key)>>}
     IN  buckets' = [buckets EXCEPT ![b] = [depth |-> @.depth, list |-> Kept(list, others)]]
  /\ ret' = <<"Remove", key, Lookup(key) # NotFound>>
  /\ UNCHANGED <<global_depth, num_buckets, dir, inserting>>

-----------------------------------------------------------------------------
(* Insert *)

InsertStart(key, value) ==
  /\ inserting = NotFound
  /\ inserting' = <<key, value>>
  /\ ret' = << >>
  /\ UNCHANGED <<global_depth, num_buckets, dir, buckets>>

\* resize and copy: entry i + capacity is entry i.
Doubled == [i \in 0 .. 2 * Pow2[global_depth] - 1 |-> dir[LowBits(i, global_depth)]]

\* Mutant: the new buckets hold one pair less.
RedistributedSmaller(bucket, bit) ==
  LET belongs == {n \in DOMAIN bucket.list : HighBit(bucket.list[n][1], bucket.depth) = bit}
      items == Kept(bucket.list, belongs)
  IN  [depth |-> bucket.depth + 1,
       list |-> SubSeq(items, 1, IF Len(items) < bucket_size THEN Len(items) ELSE bucket_size - 1)]

\* Bucket::Insert drops the pair if the bucket is full.
Redistributed(bucket, bit) ==
  LET belongs == {n \in DOMAIN bucket.list : HighBit(bucket.list[n][1], bucket.depth) = bit}
      items == Kept(bucket.list, belongs)
  IN  [depth |-> bucket.depth + 1,
       list |-> SubSeq(items, 1, IF Len(items) < bucket_size THEN Len(items) ELSE bucket_size)]

\* Mutant: the entries alternate, whatever the depth.
RepointedAlternating(d, target, depth, bucket_0, bucket_1) ==
  [i \in DOMAIN d |->
     IF d[i] # target
     THEN d[i]
     ELSE IF HighBit(i, 0) = 1 THEN bucket_1 ELSE bucket_0]

Repointed(d, target, depth, bucket_0, bucket_1) ==
  [i \in DOMAIN d |->
     IF d[i] # target
     THEN d[i]
     ELSE IF HighBit(i, depth) = 1 THEN bucket_1 ELSE bucket_0]

\* One iteration of the loop.
Split ==
  /\ inserting # NotFound
  /\ LET target == Target(inserting[1])
         bucket == buckets[target]
         doubles == bucket.depth = global_depth
         bucket_0 == CHOOSE b \in BucketIds \ DOMAIN buckets : TRUE
         bucket_1 == CHOOSE b \in BucketIds \ (DOMAIN buckets \union {bucket_0}) : TRUE
         dir1 == Repointed(IF doubles THEN Doubled ELSE dir, target, bucket.depth, bucket_0, bucket_1)
     IN  /\ IsFull(bucket)
         /\ doubles => global_depth < MaxDepth
         /\ global_depth' = IF doubles THEN global_depth + 1 ELSE global_depth
         /\ num_buckets' = num_buckets + 1
         /\ dir' = dir1
         \* the old bucket goes with its last pointer, a new one without any too
         /\ buckets' = [b \in Range(dir1) |->
                          IF b = bucket_0 THEN Redistributed(bucket, 0)
                          ELSE IF b = bucket_1 THEN Redistributed(bucket, 1)
                          ELSE buckets[b]]
  /\ UNCHANGED <<inserting, ret>>

\* Mutant: a key that exists keeps its value.
InsertFinishNoUpdate ==
  /\ inserting # NotFound
  /\ LET b == Target(inserting[1])
     IN  /\ ~ IsFull(buckets[b])
         /\ buckets' = IF Lookup(inserting[1]) = NotFound
                       THEN [buckets EXCEPT ![b].list = Append(@, inserting)]
                       ELSE buckets
  /\ inserting' = NotFound
  /\ ret' = <<"Insert", inserting[1], inserting[2]>>
  /\ UNCHANGED <<global_depth, num_buckets, dir>>

\* After the loop: update the pair in place or append it.
InsertFinish ==
  /\ inserting # NotFound
  /\ LET key == inserting[1]
         b == Target(key)
         list == buckets[b].list
     IN  /\ ~ IsFull(buckets[b])
         /\ buckets' = [buckets EXCEPT ![b] = [depth |-> @.depth, list |->
              IF Lookup(key) = NotFound
              THEN Append(list, inserting)
              ELSE [list EXCEPT ![First(list, key)] = inserting]]]
  /\ inserting' = NotFound
  /\ ret' = <<"Insert", inserting[1], inserting[2]>>
  /\ UNCHANGED <<global_depth, num_buckets, dir>>

Next ==
  \/ \E key \in Keys : Find(key) \/ Remove(key)
  \/ \E key \in Keys, value \in Values : InsertStart(key, value)
  \/ Split
  \/ InsertFinish

\* A thread that holds the latch runs.
Spec == Init /\ [][Next]_vars /\ WF_vars(Split) /\ WF_vars(InsertFinish)

-----------------------------------------------------------------------------
(* Properties. *)

\* The directory's integrity, as HashTableDirectoryPage::VerifyIntegrity
\* states it for the on-disk variant: no local depth exceeds the global depth
\* and each bucket has 2^(global - local depth) pointers, those of the indices
\* that agree with one another on the local depth's low bits.  The depth never
\* needs more bits than tell the keys apart.
DirectoryIntegrity ==
  /\ global_depth <= MaxDepth /\ DOMAIN dir = 0 .. Pow2[global_depth] - 1
  /\ \A i \in DOMAIN dir :
       /\ buckets[dir[i]].depth <= global_depth
       /\ {j \in DOMAIN dir : dir[j] = dir[i]} =
          {j \in DOMAIN dir : LowBits(j, buckets[dir[i]].depth) = LowBits(i, buckets[dir[i]].depth)}

\* num_buckets_ is the number of distinct buckets the directory points to.
NumBucketsExact == num_buckets = Cardinality(Range(dir))

Abstract == INSTANCE HashMap WITH map <- [key \in Keys |-> Lookup(key)]

\* Splits are invisible: what Find returns changes only when an Insert or a
\* Remove of that key returns, and Find and Remove return what the map says.
Implements == Abstract!Spec

\* The splitting loop of Insert ends, and the pair is then found.
InsertTerminates ==
  \A value \in Values :
    inserting # NotFound /\ inserting[2] = value ~>
      inserting = NotFound /\ ret # << >> /\ Lookup(ret[2]) = value

=============================================================================
