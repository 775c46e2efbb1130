------------------------- MODULE BucketCache_proof --------------------------
(***************************************************************************)
(* Proofs about BucketCache, for every number of files and indexes, every  *)
(* width of the two epochs and every pair of hashes that tells buckets     *)
(* apart.                                                                  *)
(*                                                                         *)
(* The properties are not inductive: what a mark means depends on the      *)
(* walks before this one.  CacheInv adds that no cell is ahead of its      *)
(* epoch (MarksInv), that the buckets stamped in this walk are contained   *)
(* in it and the scratch or block holds each collected file once           *)
(* (WalkInv), that a table cell holds a bucket of its hash (TablesInv),    *)
(* and that stored closures consist of interned buckets, whose cells the   *)
(* wrap-around clears, and of interned names (ClosuresInv).                *)
(***************************************************************************)
EXTENDS BucketCache, TLAPS

MarksInv ==
  /\ \A f \in File : gen[f] <= epoch
  /\ \A b \in Bucket : stamp[b] <= bucketEpoch
  /\ \A b \in Bucket : stamp[b] # 0 => b \in StoredBuckets

TablesInv ==
  /\ \A h \in Hash : intern[h] # None => Hash1[intern[h]] = h
  /\ \A h \in Hash : overflow[h] # None => Hash2[overflow[h]] = h

ClosuresInv ==
  \A f \in File : closure[f] # None =>
    /\ f \in Interned
    /\ Members(closure[f]) \subseteq Interned
    /\ closure[f].buckets \subseteq StoredBuckets
    /\ \A b, c \in closure[f].buckets : b # c => b \intersect c = {}
    /\ \A b \in closure[f].buckets : closure[f].self \notin b

OwnersInv ==
  /\ pc = "idle" => owners = {}
  /\ pc # "idle" => /\ self \in owners
                    /\ owners \subseteq Marked
                    /\ Marked \subseteq Interned
                    /\ bound <= genLen
  /\ pc # "dfs" => todo = {}
  /\ todo \subseteq StoredBuckets
  /\ UNION todo \subseteq Interned

ScratchExact == \A f \in File : scratch[f] = IF f \in Marked /\ f # self THEN 1 ELSE 0

WalkInv ==
  /\ pc = "dfs" => /\ ScratchExact
                   /\ selfBucket = BucketOf[self]
                   /\ \A b \in Bucket : stamp[b] = bucketEpoch => b \subseteq Marked
  /\ pc = "scc" => \A f \in File : block[f] = IF f \in Marked THEN 1 ELSE 0
  /\ pc = "store" => /\ ScratchExact
                     /\ out = {InScratch(i) : i \in 0..(done - 1)} \ {{}}
                     /\ out \subseteq StoredBuckets

CacheInv == MarksInv /\ TablesInv /\ ClosuresInv /\ OwnersInv /\ WalkInv
-----------------------------------------------------------------------------
(* Counting an epoch up wraps to 0 exactly at its width.                   *)
LEMMA WrapAround ==
  ASSUME NEW N \in Nat, N >= 2, NEW e \in 0..(N - 1)
  PROVE  (e + 1) % N = IF e + 1 = N THEN 0 ELSE e + 1
OBVIOUS

(* The files of a bucket have one index, which any of them gives.          *)
LEMMA BucketFacts ==
  ASSUME NEW b \in Bucket
  PROVE  /\ b # {} /\ b \subseteq File
         /\ (CHOOSE f \in b : TRUE) \in b
         /\ BucketOf[CHOOSE f \in b : TRUE] \in Index
         /\ \A f \in b : BucketOf[f] = BucketOf[CHOOSE g \in b : TRUE]
<1>1. b # {} /\ b \subseteq File
  BY DEF Bucket
<1>2. (CHOOSE f \in b : TRUE) \in b
  BY <1>1
<1> QED
  BY <1>1, <1>2, IndexAssumption DEF Bucket

(* What is in the scratch of an index is a bucket, unless it is empty.     *)
LEMMA ScratchBucket ==
  ASSUME NEW i \in Index, InScratch(i) # {}
  PROVE  InScratch(i) \in Bucket
BY DEF InScratch, Bucket

(* Files of different indexes are different.                               *)
LEMMA ScratchDisjoint ==
  ASSUME NEW i, NEW j, i # j
  PROVE  InScratch(i) \intersect InScratch(j) = {}
BY DEF InScratch

(* reset leaves no mark behind: the set consists of what is added to it.   *)
LEMMA ResetFacts ==
  ASSUME TypeOK, MarksInv, NEW S \in SUBSET File, ResetAndAdd(S)
  PROVE  /\ Marked' = S
         /\ genLen' \in Nat
         /\ gen' \in [File -> 0..(IdEpochs - 1)]
         /\ epoch' \in 0..(IdEpochs - 1)
         /\ \A f \in File : gen'[f] <= epoch'
         /\ bound <= genLen'
<1> DEFINE fresh == bound > genLen
           next == (epoch + 1) % IdEpochs
           e == IF fresh \/ next = 0 THEN 1 ELSE next
           old == IF fresh \/ next = 0 THEN [f \in File |-> 0] ELSE gen
<1>1. next = IF epoch + 1 = IdEpochs THEN 0 ELSE epoch + 1
  BY WrapAround, SizeAssumption DEF TypeOK
<1>2. genLen' = (IF fresh THEN bound + (bound \div 4) ELSE genLen)
  BY DEF ResetAndAdd
<1>3. epoch' = e
  BY DEF ResetAndAdd
<1>4. gen' = [f \in File |-> IF f \in S THEN e ELSE old[f]]
  BY DEF ResetAndAdd
<1>5. bound \in Nat /\ genLen \in Nat /\ epoch \in Nat /\ IdEpochs \in Nat /\ IdEpochs >= 2
  BY SizeAssumption DEF TypeOK
<1>6. e \in 1..(IdEpochs - 1)
  <2>1. epoch <= IdEpochs - 1
    BY <1>5 DEF TypeOK
  <2> QED
    BY <1>1, <1>5, <2>1
<1>7. \A f \in File : old[f] \in 0..(IdEpochs - 1) /\ old[f] < e
  <2>1. CASE fresh \/ next = 0
    BY <1>5, <1>6, <2>1
  <2>2. CASE ~(fresh \/ next = 0)
    <3>1. e = epoch + 1 /\ old = gen
      BY <1>1, <2>2
    <3>2. \A f \in File : gen[f] \in 0..(IdEpochs - 1) /\ gen[f] <= epoch
      BY DEF TypeOK, MarksInv
    <3> QED
      BY <1>5, <3>1, <3>2
  <2> QED
    BY <2>1, <2>2
<1> HIDE DEF e, old, fresh, next
<1>8. Marked' = S
  BY <1>3, <1>4, <1>6, <1>7 DEF Marked
<1>9. bound \div 4 \in Nat
  BY <1>5
<1>10. genLen' \in Nat /\ bound <= genLen'
  BY <1>2, <1>5, <1>9 DEF fresh
<1>11. gen' \in [File -> 0..(IdEpochs - 1)] /\ \A f \in File : gen'[f] <= epoch'
  BY <1>3, <1>4, <1>5, <1>6, <1>7
<1> QED
  BY <1>3, <1>5, <1>6, <1>8, <1>10, <1>11

(* resetScratch leaves no bucket stamped with the new epoch.               *)
LEMMA ResetScratchFacts ==
  ASSUME TypeOK, MarksInv, NEW v \in File, ResetScratch(v)
  PROVE  /\ selfBucket' = BucketOf[v] /\ selfBucket' \in Index
         /\ bucketEpoch' \in 1..(BucketEpochs - 1)
         /\ stamp' \in [Bucket -> 0..(BucketEpochs - 1)]
         /\ \A b \in Bucket : stamp'[b] < bucketEpoch'
         /\ \A b \in Bucket : stamp'[b] # 0 => b \in StoredBuckets
<1> DEFINE next == (bucketEpoch + 1) % BucketEpochs
<1>0. bucketEpoch \in 0..(BucketEpochs - 1) /\ BucketEpochs \in Nat /\ BucketEpochs >= 2
  BY SizeAssumption DEF TypeOK
<1>1. next = IF bucketEpoch + 1 = BucketEpochs THEN 0 ELSE bucketEpoch + 1
  BY <1>0, WrapAround
<1>2. bucketEpoch \in Nat /\ bucketEpoch >= 1 /\ bucketEpoch <= BucketEpochs - 1 /\ BucketEpochs \in Nat
  BY SizeAssumption DEF TypeOK
<1>3. \A b \in Bucket : stamp[b] \in 0..(BucketEpochs - 1) /\ stamp[b] <= bucketEpoch
  BY DEF TypeOK, MarksInv
<1>4. \A b \in Bucket : stamp[b] # 0 => b \in StoredBuckets
  BY DEF MarksInv
<1>5. selfBucket' = BucketOf[v] /\ selfBucket' \in Index
  BY IndexAssumption DEF ResetScratch
<1>6. CASE next = 0
  <2>1. bucketEpoch' = 1
    BY <1>6 DEF ResetScratch
  <2>2. stamp' = [b \in Bucket |-> IF b \in StoredBuckets THEN 0 ELSE stamp[b]]
    BY <1>6 DEF ResetScratch
  <2>3. \A b \in Bucket : stamp'[b] = 0
    BY <1>4, <2>2
  <2> QED
    BY <1>2, <1>5, <2>1, <2>2, <2>3, SizeAssumption
<1>7. CASE next # 0
  <2>1. bucketEpoch' = bucketEpoch + 1 /\ bucketEpoch + 1 < BucketEpochs
    BY <1>1, <1>2, <1>7 DEF ResetScratch
  <2>2. stamp' = stamp
    BY <1>7 DEF ResetScratch
  <2>3. stamp' \in [Bucket -> 0..(BucketEpochs - 1)]
    BY <2>2 DEF TypeOK
  <2> QED
    BY <1>2, <1>3, <1>4, <1>5, <2>1, <2>2, <2>3
<1> QED
  BY <1>6, <1>7

(* Marking adds to the set and keeps the cells behind the epoch.           *)
LEMMA MarkFacts ==
  ASSUME TypeOK, MarksInv, NEW S \in SUBSET File, Mark(S), UNCHANGED epoch
  PROVE  /\ Marked' = Marked \union S
         /\ gen' \in [File -> 0..(IdEpochs - 1)]
         /\ \A f \in File : gen'[f] <= epoch'
<1>1. epoch \in 0..(IdEpochs - 1) /\ epoch \in Nat
  BY SizeAssumption DEF TypeOK
<1> QED
  BY <1>1 DEF Mark, Marked, TypeOK, MarksInv
-----------------------------------------------------------------------------
Inv == TypeOK /\ CacheInv

LEMMA InvInit == Init => Inv
<1> SUFFICES ASSUME Init PROVE Inv
  OBVIOUS
<1>1. TypeOK
  <2>1. 0 \in Index /\ 0 \in 0..IndexCount
    BY SizeAssumption DEF Index
  <2>2. \A h \in Hash : intern[h] = None /\ overflow[h] = None
    BY DEF Init
  <2> QED
    BY <2>1, SizeAssumption DEF Init, TypeOK
<1>2. MarksInv
  BY DEF Init, MarksInv
<1>3. TablesInv /\ ClosuresInv /\ OwnersInv /\ WalkInv
  BY DEF Init, TablesInv, ClosuresInv, OwnersInv, WalkInv
<1> QED
  BY <1>1, <1>2, <1>3 DEF Inv, CacheInv

(* The tables, the closures and the names are as before: so is what the    *)
(* invariant says of them.                                                 *)
LEMMA StoreKept ==
  ASSUME Inv, UNCHANGED <<bound, intern, overflow, closure>>
  PROVE  TablesInv' /\ ClosuresInv' /\ StoredBuckets' = StoredBuckets /\ Interned' = Interned
BY DEF Inv, CacheInv, TablesInv, ClosuresInv, StoredBuckets, Interned

(* Files a walk may collect have cells in gen.                             *)
LEMMA BeginDfsStep ==
  ASSUME Inv, NEW abs \in File, BeginDfs(abs)
  PROVE  Inv'
<1>1. TypeOK /\ MarksInv /\ {abs} \in SUBSET File /\ ResetAndAdd({abs}) /\ ResetScratch(abs)
  BY DEF Inv, CacheInv, BeginDfs
<1>2. /\ Marked' = {abs} /\ genLen' \in Nat /\ gen' \in [File -> 0..(IdEpochs - 1)]
      /\ epoch' \in 0..(IdEpochs - 1) /\ (\A f \in File : gen'[f] <= epoch') /\ bound <= genLen'
  BY <1>1, ResetFacts
<1>3. /\ selfBucket' = BucketOf[abs] /\ selfBucket' \in Index
      /\ bucketEpoch' \in 1..(BucketEpochs - 1)
      /\ stamp' \in [Bucket -> 0..(BucketEpochs - 1)]
      /\ \A b \in Bucket : stamp'[b] < bucketEpoch'
      /\ \A b \in Bucket : stamp'[b] # 0 => b \in StoredBuckets
  BY <1>1, ResetScratchFacts
<1>4. /\ UNCHANGED <<bound, intern, overflow, closure, block, todo, done, out>>
      /\ scratch' = [f \in File |-> 0] /\ pc' = "dfs" /\ self' = abs /\ owners' = {abs}
      /\ pc = "idle" /\ abs \in Interned
  BY DEF BeginDfs, tables
<1>5. TablesInv' /\ ClosuresInv' /\ StoredBuckets' = StoredBuckets /\ Interned' = Interned
  BY <1>4, StoreKept
<1>6. TypeOK'
  <2>1. self' \in 0..MaxFile /\ owners' \subseteq File
    BY <1>4, SizeAssumption DEF File
  <2>2. scratch' \in [File -> Nat]
    BY <1>4
  <2> QED
    BY <1>1, <1>2, <1>3, <1>4, <2>1, <2>2 DEF TypeOK
<1>7. MarksInv'
  BY <1>2, <1>3, <1>5, <1>6 DEF MarksInv, TypeOK
<1>8. OwnersInv'
  <2>1. todo = {}
    BY <1>4 DEF Inv, CacheInv, OwnersInv
  <2> QED
    BY <1>2, <1>4, <1>5, <2>1 DEF OwnersInv
<1>9. WalkInv'
  <2>1. ScratchExact'
    BY <1>2, <1>4 DEF ScratchExact
  <2>2. \A b \in Bucket : stamp'[b] # bucketEpoch'
    BY <1>3, SizeAssumption
  <2> QED
    BY <1>3, <1>4, <2>1, <2>2 DEF WalkInv
<1> QED
  BY <1>5, <1>6, <1>7, <1>8, <1>9 DEF Inv, CacheInv

(* spliceOne: the file is in the scratch once, unless it was there or is   *)
(* the walk's own.                                                         *)
LEMMA SpliceOneStep ==
  ASSUME Inv, pc = "dfs", NEW f \in Interned, SpliceOneInto(f),
         UNCHANGED <<bound, genLen, epoch, intern, overflow, stamp, bucketEpoch, selfBucket,
                     block, closure, pc, self, owners, done, out>>,
         todo' \subseteq StoredBuckets, UNION todo' \subseteq Interned
  PROVE  Inv' /\ Marked' = Marked \union {f}
<1>1. TypeOK /\ MarksInv /\ {f} \in SUBSET File /\ f \in File
  BY DEF Inv, CacheInv, Interned
<1>2. /\ Marked' = Marked \union {f}
      /\ gen' \in [File -> 0..(IdEpochs - 1)]
      /\ \A g \in File : gen'[g] <= epoch'
  BY <1>1, MarkFacts DEF SpliceOneInto
<1>3. TablesInv' /\ ClosuresInv' /\ StoredBuckets' = StoredBuckets /\ Interned' = Interned
  BY StoreKept
<1>4. scratch' \in [File -> Nat]
  BY <1>1 DEF SpliceOneInto, TypeOK
<1>5. TypeOK'
  <2>1. todo' \subseteq Bucket
    BY DEF StoredBuckets
  <2> QED
    BY <1>1, <1>2, <1>4, <2>1 DEF TypeOK
<1>6. MarksInv'
  BY <1>1, <1>2, <1>3 DEF MarksInv
<1>7. OwnersInv'
  BY <1>2, <1>3 DEF Inv, CacheInv, OwnersInv
<1>8. ScratchExact'
  <2>1. ScratchExact /\ self \in Marked
    BY DEF Inv, CacheInv, WalkInv, OwnersInv
  <2>2. CASE f \in Marked
    <3>1. scratch' = scratch /\ Marked' = Marked
      BY <1>2, <2>2 DEF SpliceOneInto, Marked
    <3> QED
      BY <2>1, <3>1 DEF ScratchExact
  <2>3. CASE f \notin Marked
    <3>1. scratch' = [scratch EXCEPT ![f] = @ + 1] /\ f # self
      BY <1>1, <2>1, <2>3 DEF SpliceOneInto, Marked
    <3>2. scratch[f] = 0
      BY <1>1, <2>1, <2>3 DEF ScratchExact
    <3>3. scratch \in [File -> Nat]
      BY <1>1 DEF TypeOK
    <3> QED
      BY <1>1, <1>2, <2>1, <2>3, <3>1, <3>2, <3>3 DEF ScratchExact
  <2> QED
    BY <2>2, <2>3
<1>9. WalkInv'
  <2>1. /\ selfBucket = BucketOf[self]
        /\ \A b \in Bucket : stamp[b] = bucketEpoch => b \subseteq Marked
    BY DEF Inv, CacheInv, WalkInv
  <2> QED
    BY <1>2, <1>8, <2>1 DEF WalkInv
<1> QED
  BY <1>2, <1>3, <1>5, <1>6, <1>7, <1>9 DEF Inv, CacheInv

LEMMA SpliceInputStep ==
  ASSUME Inv, NEW f \in File, SpliceInput(f)
  PROVE  Inv' /\ Marked' = Marked \union {f}
<1>1. /\ pc = "dfs" /\ f \in Interned /\ SpliceOneInto(f)
      /\ UNCHANGED <<bound, genLen, epoch, intern, overflow, stamp, bucketEpoch, selfBucket,
                     block, closure, pc, self, owners, todo, done, out>>
  BY DEF SpliceInput, tables, marks
<1>2. todo' \subseteq StoredBuckets /\ UNION todo' \subseteq Interned
  BY <1>1 DEF Inv, CacheInv, OwnersInv
<1> QED
  BY <1>1, <1>2, SpliceOneStep

(* A stored closure: a record, of interned names and interned buckets.     *)
LEMMA StoredClosure ==
  ASSUME Inv, NEW ch \in File, closure[ch] # None
  PROVE  /\ closure[ch].self \in Interned
         /\ closure[ch].buckets \subseteq StoredBuckets
         /\ UNION closure[ch].buckets \subseteq Interned
         /\ ch \in Interned
BY DEF Inv, CacheInv, ClosuresInv, Members

LEMMA SpliceChildStep ==
  ASSUME Inv, NEW ch \in File, SpliceChild(ch)
  PROVE  Inv' /\ Marked' = Marked \union {closure[ch].self}
<1>1. /\ pc = "dfs" /\ closure[ch] # None /\ SpliceOneInto(closure[ch].self)
      /\ todo' = closure[ch].buckets
      /\ UNCHANGED <<bound, genLen, epoch, intern, overflow, stamp, bucketEpoch, selfBucket,
                     block, closure, pc, self, owners, done, out>>
  BY DEF SpliceChild, tables, marks
<1> QED
  BY <1>1, StoredClosure, SpliceOneStep

(* Both paths of spliceBucket append exactly the files not yet collected:  *)
(* the fast path because none of them is.                                  *)
LEMMA SpliceBucketAppends ==
  ASSUME Inv, NEW b \in Bucket, SpliceBucket(b), stamp[b] # bucketEpoch
  PROVE  /\ Mark(b)
         /\ \A f \in File : scratch'[f] = IF f \in b /\ f \notin Marked THEN scratch[f] + 1
                                                                        ELSE scratch[f]
         /\ scratch' \in [File -> Nat]
<1> DEFINE i == BucketOf[CHOOSE f \in b : TRUE]
           fast == InScratch(i) = {} /\ i # selfBucket
<1>1. /\ Mark(b) /\ pc = "dfs"
      /\ scratch' = [f \in File |-> IF f \in b /\ (fast \/ gen[f] # epoch)
                                    THEN scratch[f] + 1 ELSE scratch[f]]
  BY DEF SpliceBucket, FirstVisit
<1>2. ScratchExact /\ selfBucket = BucketOf[self] /\ scratch \in [File -> Nat]
  BY <1>1 DEF Inv, CacheInv, WalkInv, TypeOK
<1>3. fast => \A f \in b : f \notin Marked
  <2> SUFFICES ASSUME fast, NEW f \in b, f \in Marked PROVE FALSE
    OBVIOUS
  <2>1. f \in File /\ BucketOf[f] = i
    BY BucketFacts
  <2>2. f # self
    BY <1>2, <2>1
  <2>3. scratch[f] = 1
    BY <1>2, <2>1, <2>2 DEF ScratchExact
  <2>4. f \in InScratch(i)
    BY <2>1, <2>3 DEF InScratch
  <2> QED
    BY <2>4
<1>4. \A f \in File : (f \in b /\ (fast \/ gen[f] # epoch)) <=> (f \in b /\ f \notin Marked)
  BY <1>3 DEF Marked
<1> HIDE DEF fast
<1> QED
  BY <1>1, <1>2, <1>4

LEMMA SpliceBucketStep ==
  ASSUME Inv, NEW b \in Bucket, SpliceBucket(b)
  PROVE  Inv' /\ Marked' = Marked \union b
<1>1. /\ pc = "dfs" /\ b \in todo /\ todo' = todo \ {b}
      /\ stamp' = [stamp EXCEPT ![b] = bucketEpoch]
      /\ UNCHANGED <<bound, genLen, epoch, intern, overflow, bucketEpoch, selfBucket, block, closure,
                     pc, self, owners, done, out>>
  BY DEF SpliceBucket, tables
<1>2. TypeOK /\ MarksInv /\ OwnersInv /\ ScratchExact /\ selfBucket = BucketOf[self]
      /\ \A c \in Bucket : stamp[c] = bucketEpoch => c \subseteq Marked
  BY <1>1 DEF Inv, CacheInv, WalkInv
<1>3. b \in SUBSET File
  BY BucketFacts
<1>4. /\ Marked' = Marked \union b
      /\ gen' \in [File -> 0..(IdEpochs - 1)]
      /\ \A f \in File : gen'[f] <= epoch'
      /\ scratch' \in [File -> Nat]
      /\ \A f \in File : scratch'[f] = IF f \in b /\ f \notin Marked THEN scratch[f] + 1
                                                                     ELSE scratch[f]
  <2>1. CASE stamp[b] = bucketEpoch
    <3>1. UNCHANGED <<gen, scratch>>
      BY <2>1 DEF SpliceBucket, FirstVisit
    <3>2. b \subseteq Marked
      BY <1>2, <2>1
    <3>3. Marked' = Marked
      BY <1>1, <3>1 DEF Marked
    <3> QED
      BY <1>1, <1>2, <3>1, <3>2, <3>3 DEF TypeOK, MarksInv
  <2>2. CASE stamp[b] # bucketEpoch
    BY <1>1, <1>2, <1>3, <2>2, SpliceBucketAppends, MarkFacts
  <2> QED
    BY <2>1, <2>2
<1>5. TablesInv' /\ ClosuresInv' /\ StoredBuckets' = StoredBuckets /\ Interned' = Interned
  BY <1>1, StoreKept
<1>6. bucketEpoch \in 0..(BucketEpochs - 1) /\ bucketEpoch \in Nat
  BY <1>2, SizeAssumption DEF TypeOK
<1>7. TypeOK'
  <2>1. stamp' \in [Bucket -> 0..(BucketEpochs - 1)]
    BY <1>1, <1>2, <1>6 DEF TypeOK
  <2> QED
    BY <1>1, <1>2, <1>4, <2>1 DEF TypeOK
<1>8. MarksInv'
  <2>1. b \in StoredBuckets
    BY <1>1, <1>2 DEF OwnersInv
  <2>2. \A c \in Bucket : stamp'[c] = IF c = b THEN bucketEpoch ELSE stamp[c]
    BY <1>1, <1>2 DEF TypeOK
  <2> QED
    BY <1>1, <1>2, <1>4, <1>5, <1>6, <2>1, <2>2 DEF MarksInv
<1>9. OwnersInv'
  <2>1. b \subseteq Interned
    BY <1>1, <1>2 DEF OwnersInv
  <2> QED
    BY <1>1, <1>2, <1>4, <1>5, <2>1 DEF OwnersInv
<1>10. ScratchExact'
  <2>1. self \in Marked
    BY <1>1, <1>2 DEF OwnersInv
  <2> QED
    BY <1>1, <1>2, <1>4, <2>1 DEF ScratchExact
<1>11. WalkInv'
  <2>1. \A c \in Bucket : stamp'[c] = bucketEpoch => c = b \/ stamp[c] = bucketEpoch
    BY <1>1, <1>2 DEF TypeOK
  <2> QED
    BY <1>1, <1>2, <1>4, <1>10, <2>1 DEF WalkInv
<1> QED
  BY <1>4, <1>5, <1>7, <1>8, <1>9, <1>11 DEF Inv, CacheInv

LEMMA EndDfsStep == ASSUME Inv, EndDfs PROVE Inv'
<1>1. /\ pc = "dfs" /\ todo = {} /\ pc' = "store" /\ done' = 0 /\ out' = {}
      /\ UNCHANGED <<bound, genLen, gen, epoch, intern, overflow, stamp, bucketEpoch, selfBucket,
                     scratch, block, closure, self, owners, todo>>
  BY DEF EndDfs, idset, tables, marks
<1>2. Marked' = Marked
  BY <1>1 DEF Marked
<1>3. TablesInv' /\ ClosuresInv' /\ StoredBuckets' = StoredBuckets /\ Interned' = Interned
  BY <1>1, StoreKept
<1>4. TypeOK'
  BY <1>1, SizeAssumption DEF Inv, TypeOK
<1>5. MarksInv'
  BY <1>1, <1>3 DEF Inv, CacheInv, MarksInv
<1>6. OwnersInv'
  BY <1>1, <1>2, <1>3 DEF Inv, CacheInv, OwnersInv
<1>7. WalkInv'
  <2>1. ScratchExact'
    BY <1>1, <1>2 DEF Inv, CacheInv, WalkInv, ScratchExact
  <2>2. 0..(0 - 1) = {}
    OBVIOUS
  <2> QED
    BY <1>1, <2>1, <2>2 DEF WalkInv
<1> QED
  BY <1>3, <1>4, <1>5, <1>6, <1>7 DEF Inv, CacheInv

LEMMA BeginSccStep ==
  ASSUME Inv, NEW S \in SUBSET File, NEW first \in File, BeginScc(S, first)
  PROVE  Inv' /\ Marked' = S
<1>1. TypeOK /\ MarksInv /\ ResetAndAdd(S)
  BY DEF Inv, CacheInv, BeginScc
<1>2. /\ Marked' = S /\ genLen' \in Nat /\ gen' \in [File -> 0..(IdEpochs - 1)]
      /\ epoch' \in 0..(IdEpochs - 1) /\ (\A f \in File : gen'[f] <= epoch') /\ bound <= genLen'
  BY <1>1, ResetFacts
<1>3. /\ UNCHANGED <<bound, intern, overflow, stamp, bucketEpoch, selfBucket, closure, scratch,
                     todo, done, out>>
      /\ block' = [f \in File |-> IF f \in S THEN 1 ELSE 0]
      /\ pc' = "scc" /\ self' = first /\ owners' = S
      /\ pc = "idle" /\ S \subseteq Interned /\ first \in S
  BY DEF BeginScc, tables, marks
<1>4. TablesInv' /\ ClosuresInv' /\ StoredBuckets' = StoredBuckets /\ Interned' = Interned
  BY <1>3, StoreKept
<1>5. TypeOK'
  <2>1. self' \in 0..MaxFile
    BY <1>3, SizeAssumption DEF File
  <2>2. block' \in [File -> Nat]
    BY <1>3
  <2> QED
    BY <1>1, <1>2, <1>3, <2>1, <2>2 DEF TypeOK
<1>6. MarksInv'
  BY <1>1, <1>2, <1>3, <1>4 DEF MarksInv
<1>7. OwnersInv'
  <2>1. todo = {}
    BY <1>3 DEF Inv, CacheInv, OwnersInv
  <2> QED
    BY <1>2, <1>3, <1>4, <2>1 DEF OwnersInv
<1>8. WalkInv'
  BY <1>2, <1>3 DEF WalkInv
<1> QED
  BY <1>2, <1>4, <1>5, <1>6, <1>7, <1>8 DEF Inv, CacheInv

LEMMA SpliceFlatStep ==
  ASSUME Inv, pc = "scc", NEW S \in SUBSET Interned, SpliceFlat(S)
  PROVE  Inv' /\ Marked' = Marked \union S
<1>1. TypeOK /\ MarksInv /\ S \in SUBSET File
  BY DEF Inv, CacheInv, Interned
<1>2. /\ Mark(S)
      /\ block' = [f \in File |-> IF f \in S /\ gen[f] # epoch THEN block[f] + 1 ELSE block[f]]
      /\ UNCHANGED <<bound, genLen, epoch, intern, overflow, stamp, bucketEpoch, selfBucket,
                     scratch, closure, pc, self, owners, todo, done, out>>
  BY DEF SpliceFlat, tables, marks
<1>3. /\ Marked' = Marked \union S
      /\ gen' \in [File -> 0..(IdEpochs - 1)]
      /\ \A f \in File : gen'[f] <= epoch'
  BY <1>1, <1>2, MarkFacts
<1>4. TablesInv' /\ ClosuresInv' /\ StoredBuckets' = StoredBuckets /\ Interned' = Interned
  BY <1>2, StoreKept
<1>5. TypeOK'
  <2>1. block' \in [File -> Nat]
    BY <1>1, <1>2 DEF TypeOK
  <2> QED
    BY <1>1, <1>2, <1>3, <2>1 DEF TypeOK
<1>6. MarksInv'
  BY <1>1, <1>2, <1>3, <1>4 DEF MarksInv
<1>7. OwnersInv'
  BY <1>2, <1>3, <1>4 DEF Inv, CacheInv, OwnersInv
<1>8. WalkInv'
  <2>1. \A f \in File : block[f] = IF f \in Marked THEN 1 ELSE 0
    BY DEF Inv, CacheInv, WalkInv
  <2>2. \A f \in File : f \in Marked <=> gen[f] = epoch
    BY DEF Marked
  <2>3. \A f \in File : block'[f] = IF f \in Marked' THEN 1 ELSE 0
    BY <1>2, <1>3, <2>1, <2>2
  <2> QED
    BY <1>2, <2>3 DEF WalkInv
<1> QED
  BY <1>3, <1>4, <1>5, <1>6, <1>7, <1>8 DEF Inv, CacheInv

LEMMA EndSccStep == ASSUME Inv, EndScc PROVE Inv'
<1>1. /\ pc = "scc" /\ pc' = "store" /\ done' = 0 /\ out' = {}
      /\ scratch' = [f \in File |-> IF f = self THEN block[f] - 1 ELSE block[f]]
      /\ ResetScratch(self)
      /\ UNCHANGED <<bound, genLen, gen, epoch, intern, overflow, block, closure, self, owners, todo>>
  BY DEF EndScc, idset, tables
<1>2. /\ TypeOK /\ MarksInv /\ OwnersInv
      /\ \A f \in File : block[f] = IF f \in Marked THEN 1 ELSE 0
  BY <1>1 DEF Inv, CacheInv, WalkInv
<1>3. self \in Marked /\ self \in File
  BY <1>1, <1>2 DEF OwnersInv, Marked
<1>4. /\ selfBucket' = BucketOf[self] /\ selfBucket' \in Index
      /\ bucketEpoch' \in 1..(BucketEpochs - 1)
      /\ stamp' \in [Bucket -> 0..(BucketEpochs - 1)]
      /\ \A b \in Bucket : stamp'[b] < bucketEpoch'
      /\ \A b \in Bucket : stamp'[b] # 0 => b \in StoredBuckets
  BY <1>1, <1>2, <1>3, ResetScratchFacts
<1>5. Marked' = Marked
  BY <1>1 DEF Marked
<1>6. TablesInv' /\ ClosuresInv' /\ StoredBuckets' = StoredBuckets /\ Interned' = Interned
  BY <1>1, StoreKept
<1>7. ScratchExact'
  BY <1>1, <1>2, <1>3, <1>5 DEF ScratchExact
<1>8. TypeOK'
  <2>1. scratch' \in [File -> Nat]
    BY <1>1, <1>2, <1>3
  <2>2. done' \in 0..IndexCount
    BY <1>1, SizeAssumption
  <2> QED
    BY <1>1, <1>2, <1>4, <2>1, <2>2 DEF TypeOK
<1>9. MarksInv'
  <2>1. \A b \in Bucket : stamp'[b] <= bucketEpoch'
    BY <1>4, SizeAssumption
  <2> QED
    BY <1>1, <1>2, <1>4, <1>6, <2>1 DEF MarksInv
<1>10. OwnersInv'
  BY <1>1, <1>2, <1>5, <1>6 DEF OwnersInv
<1>11. WalkInv'
  <2>1. 0..(0 - 1) = {}
    OBVIOUS
  <2> QED
    BY <1>1, <1>7, <2>1 DEF WalkInv
<1> QED
  BY <1>6, <1>8, <1>9, <1>10, <1>11 DEF Inv, CacheInv

(* internBucket answers with the bucket it was asked for, and no bucket    *)
(* leaves the tables.                                                      *)
LEMMA InternFacts ==
  ASSUME Inv, InternBucket
  PROVE  /\ InScratch(done) \in Bucket
         /\ out' = out \union {InScratch(done)}
         /\ InScratch(done) \in StoredBuckets'
         /\ StoredBuckets \subseteq StoredBuckets'
         /\ TablesInv'
         /\ intern' \in [Hash -> Bucket \union {None}]
         /\ overflow' \in [Hash -> Bucket \union {None}]
         /\ stamp' \in [Bucket -> 0..(BucketEpochs - 1)]
         /\ \A c \in Bucket : stamp'[c] = stamp[c] \/ stamp'[c] = 0
<1> DEFINE b == InScratch(done)
           first == intern[Hash1[b]]
           second == overflow[Hash2[b]]
<1>1. b \in Bucket
  BY ScratchBucket DEF InternBucket
<1>2. TypeOK /\ TablesInv
  BY DEF Inv, CacheInv
<1>3. Hash1[b] \in Hash /\ Hash2[b] \in Hash
  BY <1>1, HashAssumption
<1>4. b # None /\ \A c \in Bucket : c # None
  BY <1>1, NoneAssumption DEF Bucket
<1>5. 0 \in 0..(BucketEpochs - 1)
  BY SizeAssumption
<1>6. CASE first # None /\ Hash2[first] = Hash2[b] /\ out' = out \union {first}
           /\ UNCHANGED <<intern, overflow, stamp>>
  <2>1. first \in Bucket /\ Hash1[first] = Hash1[b]
    BY <1>2, <1>3, <1>6 DEF TypeOK, TablesInv
  <2>2. first = b
    BY <1>1, <1>6, <2>1, HashAssumption
  <2>3. b \in StoredBuckets
    BY <1>1, <2>2 DEF StoredBuckets
  <2>4. StoredBuckets' = StoredBuckets /\ TablesInv'
    BY <1>2, <1>6 DEF StoredBuckets, TablesInv
  <2> QED
    BY <1>1, <1>2, <1>6, <2>2, <2>3, <2>4 DEF TypeOK
<1>7. CASE second # None /\ Hash1[second] = Hash1[b] /\ out' = out \union {second}
           /\ UNCHANGED <<intern, overflow, stamp>>
  <2>1. second \in Bucket /\ Hash2[second] = Hash2[b]
    BY <1>2, <1>3, <1>7 DEF TypeOK, TablesInv
  <2>2. second = b
    BY <1>1, <1>7, <2>1, HashAssumption
  <2>3. b \in StoredBuckets
    BY <1>1, <2>2 DEF StoredBuckets
  <2>4. StoredBuckets' = StoredBuckets /\ TablesInv'
    BY <1>2, <1>7 DEF StoredBuckets, TablesInv
  <2> QED
    BY <1>1, <1>2, <1>7, <2>2, <2>3, <2>4 DEF TypeOK
<1>8. CASE second = None /\ overflow' = [overflow EXCEPT ![Hash2[b]] = b]
           /\ stamp' = [stamp EXCEPT ![b] = 0] /\ out' = out \union {b} /\ UNCHANGED intern
  <2> HIDE DEF b
  <2>1. \A h \in Hash : overflow'[h] = IF h = Hash2[b] THEN b ELSE overflow[h]
    BY <1>2, <1>8 DEF TypeOK
  <2>2. b \in StoredBuckets'
    BY <1>1, <1>3, <2>1 DEF StoredBuckets
  <2>3. StoredBuckets \subseteq StoredBuckets'
    BY <1>3, <1>4, <1>8, <2>1, HashAssumption DEF StoredBuckets
  <2>4. TablesInv'
    BY <1>2, <1>8, <2>1 DEF TablesInv
  <2>5. overflow' \in [Hash -> Bucket \union {None}] /\ stamp' \in [Bucket -> 0..(BucketEpochs - 1)]
    BY <1>1, <1>2, <1>3, <1>5, <1>8 DEF TypeOK
  <2>6. \A c \in Bucket : stamp'[c] = stamp[c] \/ stamp'[c] = 0
    BY <1>2, <1>8 DEF TypeOK
  <2> QED
    BY <1>1, <1>2, <1>8, <2>2, <2>3, <2>4, <2>5, <2>6 DEF TypeOK, b
<1>9. CASE first = None /\ intern' = [intern EXCEPT ![Hash1[b]] = b]
           /\ stamp' = [stamp EXCEPT ![b] = 0] /\ out' = out \union {b} /\ UNCHANGED overflow
  <2> HIDE DEF b
  <2>1. \A h \in Hash : intern'[h] = IF h = Hash1[b] THEN b ELSE intern[h]
    BY <1>2, <1>9 DEF TypeOK
  <2>2. b \in StoredBuckets'
    BY <1>1, <1>3, <2>1 DEF StoredBuckets
  <2>3. StoredBuckets \subseteq StoredBuckets'
    BY <1>3, <1>4, <1>9, <2>1, HashAssumption DEF StoredBuckets
  <2>4. TablesInv'
    BY <1>2, <1>9, <2>1 DEF TablesInv
  <2>5. intern' \in [Hash -> Bucket \union {None}] /\ stamp' \in [Bucket -> 0..(BucketEpochs - 1)]
    BY <1>1, <1>2, <1>3, <1>5, <1>9 DEF TypeOK
  <2>6. \A c \in Bucket : stamp'[c] = stamp[c] \/ stamp'[c] = 0
    BY <1>2, <1>9 DEF TypeOK
  <2> QED
    BY <1>1, <1>2, <1>9, <2>2, <2>3, <2>4, <2>5, <2>6 DEF TypeOK, b
<1> QED
  BY <1>6, <1>7, <1>8, <1>9 DEF InternBucket

(* One more index has been stored.                                         *)
LEMMA OutGrows ==
  ASSUME NEW T(_), NEW n \in Nat
  PROVE  {T(j) : j \in 0..((n + 1) - 1)} \ {{}}
           = ({T(j) : j \in 0..(n - 1)} \ {{}}) \union ({T(n)} \ {{}})
<1>1. 0..((n + 1) - 1) = 0..(n - 1) \union {n}
  OBVIOUS
<1> QED
  BY <1>1

LEMMA StoreStep == ASSUME Inv, InternBucket \/ SkipIndex PROVE Inv'
<1>1. /\ pc = "store" /\ done \in Index /\ done' = done + 1
      /\ UNCHANGED <<bound, genLen, gen, epoch, bucketEpoch, selfBucket, scratch, block, closure, pc,
                     self, owners, todo>>
  BY DEF InternBucket, SkipIndex, StoreNext, idset
<1>2. /\ TypeOK /\ MarksInv /\ OwnersInv /\ ClosuresInv /\ ScratchExact
      /\ out = {InScratch(j) : j \in 0..(done - 1)} \ {{}}
      /\ out \subseteq StoredBuckets
  BY <1>1 DEF Inv, CacheInv, WalkInv
<1>3. /\ out' = out \union ({InScratch(done)} \ {{}})
      /\ out' \subseteq StoredBuckets'
      /\ StoredBuckets \subseteq StoredBuckets'
      /\ TablesInv'
      /\ intern' \in [Hash -> Bucket \union {None}]
      /\ overflow' \in [Hash -> Bucket \union {None}]
      /\ stamp' \in [Bucket -> 0..(BucketEpochs - 1)]
      /\ \A c \in Bucket : stamp'[c] = stamp[c] \/ stamp'[c] = 0
  <2>1. CASE InternBucket
    <3>1. InScratch(done) # {}
      BY <2>1 DEF InternBucket
    <3> QED
      BY <1>2, <2>1, <3>1, InternFacts
  <2>2. CASE SkipIndex
    <3>1. InScratch(done) = {} /\ UNCHANGED <<intern, overflow, stamp, out>>
      BY <2>2 DEF SkipIndex
    <3>2. StoredBuckets' = StoredBuckets /\ TablesInv'
      BY <3>1 DEF StoredBuckets, TablesInv, Inv, CacheInv
    <3> QED
      BY <1>2, <3>1, <3>2 DEF TypeOK
  <2> QED
    BY <2>1, <2>2
<1>4. Marked' = Marked /\ Interned' = Interned
  BY <1>1 DEF Marked, Interned
<1>5. done \in Nat /\ done + 1 \in 0..IndexCount
  BY <1>1, SizeAssumption DEF Index
<1>6. TypeOK'
  <2>1. out' \subseteq Bucket
    BY <1>3 DEF StoredBuckets
  <2> QED
    BY <1>1, <1>2, <1>3, <1>5, <2>1 DEF TypeOK
<1>7. MarksInv'
  <2>1. bucketEpoch \in Nat
    BY <1>2, SizeAssumption DEF TypeOK
  <2> QED
    BY <1>1, <1>2, <1>3, <2>1 DEF MarksInv
<1>8. ClosuresInv'
  BY <1>1, <1>2, <1>3, <1>4 DEF ClosuresInv
<1>9. OwnersInv'
  BY <1>1, <1>2, <1>3, <1>4 DEF OwnersInv
<1>10. WalkInv'
  <2>1. ScratchExact'
    BY <1>1, <1>2, <1>4 DEF ScratchExact
  <2>2. \A j : InScratch(j)' = InScratch(j)
    BY <1>1 DEF InScratch
  <2>3. out' = {InScratch(j) : j \in 0..((done + 1) - 1)} \ {{}}
    BY <1>2, <1>3, <1>5, OutGrows
  <2>4. out' = {InScratch(j)' : j \in 0..(done' - 1)} \ {{}}
    BY <1>1, <2>2, <2>3
  <2> QED
    BY <1>1, <1>3, <2>1, <2>4 DEF WalkInv
<1> QED
  BY <1>3, <1>6, <1>7, <1>8, <1>9, <1>10 DEF Inv, CacheInv

LEMMA ThrowStep == ASSUME Inv, ThrowCollision PROVE Inv'
<1>1. /\ pc = "store" /\ pc' = "thrown"
      /\ UNCHANGED <<bound, genLen, gen, epoch, intern, overflow, stamp, bucketEpoch, selfBucket,
                     scratch, block, closure, self, owners, todo, done, out>>
  BY DEF ThrowCollision, idset, tables, marks
<1>2. TablesInv' /\ ClosuresInv' /\ StoredBuckets' = StoredBuckets /\ Interned' = Interned
  BY <1>1, StoreKept
<1>3. Marked' = Marked
  BY <1>1 DEF Marked
<1>4. TypeOK' /\ MarksInv'
  BY <1>1, <1>2 DEF Inv, CacheInv, TypeOK, MarksInv
<1>5. OwnersInv' /\ WalkInv'
  BY <1>1, <1>2, <1>3 DEF Inv, CacheInv, OwnersInv, WalkInv
<1> QED
  BY <1>2, <1>4, <1>5 DEF Inv, CacheInv

(* At the end of storeScratch the closure is the set that was collected,   *)
(* each file once.                                                         *)
LEMMA StoredWhole ==
  ASSUME Inv, pc = "store", done = IndexCount
  PROVE  /\ {self} \union UNION out = Marked
         /\ self \in File
         /\ \A b, c \in out : b # c => b \intersect c = {}
         /\ \A b \in out : self \notin b
<1>1. /\ TypeOK /\ ScratchExact /\ self \in Marked
      /\ out = {InScratch(j) : j \in 0..(done - 1)} \ {{}}
  BY DEF Inv, CacheInv, WalkInv, OwnersInv
<1>2. self \in File
  BY <1>1 DEF Marked
<1>3. \A f \in File : f \in Marked /\ f # self <=> f \in InScratch(BucketOf[f])
  BY <1>1 DEF ScratchExact, InScratch
<1>4. \A f \in File : BucketOf[f] \in 0..(done - 1)
  BY IndexAssumption, SizeAssumption DEF Index
<1>5. \A f \in Marked : f # self => f \in UNION out
  <2> SUFFICES ASSUME NEW f \in Marked, f # self PROVE f \in UNION out
    OBVIOUS
  <2>1. f \in File /\ f \in InScratch(BucketOf[f])
    BY <1>3 DEF Marked
  <2>2. InScratch(BucketOf[f]) \in out
    BY <1>1, <1>4, <2>1
  <2> QED
    BY <2>1, <2>2
<1>6. \A b \in out : \A f \in b : f \in Marked /\ f # self
  <2> SUFFICES ASSUME NEW b \in out, NEW f \in b PROVE f \in Marked /\ f # self
    OBVIOUS
  <2>1. PICK j \in 0..(done - 1) : b = InScratch(j)
    BY <1>1
  <2>2. f \in File /\ BucketOf[f] = j
    BY <2>1 DEF InScratch
  <2> QED
    BY <1>3, <2>1, <2>2
<1>7. \A b, c \in out : b # c => b \intersect c = {}
  BY <1>1, ScratchDisjoint
<1>8. UNION out \subseteq Marked
  BY <1>6
<1>9. Marked \subseteq {self} \union UNION out
  BY <1>5
<1>10. {self} \union UNION out = Marked
  BY <1>1, <1>8, <1>9
<1>11. \A b \in out : self \notin b
  BY <1>6
<1> QED
  BY <1>2, <1>7, <1>10, <1>11

LEMMA PutClosureStep == ASSUME Inv, PutClosure PROVE Inv'
<1>1. /\ pc = "store" /\ done = IndexCount /\ pc' = "idle" /\ self' = 0 /\ owners' = {}
      /\ done' = 0 /\ out' = {} /\ block' = [f \in File |-> 0]
      /\ closure' = [f \in File |-> IF f \in owners THEN [self |-> self, buckets |-> out]
                                                    ELSE closure[f]]
      /\ UNCHANGED <<bound, genLen, gen, epoch, intern, overflow, stamp, bucketEpoch, selfBucket,
                     scratch, todo>>
  BY DEF PutClosure, idset, tables, marks
<1>2. /\ TypeOK /\ MarksInv /\ TablesInv /\ ClosuresInv /\ OwnersInv
      /\ out \subseteq StoredBuckets
  BY <1>1 DEF Inv, CacheInv, WalkInv
<1>3. /\ {self} \union UNION out = Marked
      /\ self \in File
      /\ \A b, c \in out : b # c => b \intersect c = {}
      /\ \A b \in out : self \notin b
  BY <1>1, StoredWhole
<1>4. StoredBuckets' = StoredBuckets /\ Interned' = Interned /\ Marked' = Marked
  BY <1>1 DEF StoredBuckets, Interned, Marked
<1>5. [self |-> self, buckets |-> out] \in ClosureRecord
  BY <1>2, <1>3 DEF ClosureRecord, TypeOK
<1>6. TypeOK'
  <2>1. closure' \in [File -> ClosureRecord \union {None}]
    BY <1>1, <1>2, <1>5 DEF TypeOK
  <2>2. 0 \in 0..MaxFile /\ 0 \in 0..IndexCount /\ block' \in [File -> Nat]
    BY <1>1, SizeAssumption
  <2> QED
    BY <1>1, <1>2, <2>1, <2>2 DEF TypeOK
<1>7. MarksInv' /\ TablesInv'
  BY <1>1, <1>2, <1>4 DEF MarksInv, TablesInv
<1>8. ClosuresInv'
  <2> SUFFICES ASSUME NEW f \in File, closure'[f] # None
               PROVE  /\ f \in Interned
                      /\ Members(closure'[f]) \subseteq Interned
                      /\ closure'[f].buckets \subseteq StoredBuckets
                      /\ \A b, c \in closure'[f].buckets : b # c => b \intersect c = {}
                      /\ \A b \in closure'[f].buckets : closure'[f].self \notin b
    BY <1>4 DEF ClosuresInv, Members
  <2>1. CASE f \in owners
    <3>1. closure'[f] = [self |-> self, buckets |-> out]
      BY <1>1, <2>1
    <3>2. closure'[f].self = self /\ closure'[f].buckets = out
      BY <3>1
    <3>3. f \in Interned /\ Marked \subseteq Interned
      BY <1>1, <1>2, <2>1 DEF OwnersInv
    <3>4. Members(closure'[f]) = Marked
      BY <1>3, <3>2 DEF Members
    <3> QED
      BY <1>2, <1>3, <3>2, <3>3, <3>4
  <2>2. CASE f \notin owners
    <3>1. closure'[f] = closure[f]
      BY <1>1, <2>2
    <3> QED
      BY <1>2, <3>1 DEF ClosuresInv
  <2> QED
    BY <2>1, <2>2
<1>9. OwnersInv'
  BY <1>1, <1>2, <1>4 DEF OwnersInv
<1>10. WalkInv'
  BY <1>1 DEF WalkInv
<1> QED
  BY <1>6, <1>7, <1>8, <1>9, <1>10 DEF Inv, CacheInv

LEMMA InternNameStep ==
  ASSUME Inv, NEW b \in 2..(MaxFile + 1), InternName(b)
  PROVE  Inv'
<1>1. /\ pc = "idle" /\ b > bound /\ bound' = b
      /\ UNCHANGED <<genLen, gen, epoch, intern, overflow, stamp, bucketEpoch, selfBucket,
                     scratch, block, closure, pc, self, owners, todo, done, out>>
  BY DEF InternName, idset, tables, marks
<1>2. /\ TypeOK /\ MarksInv /\ TablesInv /\ ClosuresInv /\ OwnersInv
  BY DEF Inv, CacheInv
<1>3. Interned \subseteq Interned'
  BY <1>1, <1>2, SizeAssumption DEF Interned, TypeOK, File
<1>4. StoredBuckets' = StoredBuckets /\ Marked' = Marked
  BY <1>1 DEF StoredBuckets, Marked
<1>5. TypeOK'
  <2>1. b \in 1..(MaxFile + 1)
    BY SizeAssumption
  <2> QED
    BY <1>1, <1>2, <2>1 DEF TypeOK
<1>6. MarksInv' /\ TablesInv'
  BY <1>1, <1>2, <1>4 DEF MarksInv, TablesInv
<1>7. ClosuresInv'
  BY <1>1, <1>2, <1>3, <1>4 DEF ClosuresInv
<1>8. OwnersInv'
  BY <1>1, <1>2, <1>3, <1>4 DEF OwnersInv
<1>9. WalkInv'
  BY <1>1 DEF WalkInv
<1> QED
  BY <1>5, <1>6, <1>7, <1>8, <1>9 DEF Inv, CacheInv

LEMMA InvStep == ASSUME Inv, [Next]_vars PROVE Inv'
<1>1. ASSUME NEW f \in File, FlatInput(f) PROVE Inv'
  <2>1. pc = "scc" /\ {f} \in SUBSET Interned /\ SpliceFlat({f})
    BY <1>1 DEF FlatInput
  <2> QED
    BY <2>1, SpliceFlatStep
<1>2. ASSUME NEW f \in File, FlatChild(f) PROVE Inv'
  <2>1. pc = "scc" /\ closure[f] # None /\ SpliceFlat(Members(closure[f]))
    BY <1>2 DEF FlatChild
  <2>2. Members(closure[f]) \in SUBSET Interned
    BY <2>1 DEF Inv, CacheInv, ClosuresInv
  <2> QED
    BY <2>1, <2>2, SpliceFlatStep
<1>3. ASSUME UNCHANGED vars PROVE Inv'
  BY <1>3
  DEF vars, idset, tables, marks, Inv, CacheInv, TypeOK, MarksInv, TablesInv, ClosuresInv, OwnersInv,
      WalkInv, ScratchExact, InScratch, Marked, Interned, StoredBuckets
<1> QED
  BY <1>1, <1>2, <1>3, InternNameStep, BeginDfsStep, SpliceInputStep, SpliceChildStep, SpliceBucketStep,
     EndDfsStep, BeginSccStep, EndSccStep, StoreStep, ThrowStep, PutClosureStep
  DEF Next

(* The inductive invariant: marks, stamps, scratch, tables and stored      *)
(* closures agree in every reachable state.                                *)
THEOREM CacheInvariant == Spec => []Inv
<1>1. Inv /\ [Next]_vars => Inv'
  BY InvStep
<1> QED
  BY <1>1, InvInit, PTL DEF Spec

(* The variables of the closure store keep their types.                    *)
THEOREM TypeCorrect == Spec => []TypeOK
<1>1. Inv => TypeOK
  BY DEF Inv
<1> QED
  BY <1>1, CacheInvariant, PTL

(* A walk never touches gen outside its length, for any number of names    *)
(* interned between walks: the unchecked writes of spliceBucket are safe.  *)
THEOREM InBoundsHolds == Spec => []InBounds
<1>1. Inv => InBounds
  <2> SUFFICES ASSUME Inv, pc \in {"dfs", "scc"}
               PROVE  /\ bound <= genLen
                      /\ \A b \in todo : \A f \in b : f < genLen
                      /\ \A ch \in File : closure[ch] # None =>
                           \A f \in Members(closure[ch]) : f < genLen
    BY DEF InBounds
  <2>1. bound \in Nat /\ genLen \in Nat /\ bound <= genLen
    BY DEF Inv, CacheInv, OwnersInv, TypeOK
  <2>2. \A f \in Interned : f < genLen
    BY <2>1 DEF Interned, File
  <2>3. UNION todo \subseteq Interned
    BY DEF Inv, CacheInv, OwnersInv
  <2>4. \A ch \in File : closure[ch] # None => Members(closure[ch]) \subseteq Interned
    BY DEF Inv, CacheInv, ClosuresInv
  <2> QED
    BY <2>1, <2>2, <2>3, <2>4
<1> QED
  BY <1>1, CacheInvariant, PTL

(* No closure lists a file twice.                                          *)
THEOREM NoDuplicatesHolds == Spec => []NoDuplicates
<1>1. Inv => NoDuplicates
  <2> SUFFICES ASSUME Inv PROVE NoDuplicates
    OBVIOUS
  <2>1. pc = "store" => \A f \in File : scratch[f] <= 1 /\ (f = self => scratch[f] = 0)
    BY DEF Inv, CacheInv, WalkInv, ScratchExact
  <2> QED
    BY <2>1 DEF NoDuplicates, Inv, CacheInv, ClosuresInv
<1> QED
  BY <1>1, CacheInvariant, PTL
-----------------------------------------------------------------------------
(* A step that keeps what is collected and stored is a stuttering step of  *)
(* ClosureSets.                                                            *)
LEMMA Stutters ==
  ASSUME UNCHANGED <<closure, owners>>, pc # "idle", pc' # "idle",
         Marked' \union UNION todo' = Marked \union UNION todo
  PROVE  UNCHANGED <<StoredSets, owners, Collected>>
BY DEF StoredSets, Collected, Members

LEMMA StoredKept == ASSUME UNCHANGED closure PROVE StoredSets' = StoredSets
BY DEF StoredSets, Members

LEMMA RefinementStep ==
  ASSUME Inv, [Next]_vars
  PROVE  [Sets!Next]_(Sets!vars)
<1> USE DEF Sets!vars
<1>1. ASSUME NEW b \in 2..(MaxFile + 1), InternName(b) PROVE UNCHANGED Sets!vars
  BY <1>1 DEF InternName, StoredSets, Collected, Members
<1>2. ASSUME NEW f \in File, BeginDfs(f) PROVE Sets!Begin({f})
  <2>1. pc = "idle" /\ pc' = "dfs" /\ owners' = {f} /\ UNCHANGED <<closure, todo>>
    BY <1>2 DEF BeginDfs
  <2>2. Marked' = {f}
    BY <1>2, ResetFacts DEF BeginDfs, Inv, CacheInv
  <2>3. owners = {} /\ todo = {}
    BY <2>1 DEF Inv, CacheInv, OwnersInv
  <2>4. Collected' = {f}
    BY <2>1, <2>2, <2>3 DEF Collected
  <2> QED
    BY <2>1, <2>3, <2>4, StoredKept DEF Sets!Begin
<1>3. ASSUME NEW S \in SUBSET File, NEW f \in File, BeginScc(S, f) PROVE Sets!Begin(S)
  <2>1. pc = "idle" /\ pc' = "scc" /\ owners' = S /\ f \in S /\ UNCHANGED <<closure, todo>>
    BY <1>3 DEF BeginScc
  <2>2. Marked' = S
    BY <1>3, BeginSccStep
  <2>3. owners = {} /\ todo = {}
    BY <2>1 DEF Inv, CacheInv, OwnersInv
  <2>4. Collected' = S
    BY <2>1, <2>2, <2>3 DEF Collected
  <2> QED
    BY <2>1, <2>3, <2>4, StoredKept DEF Sets!Begin
<1>4. ASSUME NEW f \in File, SpliceInput(f) \/ FlatInput(f) PROVE Sets!AddOne(f)
  <2>1. /\ pc # "idle" /\ pc' = pc
        /\ UNCHANGED <<closure, owners, todo>>
    BY <1>4 DEF SpliceInput, FlatInput, SpliceFlat
  <2>2. owners # {}
    BY <2>1 DEF Inv, CacheInv, OwnersInv
  <2>3. Marked' = Marked \union {f}
    <3>1. CASE SpliceInput(f)
      BY <3>1, SpliceInputStep
    <3>2. CASE FlatInput(f)
      <4>1. pc = "scc" /\ {f} \in SUBSET Interned /\ SpliceFlat({f})
        BY <3>2 DEF FlatInput
      <4> QED
        BY <4>1, SpliceFlatStep
    <3> QED
      BY <1>4, <3>1, <3>2
  <2>4. Collected' = Collected \union {f}
    BY <2>1, <2>3 DEF Collected
  <2> QED
    BY <2>1, <2>2, <2>4, StoredKept DEF Sets!AddOne
<1>5. ASSUME NEW ch \in File, SpliceChild(ch) \/ FlatChild(ch) PROVE Sets!AddClosure(ch)
  <2>1. /\ pc \in {"dfs", "scc"} /\ pc' = pc /\ todo = {} /\ closure[ch] # None /\ ~Has(ch)
        /\ UNCHANGED <<closure, owners>>
    BY <1>5 DEF SpliceChild, FlatChild, SpliceFlat, Inv, CacheInv, OwnersInv
  <2>2. owners # {} /\ bound <= genLen /\ ch \in Interned /\ Members(closure[ch]) \in SUBSET Interned
    BY <2>1 DEF Inv, CacheInv, OwnersInv, ClosuresInv
  <2>3. Marked' \union UNION todo' = Marked \union Members(closure[ch])
    <3>1. CASE SpliceChild(ch)
      <4>1. Marked' = Marked \union {closure[ch].self} /\ todo' = closure[ch].buckets
        BY <3>1, SpliceChildStep DEF SpliceChild
      <4> QED
        BY <4>1 DEF Members
    <3>2. CASE FlatChild(ch)
      <4>1. pc = "scc" /\ SpliceFlat(Members(closure[ch])) /\ todo' = todo
        BY <3>2 DEF FlatChild, SpliceFlat
      <4>2. Marked' = Marked \union Members(closure[ch])
        BY <2>2, <4>1, SpliceFlatStep
      <4> QED
        BY <2>1, <4>1, <4>2
    <3> QED
      BY <1>5, <3>1, <3>2
  <2>4. ch \notin Marked
    <3>1. ch < genLen
      BY <2>2 DEF Interned, Inv, TypeOK, File
    <3> QED
      BY <2>1, <3>1 DEF Has, Marked
  <2>5. Collected = Marked /\ Collected' = Marked \union Members(closure[ch])
    BY <2>1, <2>3 DEF Collected
  <2>6. StoredSets[ch] = Members(closure[ch])
    BY <2>1 DEF StoredSets
  <2>7. StoredSets[ch] # None
    <3>1. Members(closure[ch]) \in SUBSET File
      BY <2>2 DEF Interned
    <3> QED
      BY <2>6, <3>1, NoneAssumption
  <2> QED
    BY <2>1, <2>2, <2>4, <2>5, <2>6, <2>7, StoredKept DEF Sets!AddClosure
<1>6. ASSUME NEW b \in Bucket, SpliceBucket(b) PROVE UNCHANGED Sets!vars
  <2>1. pc = "dfs" /\ pc' = pc /\ b \in todo /\ todo' = todo \ {b} /\ UNCHANGED <<closure, owners>>
    BY <1>6 DEF SpliceBucket
  <2>2. Marked' = Marked \union b
    BY <1>6, SpliceBucketStep
  <2>3. b \union UNION (todo \ {b}) = UNION todo
    BY <2>1
  <2>4. Marked' \union UNION todo' = Marked \union UNION todo
    BY <2>1, <2>2, <2>3
  <2> QED
    BY <2>1, <2>4, Stutters
<1>7. ASSUME EndDfs \/ EndScc \/ InternBucket \/ SkipIndex \/ ThrowCollision
      PROVE  UNCHANGED Sets!vars
  <2>1. /\ pc # "idle" /\ pc' # "idle"
        /\ UNCHANGED <<closure, owners, todo, gen, epoch>>
    BY <1>7 DEF EndDfs, EndScc, InternBucket, SkipIndex, StoreNext, ThrowCollision, idset
  <2>2. Marked' = Marked
    BY <2>1 DEF Marked
  <2> QED
    BY <2>1, <2>2, Stutters
<1>8. ASSUME PutClosure PROVE Sets!Put
  <2>1. /\ pc = "store" /\ done = IndexCount /\ pc' = "idle" /\ owners' = {}
        /\ closure' = [f \in File |-> IF f \in owners THEN [self |-> self, buckets |-> out]
                                                      ELSE closure[f]]
    BY <1>8 DEF PutClosure
  <2>2. owners # {} /\ todo = {}
    BY <2>1 DEF Inv, CacheInv, OwnersInv
  <2>3. {self} \union UNION out = Marked /\ self \in File
    BY <2>1, StoredWhole
  <2>4. Collected = Marked /\ Collected' = {}
    BY <2>1, <2>2 DEF Collected
  <2>5. [self |-> self, buckets |-> out] \in ClosureRecord
    BY <2>3 DEF ClosureRecord, Inv, TypeOK
  <2>6. [self |-> self, buckets |-> out] # None
    BY <2>5, NoneAssumption
  <2>7. Members([self |-> self, buckets |-> out]) = Marked
    BY <2>3 DEF Members
  <2>8. StoredSets' = [f \in File |-> IF f \in owners THEN Collected ELSE StoredSets[f]]
    BY <2>1, <2>4, <2>6, <2>7 DEF StoredSets, Members
  <2> QED
    BY <2>1, <2>2, <2>4, <2>8 DEF Sets!Put
<1>9. ASSUME UNCHANGED vars PROVE UNCHANGED Sets!vars
  BY <1>9 DEF vars, idset, StoredSets, Collected, Marked, Members
<1> QED
  BY <1>1, <1>2, <1>3, <1>4, <1>5, <1>6, <1>7, <1>8, <1>9 DEF Next, Sets!Next

(* The closure store implements the plain sets of ClosureSets, for every   *)
(* number of files, every width of the epochs and every pair of hashes     *)
(* that tells buckets apart.                                               *)
THEOREM Refinement == Spec => ImplementsClosureSets
<1>1. Init => Sets!Init
  BY DEF Init, Sets!Init, StoredSets, Collected
<1>2. Inv /\ [Next]_vars => [Sets!Next]_(Sets!vars)
  BY RefinementStep
<1> QED
  BY <1>1, <1>2, CacheInvariant, PTL DEF Spec, ImplementsClosureSets, Sets!Spec
=============================================================================
