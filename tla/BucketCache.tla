---------------------------- MODULE BucketCache -----------------------------
(***************************************************************************)
(* How the include scanner collects and stores closures                    *)
(* (src/id_set.go, src/bucket_cache.go, src/closure.go and the parts of    *)
(* src/scanner.go and src/tarjan_ctx.go that drive them).                  *)
(*                                                                         *)
(* Three devices replace sets by cheap marks, and each is right only as    *)
(* long as no mark of an earlier walk can be taken for one of this walk:   *)
(*   - IdSet: a file is a member when its cell of gen holds the epoch.     *)
(*     reset only counts the epoch up, and clears when it wraps around.    *)
(*   - The epoch cell in front of every interned bucket: a bucket whose    *)
(*     cell holds bucketEpoch has been spliced in this walk already.       *)
(*   - The fast path of spliceBucket copies a bucket without looking at    *)
(*     its elements when the scratch of its index is still empty.          *)
(* Buckets are interned by two hashes, with an overflow table for the      *)
(* buckets whose first hash is taken.                                      *)
(*                                                                         *)
(* A walk collects either for one file (dfs, straight into the scratch) or *)
(* for the members of an include cycle (emitMembers, into a flat block     *)
(* that storeBuckets distributes).  The walks are sequential: children are *)
(* resolved, and their closures computed, before reset.  What is collected *)
(* (templates' inputs, main outputs, children) is an input here.           *)
(***************************************************************************)
EXTENDS Naturals

CONSTANTS
  MaxFile,        \* the largest VFS id; 0 is no file
  IndexCount,     \* closureBuckets, 9 in the code
  BucketOf,       \* closureBucketIndex
  IdEpochs,       \* values of IdSet.epoch, 2^16 in the code
  BucketEpochs,   \* values of bucketEpoch, 2^32 in the code
  Hash,           \* values of a hash
  Hash1, Hash2,   \* bucketHash, on the buckets
  MayRedo,        \* files whose closure may be collected again
  None

File == 1..MaxFile
Index == 0..(IndexCount - 1)

(* The non-empty sets of files of one index.                               *)
Bucket == {b \in SUBSET File : \E i \in Index : b # {} /\ \A f \in b : BucketOf[f] = i}

ASSUME SizeAssumption ==
  /\ MaxFile \in Nat
  /\ IndexCount \in Nat \ {0}
  /\ IdEpochs \in Nat /\ IdEpochs >= 2
  /\ BucketEpochs \in Nat /\ BucketEpochs >= 2

ASSUME IndexAssumption == BucketOf \in [File -> Index]

(* Two buckets with equal hash pairs are the same bucket.                  *)
ASSUME HashAssumption ==
  /\ Hash1 \in [Bucket -> Hash]
  /\ Hash2 \in [Bucket -> Hash]
  /\ \A b, c \in Bucket : Hash1[b] = Hash1[c] /\ Hash2[b] = Hash2[c] => b = c

ClosureRecord == [self : File, buckets : SUBSET Bucket]

ASSUME NoneAssumption ==
  /\ \A b \in SUBSET File : None # b
  /\ \A cl \in ClosureRecord : None # cl

VARIABLES
  bound,        \* vfsBound: ids below it are interned
  genLen, gen,  \* IdSet.gen: its length and its cells
  epoch,        \* IdSet.epoch
  intern,       \* first hash -> interned bucket, or None
  overflow,     \* second hash -> interned bucket, or None
  stamp,        \* bucket -> the epoch cell in front of its elements
  bucketEpoch,
  selfBucket,
  scratch,      \* file -> how often it is in the scratch of its index
  block,        \* file -> how often it is in the flat block
  closure,      \* file -> [self, buckets], or None
  pc,           \* idle, dfs, scc, store, or thrown
  self,         \* the file the walk is for, or the first member of its cycle
  owners,       \* the files whose closure is being collected
  todo,         \* buckets of the current child not yet spliced
  done,         \* storeScratch: indexes below it are interned
  out           \* storeScratch: the interned buckets

idset == <<genLen, gen, epoch>>
tables == <<intern, overflow>>
marks == <<stamp, bucketEpoch, selfBucket>>
vars == <<bound, idset, tables, marks, scratch, block, closure, pc, self, owners, todo, done, out>>

Marked == {f \in File : gen[f] = epoch}

Has(f) == f < genLen /\ gen[f] = epoch

Interned == {f \in File : f < bound}

(* The files a closure stands for: its self and the files of its buckets.  *)
Members(cl) == {cl.self} \union UNION cl.buckets

InScratch(i) == {f \in File : BucketOf[f] = i /\ scratch[f] > 0}

StoredBuckets == {b \in Bucket : intern[Hash1[b]] = b \/ overflow[Hash2[b]] = b}

Init ==
  /\ bound \in 1..(MaxFile + 1)
  /\ genLen = 0
  /\ gen = [f \in File |-> 0]
  /\ epoch = 0
  /\ intern = [h \in Hash |-> None]
  /\ overflow = [h \in Hash |-> None]
  /\ stamp = [b \in Bucket |-> 0]
  /\ bucketEpoch = 1
  /\ selfBucket = 0
  /\ scratch = [f \in File |-> 0]
  /\ block = [f \in File |-> 0]
  /\ closure = [f \in File |-> None]
  /\ pc = "idle"
  /\ self = 0
  /\ owners = {}
  /\ todo = {}
  /\ done = 0
  /\ out = {}

(* Between walks names are interned and the bound of the ids grows.        *)
InternName(b) ==
  /\ pc = "idle"
  /\ b > bound
  /\ bound' = b
  /\ UNCHANGED <<idset, tables, marks, scratch, block, closure, pc, self, owners, todo, done, out>>

(* A fault for ResetAndAdd: gen is kept although the bound has outgrown it.*)
ResetSameLength(S) ==
  LET next == (epoch + 1) % IdEpochs
      e == IF next = 0 THEN 1 ELSE next
      old == IF next = 0 THEN [f \in File |-> 0] ELSE gen
  IN /\ genLen' = IF genLen = 0 THEN bound + (bound \div 4) ELSE genLen
     /\ epoch' = e
     /\ gen' = [f \in File |-> IF f \in S THEN e ELSE old[f]]

(* A fault for ResetAndAdd: the cells are not cleared when the epoch wraps *)
(* around.                                                                 *)
ResetUncleared(S) ==
  LET fresh == bound > genLen
      next == (epoch + 1) % IdEpochs
      e == IF fresh \/ next = 0 THEN 1 ELSE next
      old == IF fresh THEN [f \in File |-> 0] ELSE gen
  IN /\ genLen' = IF fresh THEN bound + (bound \div 4) ELSE genLen
     /\ epoch' = e
     /\ gen' = [f \in File |-> IF f \in S THEN e ELSE old[f]]

(* IdSet.reset(vfsBound()) followed by add of the files in S.              *)
ResetAndAdd(S) ==
  LET fresh == bound > genLen
      next == (epoch + 1) % IdEpochs
      e == IF fresh \/ next = 0 THEN 1 ELSE next
      old == IF fresh \/ next = 0 THEN [f \in File |-> 0] ELSE gen
  IN /\ genLen' = IF fresh THEN bound + (bound \div 4) ELSE genLen
     /\ epoch' = e
     /\ gen' = [f \in File |-> IF f \in S THEN e ELSE old[f]]

(* A fault for ResetScratch: bucketEpoch stays 0, as a cleared cell does.  *)
ResetScratchToZero(v) ==
  LET next == (bucketEpoch + 1) % BucketEpochs
  IN /\ selfBucket' = BucketOf[v]
     /\ bucketEpoch' = next
     /\ stamp' = IF next = 0
                 THEN [b \in Bucket |-> IF b \in StoredBuckets THEN 0 ELSE stamp[b]]
                 ELSE stamp

(* resetScratch; clearBucketEpochs reaches the buckets of both tables.     *)
ResetScratch(v) ==
  LET next == (bucketEpoch + 1) % BucketEpochs
  IN /\ selfBucket' = BucketOf[v]
     /\ bucketEpoch' = IF next = 0 THEN 1 ELSE next
     /\ stamp' = IF next = 0
                 THEN [b \in Bucket |-> IF b \in StoredBuckets THEN 0 ELSE stamp[b]]
                 ELSE stamp

(* cachedWindow has nothing for the file, or nothing complete; or the walk *)
(* of a cycle has stored a closure while dfs was at work above the file,   *)
(* and dfs collects its own.                                               *)
Wanted(f) == closure[f] = None \/ f \in MayRedo

(* dfs, once the children have closures: an empty scratch, abs marked.     *)
BeginDfs(abs) ==
  /\ pc = "idle"
  /\ abs \in Interned
  /\ Wanted(abs)
  /\ ResetAndAdd({abs})
  /\ ResetScratch(abs)
  /\ scratch' = [f \in File |-> 0]
  /\ pc' = "dfs"
  /\ self' = abs
  /\ owners' = {abs}
  /\ UNCHANGED <<bound, tables, block, closure, todo, done, out>>

Mark(S) == gen' = [f \in File |-> IF f \in S THEN epoch ELSE gen[f]]

(* BucketCache.spliceOne.                                                  *)
SpliceOneInto(f) ==
  /\ Mark({f})
  /\ scratch' = IF gen[f] = epoch THEN scratch ELSE [scratch EXCEPT ![f] = @ + 1]

(* dfs splices a template's input, or the main output of a producer.       *)
SpliceInput(f) ==
  /\ pc = "dfs"
  /\ todo = {}
  /\ f \in Interned
  /\ SpliceOneInto(f)
  /\ UNCHANGED <<bound, genLen, epoch, tables, marks, block, closure, pc, self, owners, todo, done, out>>

(* dfs splices a child: first the child's own file, then bucket by bucket. *)
SpliceChild(ch) ==
  /\ pc = "dfs"
  /\ todo = {}
  /\ closure[ch] # None
  /\ ~Has(ch)
  /\ SpliceOneInto(closure[ch].self)
  /\ todo' = closure[ch].buckets
  /\ UNCHANGED <<bound, genLen, epoch, tables, marks, block, closure, pc, self, owners, done, out>>

(* firstBucketVisit: the cell in front of the bucket is not of this walk.  *)
FirstVisit(b) == stamp[b] # bucketEpoch

(* A fault for SpliceBucket: the fast path is taken for the index of the   *)
(* walk's own file.                                                        *)
SpliceBucketFast(b) ==
  LET i == BucketOf[CHOOSE f \in b : TRUE]
      fast == InScratch(i) = {}
  IN /\ pc = "dfs"
     /\ b \in todo
     /\ todo' = todo \ {b}
     /\ stamp' = [stamp EXCEPT ![b] = bucketEpoch]
     /\ IF ~FirstVisit(b)
        THEN UNCHANGED <<gen, scratch>>
        ELSE /\ Mark(b)
             /\ scratch' = [f \in File |->
                              IF f \in b /\ (fast \/ gen[f] # epoch)
                              THEN scratch[f] + 1 ELSE scratch[f]]
     /\ UNCHANGED <<bound, genLen, epoch, tables, bucketEpoch, selfBucket, block, closure,
                    pc, self, owners, done, out>>

(* spliceBucket: skipped when the bucket was visited, copied as a whole    *)
(* when nothing of its index has been collected, else file by file.        *)
SpliceBucket(b) ==
  LET i == BucketOf[CHOOSE f \in b : TRUE]
      fast == InScratch(i) = {} /\ i # selfBucket
  IN /\ pc = "dfs"
     /\ b \in todo
     /\ todo' = todo \ {b}
     /\ stamp' = [stamp EXCEPT ![b] = bucketEpoch]
     /\ IF ~FirstVisit(b)
        THEN UNCHANGED <<gen, scratch>>
        ELSE /\ Mark(b)
             /\ scratch' = [f \in File |->
                              IF f \in b /\ (fast \/ gen[f] # epoch)
                              THEN scratch[f] + 1 ELSE scratch[f]]
     /\ UNCHANGED <<bound, genLen, epoch, tables, bucketEpoch, selfBucket, block, closure,
                    pc, self, owners, done, out>>

(* dfs ends in storeScratch.                                               *)
EndDfs ==
  /\ pc = "dfs"
  /\ todo = {}
  /\ pc' = "store"
  /\ done' = 0
  /\ out' = {}
  /\ UNCHANGED <<bound, idset, tables, marks, scratch, block, closure, self, owners, todo>>

(* emitMembers: every member of the cycle is in the block once.            *)
BeginScc(S, first) ==
  /\ pc = "idle"
  /\ S \subseteq Interned
  /\ \A f \in S : Wanted(f)
  /\ first \in S
  /\ ResetAndAdd(S)
  /\ block' = [f \in File |-> IF f \in S THEN 1 ELSE 0]
  /\ pc' = "scc"
  /\ self' = first
  /\ owners' = S
  /\ UNCHANGED <<bound, tables, marks, scratch, closure, todo, done, out>>

(* IdSet.spliceOne and spliceNew: the files of S that are not yet marked.  *)
SpliceFlat(S) ==
  /\ Mark(S)
  /\ block' = [f \in File |-> IF f \in S /\ gen[f] # epoch THEN block[f] + 1 ELSE block[f]]
  /\ UNCHANGED <<bound, genLen, epoch, tables, marks, scratch, closure, pc, self, owners, todo, done, out>>

FlatInput(f) ==
  /\ pc = "scc"
  /\ f \in Interned
  /\ SpliceFlat({f})

(* spliceChild: windowSubsumed skips a child that has been collected.      *)
FlatChild(ch) ==
  /\ pc = "scc"
  /\ closure[ch] # None
  /\ ~Has(ch)
  /\ SpliceFlat(Members(closure[ch]))

(* storeBuckets distributes the block behind its first file.               *)
EndScc ==
  /\ pc = "scc"
  /\ ResetScratch(self)
  /\ scratch' = [f \in File |-> IF f = self THEN block[f] - 1 ELSE block[f]]
  /\ pc' = "store"
  /\ done' = 0
  /\ out' = {}
  /\ UNCHANGED <<bound, idset, tables, block, closure, self, owners, todo>>

StoreNext == /\ done' = done + 1
             /\ UNCHANGED <<bound, idset, bucketEpoch, selfBucket, scratch, block, closure, pc, self,
                            owners, todo>>

(* internBucket: found under the first hash, found in the overflow table,  *)
(* or stored with a cleared epoch cell where there is room.                *)
InternBucket ==
  LET b == InScratch(done)
      first == intern[Hash1[b]]
      second == overflow[Hash2[b]]
  IN /\ pc = "store"
     /\ done \in Index
     /\ b # {}
     /\ \/ /\ first # None /\ Hash2[first] = Hash2[b]
           /\ out' = out \union {first}
           /\ UNCHANGED <<intern, overflow, stamp>>
        \/ /\ first # None /\ Hash2[first] # Hash2[b]
           /\ second # None /\ Hash1[second] = Hash1[b]
           /\ out' = out \union {second}
           /\ UNCHANGED <<intern, overflow, stamp>>
        \/ /\ first # None /\ Hash2[first] # Hash2[b]
           /\ second = None
           /\ overflow' = [overflow EXCEPT ![Hash2[b]] = b]
           /\ stamp' = [stamp EXCEPT ![b] = 0]
           /\ out' = out \union {b}
           /\ UNCHANGED intern
        \/ /\ first = None
           /\ intern' = [intern EXCEPT ![Hash1[b]] = b]
           /\ stamp' = [stamp EXCEPT ![b] = 0]
           /\ out' = out \union {b}
           /\ UNCHANGED overflow
     /\ StoreNext

(* storeScratch passes over an empty index.                                *)
SkipIndex ==
  /\ pc = "store"
  /\ done \in Index
  /\ InScratch(done) = {}
  /\ out' = out
  /\ UNCHANGED <<intern, overflow, stamp>>
  /\ StoreNext

(* internBucket gives up: both cells hold other buckets.                   *)
ThrowCollision ==
  LET b == InScratch(done)
      first == intern[Hash1[b]]
      second == overflow[Hash2[b]]
  IN /\ pc = "store"
     /\ done \in Index
     /\ b # {}
     /\ first # None /\ Hash2[first] # Hash2[b]
     /\ second # None /\ Hash1[second] # Hash1[b]
     /\ pc' = "thrown"
     /\ UNCHANGED <<bound, idset, tables, marks, scratch, block, closure, self, owners, todo, done, out>>

(* putClosure, for the file or for every member of the cycle.              *)
PutClosure ==
  /\ pc = "store"
  /\ done = IndexCount
  /\ closure' = [f \in File |-> IF f \in owners THEN [self |-> self, buckets |-> out] ELSE closure[f]]
  /\ pc' = "idle"
  /\ self' = 0
  /\ owners' = {}
  /\ done' = 0
  /\ out' = {}
  /\ block' = [f \in File |-> 0]
  /\ UNCHANGED <<bound, idset, tables, marks, scratch, todo>>

Next ==
  \/ \E b \in 2..(MaxFile + 1) : InternName(b)
  \/ \E f \in File : BeginDfs(f) \/ SpliceInput(f) \/ SpliceChild(f)
  \/ \E b \in Bucket : SpliceBucket(b)
  \/ EndDfs
  \/ \E S \in SUBSET File : \E f \in File : BeginScc(S, f)
  \/ \E f \in File : FlatInput(f) \/ FlatChild(f)
  \/ EndScc
  \/ InternBucket
  \/ SkipIndex
  \/ ThrowCollision
  \/ PutClosure

Spec == Init /\ [][Next]_vars

-----------------------------------------------------------------------------

(* The variables have their types; no file is in a scratch twice.          *)
TypeOK ==
  /\ bound \in 1..(MaxFile + 1)
  /\ genLen \in Nat
  /\ gen \in [File -> 0..(IdEpochs - 1)]
  /\ epoch \in 0..(IdEpochs - 1)
  /\ intern \in [Hash -> Bucket \union {None}]
  /\ overflow \in [Hash -> Bucket \union {None}]
  /\ stamp \in [Bucket -> 0..(BucketEpochs - 1)]
  /\ bucketEpoch \in 1..(BucketEpochs - 1)
  /\ selfBucket \in Index
  /\ scratch \in [File -> Nat]
  /\ block \in [File -> Nat]
  /\ closure \in [File -> ClosureRecord \union {None}]
  /\ pc \in {"idle", "dfs", "scc", "store", "thrown"}
  /\ self \in 0..MaxFile
  /\ owners \subseteq File
  /\ todo \subseteq Bucket
  /\ done \in 0..IndexCount
  /\ out \subseteq Bucket

(* spliceBucket writes gen through an unsafe pointer and spliceOne indexes *)
(* it unchecked: whatever a walk may still splice lies inside gen, however *)
(* many names were interned since gen was last allocated.                  *)
InBounds ==
  pc \in {"dfs", "scc"} =>
    /\ bound <= genLen
    /\ \A b \in todo : \A f \in b : f < genLen
    /\ \A ch \in File : closure[ch] # None => \A f \in Members(closure[ch]) : f < genLen

(* A closure lists no file twice, neither in two buckets, nor in one       *)
(* bucket, nor as its self and again in a bucket.                          *)
NoDuplicates ==
  /\ pc = "store" => \A f \in File : scratch[f] <= 1 /\ (f = self => scratch[f] = 0)
  /\ \A ch \in File : closure[ch] # None =>
       /\ \A b, c \in closure[ch].buckets : b # c => b \intersect c = {}
       /\ \A b \in closure[ch].buckets : closure[ch].self \notin b

StoredSets == [f \in File |-> IF closure[f] = None THEN None ELSE Members(closure[f])]

Collected == IF pc = "idle" THEN {} ELSE Marked \union UNION todo

Sets == INSTANCE ClosureSets WITH stored <- StoredSets, acc <- Collected

(* The marks, stamps, fast path and tables compute the sets of ClosureSets *)
(* exactly: nothing of an earlier walk is taken for a member of this one,  *)
(* nothing is lost, and a closure put is the set that was collected.       *)
ImplementsClosureSets == Sets!Spec
=============================================================================
