\* Three files of two bucket indexes, names interned between walks, one closure
\* that may be collected again.  The program ends when hashes collide.
SPECIFICATION Spec
CONSTANTS
  MaxFile = 3
  IndexCount = 2
  BucketOf <- TwoIndexes
  IdEpochs = 3
  BucketEpochs = 3
  Hash = {0, 1}
  Hash1 <- LowHash
  Hash2 <- HighHash
  MayRedo = {1}
  None = None
CHECK_DEADLOCK FALSE
INVARIANTS TypeOK InBounds NoDuplicates
PROPERTY ImplementsClosureSets
