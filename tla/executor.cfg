\* One build, with and without -k, with one slot and a queue of one place;
\* commands fail, and the generator may give up.
SPECIFICATION FairSpec
CONSTANTS
  a = a  b = b  loose = loose
  Node = {a, b, loose}
  Deps <- PairDeps
  Roots <- PairRoots
  Threads = 1
  QueueCap = 1
  BatchMax = 2
  Stats = TRUE
  MayFail = {a, b, loose}
  MayBeCached = {a}
  GenMayThrow = TRUE
INVARIANTS TypeOK DepsBuiltFirst UidsKnown KeepGoingFinishes OkMeansBuilt StatsComplete NoSendOnClosed
PROPERTIES ImplementsBuildOrder Terminates
