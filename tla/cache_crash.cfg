\* Two processes build app and lib, their commands may fail, and one process may be
\* killed and restarted.  Once a command has failed, locks can be stale and a good
\* manifest can be dropped.
SPECIFICATION Spec
CONSTANTS
  p1 = p1  p2 = p2
  Proc = {p1, p2}
  lib = lib  app = app  tool = tool  b1 = b1  b2 = b2
  Uid = {lib, app}
  Deps <- ChainDeps
  Out <- ChainOut
  Blob = {b1, b2}
  Root = {app}
  i1 = i1  i2 = i2  i3 = i3  i4 = i4
  Inode = {i1, i2, i3, i4}
  NoInode = NoInode  None = None  Dead = Dead  OutFile = OutFile
  Threads = 1
  KeepGoing = TRUE
  CmdMayFail = TRUE
  MayClear = FALSE
  MayBeBad = {}
  MaxStarts = 3
  MaxCrashes = 1
SYMMETRY InodeSymmetry
INVARIANTS TypeOK ManifestBacked DoneHasManifest ExclusiveUntilFailure CleanOutputs
PROPERTIES NeverRebuilt
