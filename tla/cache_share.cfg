\* Two executors meet at one node whose command succeeds.
SPECIFICATION Spec
CONSTANTS
  p1 = p1  p2 = p2
  Proc = {p1, p2}
  lib = lib  app = app  tool = tool  b1 = b1  b2 = b2
  Uid = {app}
  Deps <- OneDeps
  Out <- OneOut
  Blob = {b1, b2}
  Root = {app}
  i1 = i1  i2 = i2
  Inode = {i1, i2}
  NoInode = NoInode  None = None  Dead = Dead  OutFile = OutFile
  Threads = 1
  KeepGoing = FALSE
  CmdMayFail = FALSE
  MayClear = FALSE
  MayBeBad = {}
  MaxStarts = 2
  MaxCrashes = 0
SYMMETRY InodeSymmetry
INVARIANTS NoSpuriousFailure
