\* Commands may fail: a waiter holds the lock of a directory that was renamed away.
SPECIFICATION Spec
CONSTANTS
  p1 = p1  p2 = p2
  Proc = {p1, p2}
  lib = lib  app = app  tool = tool  b1 = b1  b2 = b2
  Uid = {app}
  Deps <- OneDeps
  Out <- OneOut
  Blob = {b1, b2}
  Root = {app}
  i1 = i1  i2 = i2  i3 = i3
  Inode = {i1, i2, i3}
  NoInode = NoInode  None = None  Dead = Dead  OutFile = OutFile
  Threads = 1
  KeepGoing = TRUE
  CmdMayFail = TRUE
  MayClear = FALSE
  MayBeBad = {}
  MaxStarts = 3
  MaxCrashes = 0
SYMMETRY InodeSymmetry
INVARIANTS WorkspaceExclusive
