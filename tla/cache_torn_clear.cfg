\* A --clear that is interrupted, then a plain build.
SPECIFICATION Spec
CONSTANTS
  p1 = p1
  Proc = {p1}
  lib = lib  app = app  tool = tool  b1 = b1  b2 = b2
  Uid = {lib, app}
  Deps <- ChainDeps
  Out <- ChainOut
  Blob = {b1, b2}
  Root = {app}
  i1 = i1  i2 = i2
  Inode = {i1, i2}
  NoInode = NoInode  None = None  Dead = Dead  OutFile = OutFile
  Threads = 1
  KeepGoing = FALSE
  CmdMayFail = FALSE
  MayClear = TRUE
  MayBeBad = {}
  MaxStarts = 3
  MaxCrashes = 1
SYMMETRY InodeSymmetry
PROPERTIES InstalledReadable
