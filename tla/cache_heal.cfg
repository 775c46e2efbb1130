\* One process, restarted at will, over a cache whose manifests may be malformed;
\* the cache may be cleared, and no clear is interrupted.  Without -k a failure
\* ends the process at once and leaves its other commands running.
SPECIFICATION Spec
CONSTANTS
  p1 = p1
  Proc = {p1}
  lib = lib  app = app  tool = tool  b1 = b1  b2 = b2
  Uid = {lib, app, tool}
  Deps <- ForkDeps
  Out <- ForkOut
  Blob = {b1, b2}
  Root = {app}
  i1 = i1  i2 = i2  i3 = i3
  Inode = {i1, i2, i3}
  NoInode = NoInode  None = None  Dead = Dead  OutFile = OutFile
  Threads = 2
  KeepGoing = FALSE
  CmdMayFail = FALSE
  MayClear = TRUE
  MayBeBad = {lib, app}
  MaxStarts = 4
  MaxCrashes = 0
SYMMETRY InodeSymmetry
INVARIANTS HealsAfterFailures
PROPERTIES InstalledReadable
