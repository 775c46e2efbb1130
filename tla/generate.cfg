SPECIFICATION Spec
CONSTANTS
  a = a  b = b  c = c  d = d
  Module = {a, b, c, d}
  Nil = Nil
  Projects <- TestProjects
INVARIANTS WarningsExact FrameSafe Restored ReplayOrder
