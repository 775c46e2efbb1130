SPECIFICATION Spec
CONSTANTS
  s1 = s1  s2 = s2  b1 = b1  b2 = b2  b3 = b3  b4 = b4  g1 = g1  g2 = g2
  Source = {s1, s2}
  Build = {b1, b2, b3, b4}
  Gen = {g1, g2}
  Projects <- TestProjects
INVARIANTS TypeOK CompleteExact FixExact LateFound SelectedCovers ActivationEnds LoopShared
PROPERTIES RowsFinal BindsAll
CHECK_DEADLOCK FALSE
