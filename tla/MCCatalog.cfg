SPECIFICATION Spec
CONSTANTS
  p1 = p1
  p2 = p2
  i1 = i1
  i2 = i2
  f1 = f1
  f2 = f2
  None = None
  Requests = {p1, p2}
  Images = {i1, i2}
  Flags = {f1, f2}
  Bodies <- MCBodies
  Situations <- MCSituations
  TwinMax = 1
  MaxEdits = 1
INVARIANTS RefusedForCause CommittedIsListed
 
CHECK_DEADLOCK FALSE
SYMMETRY Symmetry
