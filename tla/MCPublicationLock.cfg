SPECIFICATION Spec
CONSTANTS
  p1 = p1
  p2 = p2
  p3 = p3
  Proc <- ThreeProcs
  MaxDeaths = 2
SYMMETRY Symmetry
INVARIANTS
  AloneAcquires
  RestoredFirst
CHECK_DEADLOCK FALSE
