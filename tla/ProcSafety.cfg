SPECIFICATION Spec
CONSTANTS
  CPU = {c1, c2}
  NPROC = 3
  MaxPid = 3
SYMMETRY MCSymmetry
INVARIANTS RunsSafely NoOrphan WaitsForAChild
PROPERTY LifeCycle
