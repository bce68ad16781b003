SPECIFICATION Spec
CONSTANTS
  Proc = {p1, p2}
  Block = {k1, k2, k3, k4}
  Val = {v0, v1}
  NBUF = 3
  MaxPinned = 2
  Outcomes = {TRUE}
  None = None
SYMMETRY Symmetry
INVARIANTS OneCopyOneUser ReadsLatest RequestsServed
