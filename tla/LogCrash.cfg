SPECIFICATION Spec
CONSTANTS
  Proc = {p1, p2, p3}
  NHome = 2
  Home <- MCHome
  Val = {v0, v1}
  NoBlk = NoBlk
  MAXOPBLOCKS = 4
  LOGSIZE = 8
  NLOG = 8
  OpBlocks = 2
SYMMETRY MCSymmetry
INVARIANTS CommitDurable
PROPERTIES CrashAtomic WriteAhead
