SPECIFICATION Spec
CONSTANTS
  Proc = {p1, p2, p3}
  NHome = 4
  Home <- MCHome
  Val = {v0}
  NoBlk = NoBlk
  MAXOPBLOCKS = 1
  LOGSIZE = 3
  NLOG = 3
  OpBlocks = 1
INVARIANTS LogFits
