SPECIFICATION LiveSpec
CONSTANTS
  Proc = {p1, p2, p3}
  NHome = 3
  Home <- MCHome
  Val = {v0}
  NoBlk = NoBlk
  MAXOPBLOCKS = 2
  LOGSIZE = 4
  NLOG = 4
  OpBlocks = 1
INVARIANTS NoPanic LogFits
PROPERTIES WaiterIsWoken
