SPECIFICATION LiveSpec
CONSTANTS
  Reader = {r1}
  Writer = {w1, w2}
  PIPESIZE = 2
  UINT = 4
  WriteLens = {2}
  ReadLens = {1, 3}
  None = None
INVARIANTS NoUseAfterFree
PROPERTIES IsChannel CallReturns
