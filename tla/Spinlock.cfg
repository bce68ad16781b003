SPECIFICATION LiveSpec
CONSTANTS
  CPU = {c1, c2}
  Thread = {t1}
  NLOCK = 2
  ptable = 1
  None = None
INVARIANTS MutualExclusion InterruptsRestored
PROPERTY AcquireEnds
