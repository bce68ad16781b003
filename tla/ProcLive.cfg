SPECIFICATION LiveSpec
CONSTANTS
  CPU = {c1}
  NPROC = 3
  MaxPid = 3
PROPERTIES KilledDies RunnableRuns OrphanReaped
