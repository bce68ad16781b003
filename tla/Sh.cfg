SPECIFICATION Spec
CONSTANTS
  NPROC = 5
  NFILE = 5
  NOFILE = 6
  NPIPE = 2
  PIPESIZE = 1
  Cmds <- MCCmds
  Inode = {"console", "in", "out"}
INVARIANTS RefsAreDescriptors Wired ListOrder
PROPERTIES CommandEnds
