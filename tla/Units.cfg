SPECIFICATION Spec
CONSTANTS
  Reader = {p1, p2}
  Char = {"a"}
  INPUT_BUF = 3
  UINT = 6
  ReadLens = {2}
  NPROC = 3
  NPAGES = 16
  PGSIZE = 2
  NPTENTRIES = 2
  KERNBASE = 10
  Programs <- MCPrograms
  ArgLens = {1, 3}
  Grow <- MCGrow
  MaxLost = 1
  NFILE = 3
  BSIZE = 2
  NDIRECT = 1
  SIZE = 15
  MAXOPBLOCKS = 2
  Images <- MCImages
  Bytes <- MCBytes
  Lens = {6}
  HEADER = 2
  NALLOC = 4
  HEAP = 2
  LIMIT = 12
  Sizes = {1, 3, 9}
  MAXARGS = 3
  LineLen = 5
  WIDTH = 8
  ReLen = 3
  TextLen = 3
  FmtLen = 4
  MemSize = 4
  StreamLen = 4
  BufSize = 4
INVARIANTS ReaderNotMissed PageHeldOnce ImageIsMapped BlocksHeldOnce HeapTiled ParsesRight LibraryRight
PROPERTIES IsTty IsByteFile
CHECK_DEADLOCK FALSE
