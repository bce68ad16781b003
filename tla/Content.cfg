SPECIFICATION Spec
CONSTANTS
  NFILE = 2
  BSIZE = 2
  NDIRECT = 12
  SIZE = 40
  MAXOPBLOCKS = 10
  Images <- MCImages
  Bytes <- MCBytes
  Lens = {2}
INVARIANT OpFits
