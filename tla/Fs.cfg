SPECIFICATION Spec
CONSTANTS
  Proc = {p1, p2}
  NINODES = 3
  Name = {"a", "b"}
  Call <- MCCall
SYMMETRY MCSymmetry
INVARIANTS RefCounts EntriesAreLinks NamelessIsFreed
PROPERTY OnlyAstrayPanics
