SPECIFICATION Spec
CONSTANTS
  f1 = f1
  f2 = f2
  f3 = f3
  f4 = f4
  d1 = d1
  a = a
  b = b
  m1 = m1
  m2 = m2
  k1 = k1
  Root = Root
  Unused = Unused
  Deleted = Deleted
  FolderIds = {f1, f2, f3}
  DocIds = {d1}
  Names = {a, b}
  Creators = {k1}
  Movers = {m1, m2}
INVARIANTS
  CyclesAreUnchecked
  DocumentsAreFiled
  WalksClimb
SYMMETRY Symmetric
CONSTRAINT Explored
CHECK_DEADLOCK FALSE
