SPECIFICATION Spec
CONSTANTS
  a = a
  b = b
  c = c
  d = d
  c1 = c1
  c2 = c2
  c3 = c3
  x1 = x1
  x2 = x2
  i1 = i1
  i2 = i2
  h1 = h1
  h2 = h2
  None = None
  Docs = {a, b, c, d}
  Correlations = {c1, c2}
  Ids = {x1, x2}
  Items = {i1, i2}
  Handlers = {h1, h2}
  MaxBatch = 2
  MaxActs = 2
SYMMETRY Symmetry
INVARIANTS
  GroupsAreConnected
  GroupedAreFiled
  CompleteLacksNothing
  ConflictsAreTold
CHECK_DEADLOCK FALSE
