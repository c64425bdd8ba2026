SPECIFICATION Spec
CONSTANTS
  a = a
  b = b
  c = c
  d = d
  c1 = c1
  c2 = c2
  c3 = c3
  x1 = x1
  x2 = x2
  i1 = i1
  i2 = i2
  h1 = h1
  h2 = h2
  None = None
  Docs = {a, b, c, d}
  Correlations = {c1, c2, c3}
  Ids = {x1, x2}
  Items = {}
  Handlers = {h1}
  MaxBatch = 1
  MaxActs = 0
PROPERTIES
  GroupingUnites
CHECK_DEADLOCK FALSE
