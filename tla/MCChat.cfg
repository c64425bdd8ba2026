SPECIFICATION Spec
CONSTANTS
  s1 = s1
  s2 = s2
  q1 = q1
  q2 = q2
  None = None
  Sessions = {s1, s2}
  Queries = {q1, q2}
  MaxLoads = 2
SYMMETRY Symmetry
INVARIANTS
  EffectsAreTold
  PageShowsTheSession
PROPERTIES
  NamedStays
CHECK_DEADLOCK FALSE
