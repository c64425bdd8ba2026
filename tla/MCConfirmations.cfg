SPECIFICATION FairSpec
CONSTANTS
  c1 = c1
  c2 = c2
  h1 = h1
  h2 = h2
  h3 = h3
  None = None
  Requests = {c1, c2}
  Handlers = {h1, h2, h3}
INVARIANTS
  TaskFollowsDecision
PROPERTIES
  RejectionIsFinal
  RequestsEnd
