SPECIFICATION FairSpec
CONSTANTS
  d1 = d1
  f1 = f1
  h1 = h1
  h2 = h2
  send = send
  pay = pay
  Root = Root
  None = None
  Docs = {d1}
  Folders = {f1}
  Handlers = {h1, h2}
  Actions = {send, pay}
  Faults = TRUE
  Garbage = TRUE
INVARIANTS
  RowHasFile
  ItemFollowsResult
  NothingForgotten
  ActedHasChoice
PROPERTIES
  PendingEnds
