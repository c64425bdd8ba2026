SPECIFICATION DraftSpec
CONSTANTS
  x1 = x1
  x2 = x2
  h1 = h1
  h2 = h2
  h3 = h3
  NoContent = NoContent
  Contents = {x1, x2}
  DraftHandlers = {h1, h2, h3}
INVARIANTS
  SentWasApproved
PROPERTIES
  SettledStaysFixed
CHECK_DEADLOCK FALSE
