SPECIFICATION Spec
CONSTANTS
  Docs = {d1, d2}
  Socks = {s1, s2}
  None = None
  MaxFeed = 1
  MaxAttempts = 1
  MaxRemounts = 1
SYMMETRY Symmetric
CONSTRAINT Explored
INVARIANTS WireInOrder CompletedShowsItsType AddressedArrives WayBack
PROPERTIES ImplementsBoard
CHECK_DEADLOCK FALSE
