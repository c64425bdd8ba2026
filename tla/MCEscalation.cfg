SPECIFICATION Spec
CONSTANTS
  d1 = d1
  r1 = r1
  e1 = e1
  h1 = h1
  h2 = h2
  w1 = w1
  w2 = w2
  None = None
  Deadlines = {d1}
  Rules = {r1}
  Executions = {e1}
  Handlers = {h1, h2}
  Runners = {w1, w2}
  StepLists <- AllLists
  MinDelay = 2
  MaxDelay = 6
  MaxSteps = 3
  Faults = TRUE
  MaxUndone = 2
  Wired = TRUE
SYMMETRY Symmetry
INVARIANTS
  TypeOK
  OneTokenPerExecution
  RecordedJobIsTheScheduledOne
  HistoryInOrder
  ConfirmationsMatchHistory
  NotificationsMatchHistory
  AtMostOneStepAfterClose
PROPERTIES
  ImplementsLedger
