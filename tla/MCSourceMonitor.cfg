SPECIFICATION FairSpec
CONSTANTS
  h1 = h1
  Handlers = {h1}
  MaxFiles = 2
  Unlabelled <- MCUnlabelled
  MaxFailures = 3
  BatchSize = 1
  PageSize = 1
  MaxErrorCount = 3
  MaxCrashes = 1
INVARIANTS
  ErrorCountIsTrue
  ThreeFailuresSuspend
  PassedFilesWereHanded
PROPERTIES
  TokenNeverGoesBack
  CatchesUp
CHECK_DEADLOCK FALSE
