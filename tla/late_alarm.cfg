SPECIFICATION Spec
CONSTANTS
  Scenarios <- RaceLines
  PropertyFile <- File
  StdinOpen = TRUE
  Records = 3
  MaxPending = 3
INVARIANTS
  ZeroMeansSet
CHECK_DEADLOCK FALSE
