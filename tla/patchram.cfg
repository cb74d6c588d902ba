SPECIFICATION FairSpec
CONSTANTS
  Scenarios <- Lines
  PropertyFile <- File
  StdinOpen = TRUE
  Records = 3
  MaxPending = 3
INVARIANTS
  TypeOK
  LockStep
  NothingGarbled
  RecordsInOrder
  SettingsSurvive
  EndMeansConfigured
PROPERTIES
  ProgramEnds
CHECK_DEADLOCK FALSE
