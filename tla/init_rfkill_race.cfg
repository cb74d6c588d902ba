SPECIFICATION Spec
CONSTANTS
  t1 = t1
  t2 = t2
  app = app
  free = free
  App <- app
  Free <- free
  Caller <- TwoThreads
  Attempts = 1
  MaxFd = 2
  MaxAppFds = 0
  UseRfkill = TRUE
  MayFail <- Nothing
  MaxCtl = 1
  DaemonsMayExit = FALSE
  RfkillTypes <- Switches
INVARIANTS
  QueryNeverErrs
