SPECIFICATION Spec
CONSTANTS
  t1 = t1
  t2 = t2
  app = app
  free = free
  App <- app
  Free <- free
  Caller <- OneThread
  Attempts = 1
  MaxFd = 1
  MaxAppFds = 0
  UseRfkill = TRUE
  MayFail <- PropertyFaults
  MaxCtl = 2
  DaemonsMayExit = FALSE
  RfkillTypes <- Switches
INVARIANTS
  EnableReportsDaemonFailure
