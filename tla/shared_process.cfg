SPECIFICATION Spec
CONSTANTS
  t1 = t1
  t2 = t2
  app = app
  free = free
  App <- app
  Free <- free
  Caller <- OneThread
  Attempts = 2
  MaxFd = 2
  MaxAppFds = 1
  UseRfkill = TRUE
  MayFail <- SharedFaults
  MaxCtl = 2
  DaemonsMayExit = TRUE
  RfkillTypes <- Switches
INVARIANTS
  TypeOK
  NoFdLeak
  FdsIntactUntilTimeout
  FailedEnableCutsPower
