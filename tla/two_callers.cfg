SPECIFICATION HSpec
CONSTANTS
  t1 = t1
  t2 = t2
  app = app
  free = free
  App <- app
  Free <- free
  Caller <- TwoThreads
  Attempts = 1
  MaxFd = 1
  MaxAppFds = 0
  UseRfkill = TRUE
  MayFail <- RacingFaults
  MaxCtl = 1
  DaemonsMayExit = FALSE
  RfkillTypes <- Switches
SYMMETRY Threads
INVARIANTS
  NoFdLeak
  FdsIntactUntilTimeout
  RfkillStateValid
PROPERTIES
  ImplementsAdapter
