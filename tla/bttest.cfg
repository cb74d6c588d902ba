SPECIFICATION BtTestSpec
CONSTANTS
  t1 = t1
  app = app
  free = free
  Main <- t1
  App <- app
  Free <- free
  Caller <- OneThread
  Attempts = 2
  MaxFd = 1
  MaxAppFds = 0
  UseRfkill = TRUE
  MayFail <- CallFaults
  MaxCtl = 3
  DaemonsMayExit = FALSE
  RfkillTypes <- Switches
INVARIANTS
  EnableRecovers
  DisableRecovers
PROPERTIES
  StopBeforeCut
  BttestEnds
  DisableEndsAll
