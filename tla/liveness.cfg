SPECIFICATION FairSpec
CONSTANTS
  t1 = t1
  t2 = t2
  app = app
  free = free
  App <- app
  Free <- free
  Caller <- OneThread
  Attempts = 2
  MaxFd = 1
  MaxAppFds = 0
  UseRfkill = TRUE
  MayFail <- DevupFaults
  MaxCtl = 3
  DaemonsMayExit = FALSE
  RfkillTypes <- Switches
INVARIANTS
  NoSpuriousFailure
  EnabledMeansUsable
  FailedEnableCutsPower
PROPERTIES
  CallsReturn
  EnableStartsDaemon
  DisableStopsAll
