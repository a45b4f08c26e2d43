\* Interval 400 ms: shorter than the sleeps of the commands, unlike that of a failed connect.
SPECIFICATION ControlSpec
CONSTANTS
  Service = svc
  Clients = {svc}
  TickTime = 4
  RetryTime = 20
  RestartWait = 8
  UninstallWait = 5
  WaitHint = 30
  Configs = {old, new}
  Faults = TRUE
INVARIANTS
  ControlTypeOK
  StopsWithinHint
  MarkedIsEnding
PROPERTIES
  InstalledMeansStarted
  RemovedMeansGone
  DeletionCompletes
