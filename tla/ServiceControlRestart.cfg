\* Re-install over a running service at the default interval.
SPECIFICATION ControlSpec
CONSTANTS
  Service = svc
  Clients = {svc}
  TickTime = 10
  RetryTime = 20
  RestartWait = 8
  UninstallWait = 5
  WaitHint = 30
  Configs = {old, new}
  Faults = FALSE
PROPERTIES
  InstalledMeansStarted
