\* A second install, at an interval shorter than the sleeps of the commands and with the
\* cooler present.
SPECIFICATION ControlSpec
CONSTANTS
  Service = svc
  Clients = {svc}
  TickTime = 4
  RetryTime = 20
  RestartWait = 8
  UninstallWait = 5
  WaitHint = 30
  Configs = {old, new}
  Faults = FALSE
PROPERTIES
  RunsNewConfiguration
