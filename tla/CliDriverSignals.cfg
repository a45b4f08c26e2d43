\* Stop signals while streaming to a working cooler, against the documented shutdown phase.
SPECIFICATION FairSpec
CONSTANTS
  Clients = {daemon}
  ScreenOff = {}
  Signals = {"SIGINT", "SIGTERM"}
PROPERTIES
  SignalBlanks
