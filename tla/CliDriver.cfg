\* A streaming daemon and a --screen-off process on the same cooler.
SPECIFICATION FairSpec
CONSTANTS
  Clients = {daemon, oneshot}
  ScreenOff = {oneshot}
  Signals = {"SIGINT", "SIGTERM"}
INVARIANTS
  TypeOK
  ConnectedFlag
  AtMostOneLateReport
PROPERTIES
  InterruptEnds
  ScreenOffEnds
  StreamRecovers
  ImplementsLifecycle
