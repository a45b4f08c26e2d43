\* One service process alone with the cooler.
SPECIFICATION FairSpec
CONSTANTS
  Service = svc
  Clients = {svc}
INVARIANTS
  TypeOK
  HandlerFindsHandle
  AtMostOneLateReport
  BlankedBeforeStopped
  StatusIsHonest
PROPERTIES
  StopCompletes
  StreamRecovers
  ImplementsLifecycle
