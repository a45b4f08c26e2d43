\* The documented claim that the screen is never left frozen on exit.
SPECIFICATION FairSpec
CONSTANTS
  Service = svc
  Clients = {svc}
PROPERTIES
  NeverLeftFrozen
