\* Windows of up to 3 ticks of each kind.
SPECIFICATION Spec
CONSTANTS
  Estimates = {0, 50}
  MaxTicks = 3
INVARIANTS
  TypeOK
  LoadIsShare
  NeverUnderstated
PROPERTIES
  CountersResume
