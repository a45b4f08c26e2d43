\* Windows of up to 4 time units and up to two and a half turns of the counter.
SPECIFICATION Spec
CONSTANTS
  MaxRange = 5
  MaxWatts = 4
  MaxEnergy = 14
  MaxTime = 4
INVARIANTS
  TypeOK
PROPERTIES
  PowerIsAverage
  NeverOverstated
