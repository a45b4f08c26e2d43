\* A first read that fails, against "based on the energy counter delta".
SPECIFICATION Spec
CONSTANTS
  MaxRange = 5
  MaxWatts = 4
  MaxEnergy = 14
  MaxTime = 4
PROPERTIES
  FirstReadingNotOverstated
