\* Six machines, nine readings; every source comes and goes at any time.
SPECIFICATION Spec
CONSTANTS
  Machines <- MCMachines
  Readings <- MCReadings
INVARIANTS
  TypeOK
  ResourcesReleased
  PdhNeedsTwoCollections
  DieTemperatureShown
  CpuSensorShown
  MetricsAreReadings
PROPERTIES
  TemperatureArrives
  LoadArrives
