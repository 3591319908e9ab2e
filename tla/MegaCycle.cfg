SPECIFICATION Spec
CONSTANTS
  MaxTravel = 1
  SeekSpan = 1
  HomeSamples = 1
  MaxPasses = 2
  RehomeInterval = 1
  MaxWait = 0
  MaxCommands = 3
  SensorsFail = FALSE
  Chamber <- InertChamber
VIEW CycleView
INVARIANTS
  TypeOK
  CycleHasAxes
  StepsNeverRefused
  SweepsReferenced
  RehomedInTime
  BladeClear
  CutCycleStops
