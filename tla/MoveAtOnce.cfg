SPECIFICATION FairSpec
CONSTANTS
  MaxTravel = 1
  SeekSpan = 1
  HomeSamples = 1
  MaxPasses = 1
  RehomeInterval = 2
  MaxWait = 0
  MaxCommands = 1
  SensorsFail = FALSE
  Chamber <- InertChamber
PROPERTIES
  EveryMoveAnswered
