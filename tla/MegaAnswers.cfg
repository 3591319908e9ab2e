SPECIFICATION FairSpec
CONSTANTS
  MaxTravel = 1
  SeekSpan = 2
  HomeSamples = 2
  MaxPasses = 1
  RehomeInterval = 1
  MaxWait = 1
  MaxCommands = 2
  SensorsFail = FALSE
  Chamber <- InertChamber
INVARIANTS
  EstopHolds
  NoAnswerLost
PROPERTIES
  MoveAnswersHonest
  EveryCommandAnswered
