SPECIFICATION FairSpec
CONSTANTS
  mine = mine
  foreign = foreign
  old = old
  Packets = {mine, foreign, old}
  Payload <- MCPayload
  Foreign = {foreign}
  OldVersion = {old}
  MaxPayload = 2
  Noise = {"A5", "1", "FF"}
  MaxFaults = 3
  Nobody = nobody
INVARIANTS
  TypeOK
  NeverOverruns
PROPERTIES
  SplitIsExact
  ConsoleNotDeaf
