SPECIFICATION Spec
CONSTANTS
  Pistons = {"FEED"}
  Positions = {0}
  Values = {v1, v2}
  Junk = junk
  Slots = 3
  SeqMod = 8
  Budgets <- RecordsOrSaves
  MaxTears = 1
SYMMETRY AlikeValues
INVARIANTS
  TypeOK
  BootFindsKept
  QuietIsSaved
  SettingsKept
PROPERTIES
  SettingsSpec
