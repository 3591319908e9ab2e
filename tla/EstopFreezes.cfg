SPECIFICATION Spec
CONSTANTS
  barrel = barrel
  tilt = tilt
  Tables = {barrel, tilt}
  Offset <- MCOffset
  Scale <- MCScale
  ScaleMin = 2
  ScaleMax = 5
  Placeholder = 1
  DefaultScale = 2
  Unit = 2
  GridSize = 3
  Cell = 4
  MaxPoints = 5
  NoTable = none
  Lines = {"MODULATION", "ENABLE", "ESTOP", "INTERLOCK"}
  Mapped <- MCMapped
PROPERTIES
  EstopFreezes
