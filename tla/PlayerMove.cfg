SPECIFICATION Spec
CONSTANTS
  Columns <- MCColumns
  Exits <- MCExits
  Floor <- MCFloor
  Ceiling <- MCCeiling
  Surface <- MCSurface
  Ladders = {"pool"}
  Mins <- MCMins
  Maxs <- MCMaxs
  Msec = 2
  DuckTime = 5
  DuckDone = 2
  WaterJumpTime = 4
INVARIANTS
  TypeOK
  NeverStuck
  DuckStateAgrees
PROPERTIES
  OneJumpPerPress
