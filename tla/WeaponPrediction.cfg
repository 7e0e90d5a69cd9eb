SPECIFICATION Spec
CONSTANTS
  MaxClip <- MCMaxClip
  StartAmmo <- MCStartAmmo
  StartClip <- MCStartClip
  Commands <- MCCommands
  Window = 2
  MaxPending = 1
  Msec = 2
  CycleTime = 2
  BurstTime = 5
  BurstGap = 0
  EmptyTime = 1
  ModeTime = 1
  ReloadTime = 3
  DeployTime = 1
  IdleTime = 3
  ShotTime = 2
  DryTime = 3
  StartTime = 3
  ShellTime = 1
INVARIANTS
  TypeOK
  PredictionExact
  ReloadBelongsToActive
  ClipsInRange
  PredictionInventsNoRounds
PROPERTIES
  OneRoundPerCommand
CHECK_DEADLOCK FALSE
