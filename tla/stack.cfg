SPECIFICATION Spec
CONSTANTS
  PipeCap = 1
  MaxSegments = 2
  Configs <- StackConfigs
INVARIANTS
  TypeOK
  OpensMeet
  StuckIsFull
PROPERTY
  EndReachesAll
CHECK_DEADLOCK FALSE
