SPECIFICATION Spec
CONSTANTS
  PipeCap = 1
  MaxSegments = 2
  Configs <- FullConfigs
INVARIANTS
  TypeOK
  OpensMeet
  StuckIsFull
CHECK_DEADLOCK FALSE
