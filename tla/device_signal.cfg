SPECIFICATION Spec
CONSTANTS
  Frame <- FourFrames
  NoFrame = NoFrame
  InSize = 3
  OutSize = 3
  MaxFrames = 4
PROPERTY
  WriteSignalled
CHECK_DEADLOCK FALSE
