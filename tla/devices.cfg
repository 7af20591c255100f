SPECIFICATION Spec
CONSTANTS
  Frame <- FourFrames
  NoFrame = NoFrame
  InSize = 3
  OutSize = 3
  MaxFrames = 4
INVARIANTS
  TypeOK
  FramesInOrder
  FramesAccounted
  KeepsBackOne
PROPERTIES
  FramesTaken
  RingsAreQueues
CHECK_DEADLOCK FALSE
