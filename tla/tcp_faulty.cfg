SPECIFICATION Spec
CONSTANTS
  A = a
  B = b
  MSS = 1
  Window = 2
  PadTo = 2
  Width = 64
  GarbageLen = {2}
  ISN <- MCISN
  OpenAs <- ClientServer
  WriteSizes <- LargeWrites
  MaxBytes <- MoreBytes
  Readers = {}
  Closers = {a, b}
  Faults = {"lose", "duplicate", "reorder"}
  MaxFaults = 1
INVARIANTS
  TypeOK
  AckChain
  SegmentsBacked
  WindowRespected
  TimerCovers
  HandshakeAgreed
  CloseAgreed
  FreshInOrder
  AnswersInStep
CHECK_DEADLOCK FALSE
