SPECIFICATION Spec
CONSTANTS
  A = a
  B = b
  MSS = 2
  Window = 3
  PadTo = 2
  Width = 64
  GarbageLen = {0, 2}
  ISN <- MCISN
  OpenAs <- ClientServer
  WriteSizes <- SmallWrites
  MaxBytes <- BothWrite
  Readers = {b}
  Closers = {a, b}
  Faults = {}
  MaxFaults = 0
INVARIANTS
  ReaderSeesEnd
CHECK_DEADLOCK FALSE
