SPECIFICATION FairSpec
CONSTANTS
  A = a
  B = b
  MSS = 2
  Window = 3
  PadTo = 2
  Width = 64
  GarbageLen = {0}
  ISN <- MCISN
  OpenAs <- AnyRole
  WriteSizes <- SmallWrites
  MaxBytes <- BothWrite
  Readers = {b}
  Closers = {a, b}
  Faults = {}
  MaxFaults = 0
INVARIANTS
  OrderlyClose
PROPERTIES
  OpensReturn
  WritesReturn
  PassiveCloseEnds
CHECK_DEADLOCK FALSE
