SPECIFICATION Spec
CONSTANTS
  r1 = r1
  NumSocks = 2
  Ports <- TwoPorts
  Remote <- OneRemote
  AnyEnd = AnyEnd
  NoCall = NoCall
  BinSize = 1
  MaxCalls <- SomeCalls
  MaxUnread = 1
INVARIANTS
  TypeOK
  PendingIsAwaited
  StatusHasRecord
  ConnectServed
PROPERTY
  CallsInOrder
CHECK_DEADLOCK FALSE
