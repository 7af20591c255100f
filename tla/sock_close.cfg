SPECIFICATION Spec
CONSTANTS
  r1 = r1
  NumSocks = 3
  Ports <- TwoPorts
  Remote <- OneRemote
  AnyEnd = AnyEnd
  NoCall = NoCall
  BinSize = 1
  MaxCalls <- SomeCalls
  MaxUnread = 1
PROPERTY
  CloseOwn
CHECK_DEADLOCK FALSE
