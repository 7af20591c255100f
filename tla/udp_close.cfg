SPECIFICATION Spec
CONSTANTS
  r1 = r1
  NumSocks = 2
  Ports <- TwoPorts
  Remote <- OneRemote
  AnyEnd = AnyEnd
  NoCall = NoCall
  BinSize = 1
  MaxCalls = 5
  MaxDatagrams = 2
INVARIANT
  ReaderForwarded
CHECK_DEADLOCK FALSE
