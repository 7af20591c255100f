SPECIFICATION Spec
CONSTANTS
  r1 = r1
  NumSocks = 2
  Ports <- TwoPorts
  Remote <- OneRemote
  AnyEnd = AnyEnd
  NoCall = NoCall
  BinSize = 1
  MaxCalls = 7
  MaxDatagrams = 2
INVARIANTS
  TypeOK
  StatusMeetsRequest
  ForwardsOwned
  ReadOwn
PROPERTY
  CallsReturn
CHECK_DEADLOCK FALSE
