SPECIFICATION Spec
CONSTANTS
  a = a
  b = b
  Host <- TwoHosts
  Router = Router
  Nobody = Nobody
  Broadcast = Broadcast
  Blank = Blank
  Nothing = Nothing
  Builds <- EveryProgram
  MaxPackets = 2
  MaxEvents = 2
PROPERTIES
  NeighbourLearnt
  BecomesQuiet
INVARIANTS
  TypeOK
  AddressesRight
  AnswerIsForQuestion
  DeliveredInOrder
CHECK_DEADLOCK FALSE
