SPECIFICATION Spec
CONSTANTS
  Kinds <- Errors
  Hosts <- SomeHosts
  Numbers <- SomeNumbers
  Ports <- SomePorts
  Ids <- SomeIds
  Datas <- SomeDatas
  Headers <- SomeHeaders
  Me <- MyIPAddr
INVARIANT
  LengthIsReal
CHECK_DEADLOCK FALSE
