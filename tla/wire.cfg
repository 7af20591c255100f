SPECIFICATION Spec
CONSTANTS
  Kinds <- Sent
  Hosts <- SomeHosts
  Numbers <- SomeNumbers
  Ports <- SomePorts
  Ids <- SomeIds
  Datas <- SomeDatas
  Headers <- SomeHeaders
  Me <- MyIPAddr
INVARIANT
  ArrivesAsBuilt
CHECK_DEADLOCK FALSE
