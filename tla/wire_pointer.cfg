SPECIFICATION Spec
CONSTANTS
  Kinds <- Problems
  Hosts <- SomeHosts
  Numbers <- SomeNumbers
  Ports <- SomePorts
  Ids <- SomeIds
  Datas <- SomeDatas
  Headers <- SomeHeaders
  Me <- MyIPAddr
INVARIANT
  PointerKept
CHECK_DEADLOCK FALSE
