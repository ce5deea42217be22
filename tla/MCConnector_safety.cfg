CONSTANTS
  Conns = {"c"}
  Scripts <- OneClient
  MaxLen = 2
  Hosts = {"a"}
  Maps = {1}
  Cap = 1
  Pipelining = FALSE
  Hooks = {"replace", "inject", "panic"}
SPECIFICATION Spec
INVARIANTS TypeOK NoneOverlooked ServedAtMostTwice
 
