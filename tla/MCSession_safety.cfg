CONSTANTS
  Scripts <- Waiting
  MaxLen = 3
  Hosts = {"a", "b"}
  Cap = 1
  Pipelining = {}
  Hooks = {"replace", "inject"}
SPECIFICATION Spec
INVARIANTS TypeOK NoUpstreamLeak UsesPooled ServedAtMost
PROPERTIES KeepsDialogue OrderlyEnd NeverCutsOff
