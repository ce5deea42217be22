CONSTANTS
  Scripts <- OneSmallPost
  MaxLen = 2
  Hosts = {"a", "b"}
  Cap = 1
  Pipelining = {}
  Hooks = {}
SPECIFICATION Spec
PROPERTY RetryRecovers
