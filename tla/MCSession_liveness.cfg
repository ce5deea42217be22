CONSTANTS
  Scripts <- LiveScripts
  MaxLen = 3
  Hosts = {"a", "b"}
  Cap = 1
  Pipelining <- Pipelined
  Hooks = {}
SPECIFICATION FairSpec
 
PROPERTIES SubmitProceeds SessionEnds EveryRequestAnswered
