CONSTANTS
  Workers = {w1, w2}
  Watcher = watch
  Admins = {admin}
  MaxStates = 3
  MaxSize = 1
  MaxVersion = 2
  BadScripts = {2}
  NoOne = NoOne
  NoState = NoState
SPECIFICATION FairSpec
INVARIANTS OneOwner EditsAreSeen
PROPERTIES CallsEndOrEmbrace 
CHECK_DEADLOCK FALSE
