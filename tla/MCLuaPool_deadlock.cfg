CONSTANTS
  Workers = {w1, w2}
  Watcher = watch
  Admins = {}
  MaxStates = 3
  MaxSize = 1
  MaxVersion = 2
  BadScripts = {}
  NoOne = NoOne
  NoState = NoState
SPECIFICATION FairSpec
PROPERTY CallsEnd
CHECK_DEADLOCK FALSE
