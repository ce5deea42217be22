CONSTANTS
  MaxVersion = 5
  BadScripts = {3}
  MaxFaults = 2
SPECIFICATION FairSpec
INVARIANTS NoStorm OneRemains
PROPERTIES DeafByPredecessor EditsTakeEffect
CHECK_DEADLOCK FALSE
