CONSTANTS
  Exchanges = {1, 2}
  Asked <- Two
  Streams = {2}
  Watched = {1, 2}
  Configs <- Three
  Start <- Base
  Pages <- InTurn
  MaxUpdates = 1
  NoOne = NoOne
SPECIFICATION FairSpec
INVARIANTS CallbacksOnce  ViewIsStable 
PROPERTIES WholeOrLate AllIsRecorded
CHECK_DEADLOCK FALSE
