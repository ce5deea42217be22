CONSTANTS
  Workers = {w1, w2}
  VMs = {v1, v2}
  Kinds = {"request", "response"}
  MaxPool = 1
  Edited = {"request"}
  MaxVersion = 3
  BadScripts = {2}
  NoOne = NoOne
  NoVM = NoVM
SPECIFICATION Spec
SYMMETRY Symmetry
INVARIANTS OneOwner Isolated Fresh
CHECK_DEADLOCK FALSE
