SPECIFICATION Spec
CONSTANTS
  None = None
  Entity = {e1, e2, e3}
  Worker = {w1, w2}
  Pref = {p1}
  Named = {"owner", "admin"}
  MaxUses = 1
  MaxMsg = 0
  MaxFaults = 0
SYMMETRY Symmetric
PROPERTIES LeavingLeavesOwner
CHECK_DEADLOCK FALSE
