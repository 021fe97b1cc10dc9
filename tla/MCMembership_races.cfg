SPECIFICATION Spec
CONSTANTS
  None = None
  Entity = {e1, e2, e3}
  Worker = {w1, w2}
  Pref = {p1}
  Named = {"owner", "admin"}
  MaxUses = 1
  MaxMsg = 1
  MaxFaults = 1
SYMMETRY Symmetric
INVARIANTS TypeOK OverrunBounded
PROPERTIES DepartedFrozen OwnerlessForever
CHECK_DEADLOCK FALSE
