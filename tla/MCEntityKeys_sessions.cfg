SPECIFICATION Spec
CONSTANTS
  None = None
  Worker = {w1, w2}
  Conn = {c1}
  MaxKeys = 2
  MaxFaults = 0
SYMMETRY Symmetric
INVARIANTS RevokedKeysDisconnected
CHECK_DEADLOCK FALSE
