SPECIFICATION MCSpec
CONSTANTS
  s1 = s1
  s2 = s2
  n1 = n1
  n2 = n2
  k1 = k1
  k2 = k2
  w1 = w1
  w2 = w2
  p1 = p1
  p2 = p2
  Entity = {e1, e2}
  Subject = {s1, s2}
  Name = {n1, n2, a}
  Prefixed = {n1, n2}
  NameOf <- MCNameOf
  Secret = {p1, p2}
  CredId = {k1, k2}
  IdentId = {i1, i2}
  Worker = {w1, w2}
  None = None
  MaxFaults = 1
SYMMETRY Symmetric
INVARIANTS TypeOK LoginRemains PasswordReplaced
CHECK_DEADLOCK FALSE
