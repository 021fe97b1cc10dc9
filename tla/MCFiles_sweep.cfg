SPECIFICATION MCSpec
CONSTANTS
  c1 = c1
  c2 = c2
  w1 = w1
  w2 = w2
  f1 = f1
  f2 = f2
  f3 = f3
  u = u
  v = v
  File = {f1, f2, f3}
  Entity = {u, v}
  Conv = {c1, c2}
  Worker = {w1, w2}
  BatchSize = 2
  None = None
  MaxFaults = 1
  MaxRestarts = 1
INVARIANTS TypeOK RecordHasFile AvatarHasFile AttachmentBound
PROPERTIES GarbageGoes
CHECK_DEADLOCK FALSE
