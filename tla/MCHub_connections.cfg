SPECIFICATION MCSpec
CONSTANTS
  c1 = c1
  c2 = c2
  c3 = c3
  u1 = u1
  u2 = u2
  d1 = d1
  d2 = d2
  k1 = k1
  r1 = r1
  r2 = r2
  Client = {c1, c2, c3}
  Entity = {u1, u2}
  Device = {d1, d2}
  Conv = {k1}
  EntityOf <- MCEntityOf
  DeviceOf <- MCDeviceOf
  Rest = {r1, r2}
  ConvOf <- MCConvOf
  Kicker = {x1}
  QueueCap = 1
  MaxFaults = 1
INVARIANTS TypeOK SendersOpen FetchedStaysSubscribed
PROPERTIES NeverReopened ExitedIsRemoved KickedIsGone ImplementsPresence
CHECK_DEADLOCK FALSE
