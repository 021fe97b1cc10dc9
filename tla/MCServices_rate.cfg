SPECIFICATION MCSpec
CONSTANTS
  w1 = w1
  w2 = w2
  None = None
  Worker = {}
  Conn = {}
  MaxKeys = 1
  MaxFaults = 0
  TaskId = {}
  Person = {p1, p2}
  Admin = {}
  Change = {}
  Field = {title, prompt}
  Value = {unset, a}
  Editor = {}
  Nothing = Nothing
  Unset = unset
  MaxLost = 0
  Link = {}
  Guest = {}
  Server = {}
  NoLink = NoLink
  NoGuest = NoGuest
  MaxUses = {1}
  MaxSkips = 0
  Client = {k1}
  Visitor = {v1, v2, v3}
  Handler = {w1}
  NoVisitor = NoVisitor
  Limit = {2}
  Most = 2
  Interval = 2
  IdleFor = 3
  MaxTime = 5
  h1 = h1
  h2 = h2
  h3 = h3
  a1 = a1
  b1 = b1
  Fan = {a1, b1}
  Toggler = {w1, w2}
  NoFan = NoFan
  MaxBroken = 1
  Hook = {h1, h2, h3}
  HookOwner <- MCHookOwner
  Subscriber = {a1, b1, s1}
  Sent = {m1}
  Delays <- MCDelays
  Timeout = 2
  Deadline = 12
  NoOne = NoOne
  Endpoint = {d1, d2}
  Notifier = {n1}
  MaxRows = 3
  MaxSilent = 1
  NoEndpoint = NoEndpoint
PROPERTIES RefusedOverRate
CHECK_DEADLOCK FALSE
