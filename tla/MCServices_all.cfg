SPECIFICATION MCSpec
CONSTANTS
  w1 = w1
  w2 = w2
  None = None
  Worker = {w1, w2}
  Conn = {c1}
  MaxKeys = 5
  MaxFaults = 1
  TaskId = {t1}
  Person = {p1, p2}
  Admin = {}
  Change = {ch1}
  Field = {title, prompt}
  Value = {unset, a}
  Editor = {w1, w2}
  Nothing = Nothing
  Unset = unset
  MaxLost = 1
  Link = {l1}
  Guest = {g1, g2, g3}
  Server = {w1, w2}
  NoLink = NoLink
  NoGuest = NoGuest
  MaxUses = {1}
  MaxSkips = 1
  Client = {k1}
  Visitor = {v1, v2, v3}
  Handler = {w1, w2}
  NoVisitor = NoVisitor
  Limit = {1, 2}
  Most = 2
  Interval = 2
  IdleFor = 3
  MaxTime = 4
  h1 = h1
  h2 = h2
  h3 = h3
  a1 = a1
  b1 = b1
  Fan = {a1, b1}
  Toggler = {w1, w2}
  NoFan = NoFan
  MaxBroken = 1
  Hook = {h1, h2, h3}
  HookOwner <- MCHookOwner
  Subscriber = {a1, b1, s1}
  Sent = {m1}
  Delays <- MCDelays
  Timeout = 2
  Deadline = 12
  NoOne = NoOne
  Endpoint = {d1, d2}
  Notifier = {n1}
  MaxRows = 3
  MaxSilent = 1
  NoEndpoint = NoEndpoint
INVARIANTS AlwaysHasKey
  CompletionMatches DecisionStands SessionsWithinLimit BudgetKept
  ReactionsMatch EveryWebhookAccounted SubscriptionKept
PROPERTIES RotationEnds
CHECK_DEADLOCK FALSE
