SPECIFICATION OneSideSpec
CONSTANTS
  user = user
  bot = bot
  s1 = s1
  s2 = s2
  c1 = c1
  p1 = p1
  p2 = p2
  Entity = {user, bot}
  Person = {user}
  Mode <- MCMode
  Disabled = {}
  Direct = FALSE
  Client = {c1}
  EntityOf <- MCEntityOf
  Sender = {s1, s2}
  SenderOf <- MCSenderOf
  Poll = {p1, p2}
  PollerOf <- MCPollerOf
  Draft <- MCDraft
  Text = {x1}
  BufferCap = 1
  PageSize = 1
  Failures = TRUE
  MaxIds = 2
  MaxChanges = 2
SYMMETRY Symmetric
INVARIANTS TypeOK SenderOrder WaitersMatch SleepsOnlyWhen
PROPERTIES RevokedStays ImplementsFeed LossExplained
CHECK_DEADLOCK FALSE
