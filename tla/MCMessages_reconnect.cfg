SPECIFICATION BothSpec
CONSTANTS
  user = user
  bot = bot
  s1 = s1
  s2 = s2
  c1 = c1
  p1 = p1
  p2 = p2
  Entity = {user, bot}
  Person = {user}
  Mode <- MCMode
  Disabled = {}
  Direct = FALSE
  Client = {c1}
  EntityOf <- MCEntityOf
  Sender = {s1}
  SenderOf <- OneSenderOf
  Poll = {}
  PollerOf <- NoPollerOf
  Draft <- MCDraft
  Text = {x1}
  BufferCap = 4
  PageSize = 2
  Failures = FALSE
  MaxIds = 4
  MaxChanges = 0
INVARIANTS ReconnectLosesNothing
CHECK_DEADLOCK FALSE
