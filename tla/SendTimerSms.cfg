CONSTANTS
  m1 = m1
  c1 = c1
  Messages = {m1}
  Expiring = {m1}
  Consumers = {c1}
  PushRetries = 2
  SmsRetries = 2
  SentRetries = 3
  Parts = 2
  Unsteady = {}
  MaxOutages = 0
  MaxCrashes = 0
  MaxResends = 0
  MaxNoService = 0
  MaxDeletes = 0
  MaxRows = 1
SPECIFICATION Spec
INVARIANT SentTimerStarted
CHECK_DEADLOCK FALSE
