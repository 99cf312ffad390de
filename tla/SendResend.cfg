CONSTANTS
  m1 = m1
  c1 = c1
  Messages = {m1}
  Expiring = {m1}
  Consumers = {c1}
  PushRetries = 1
  SmsRetries = 1
  SentRetries = 3
  Parts = 2
  Unsteady = {"secret"}
  MaxOutages = 0
  MaxCrashes = 1
  MaxResends = 1
  MaxNoService = 1
  MaxDeletes = 0
  MaxRows = 1
SPECIFICATION FairSpec
INVARIANTS TypeOK ClearOnlyIfChosen NoOrphan SentTimerRuns RepeatsExplained
CHECK_DEADLOCK FALSE
PROPERTY Settles
