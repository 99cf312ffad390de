CONSTANTS
  m1 = m1
  m2 = m2
  c1 = c1
  c2 = c2
  Messages = {m1, m2}
  Expiring = {}
  Consumers = {c1, c2}
  PushRetries = 2
  SmsRetries = 1
  SentRetries = 1
  Parts = 1
  Unsteady = {"secret"}
  MaxOutages = 1
  MaxCrashes = 0
  MaxResends = 0
  MaxNoService = 0
  MaxDeletes = 1
  MaxRows = 2
SPECIFICATION Spec
SYMMETRY SendSymmetry
INVARIANTS RepeatsExplained
PROPERTIES PushInOrder ImplementsJobQueue
CHECK_DEADLOCK FALSE
