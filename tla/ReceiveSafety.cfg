CONSTANTS
  c1 = c1
  c2 = c2
  MaxEnvelopes = 2
  Direct = {}
  Corrupt = {}
  Blocking = {TRUE, FALSE}
  Consumers = {c1, c2}
  FetchRetries = 1
  ReceiptRetries = 2
  MaxNotifications = 1
  MaxVisits = 1
  MaxLostAcks = 1
  MaxOutages = 0
  MaxCrashes = 1
SPECIFICATION Spec
SYMMETRY ConsumerSymmetry
INVARIANTS ShownOnce ShownInOrder NoneVanishes StoredHasJob
PROPERTY ImplementsMailbox
CHECK_DEADLOCK FALSE
