CONSTANTS
  c1 = c1
  MaxEnvelopes = 2
  Direct = {2}
  Corrupt = {1}
  Blocking = {FALSE}
  Consumers = {c1}
  FetchRetries = 2
  ReceiptRetries = 2
  MaxNotifications = 0
  MaxVisits = 2
  MaxLostAcks = 0
  MaxOutages = 1
  MaxCrashes = 1
SPECIFICATION FairSpec
INVARIANTS TypeOK ReceiptMeansStored
PROPERTIES Drained ImplementsJobQueue
CHECK_DEADLOCK FALSE
