\* No crash: a reference lost to LoadTask's unlocked insertion is never found again.
CONSTANTS
  c1 = c1
  c2 = c2
  Callers = {c1, c2}
  MaxId = 1
  MaxMessages = 2
  Seconds = {1}
  MillisPerSecond = 2
  LastStart = 1
  MaxTime = 3
  MaxDeletes = 0
  MaxCrashes = 0
  SyncedTables = {}
SPECIFICATION FairSpec
PROPERTY EveryStartedExpires
CHECK_DEADLOCK FALSE
