\* An id is used again: a message without a timer is deleted.
CONSTANTS
  c1 = c1
  c2 = c2
  Callers = {c1}
  MaxId = 1
  MaxMessages = 2
  Seconds = {0, 1}
  MillisPerSecond = 2
  LastStart = 2
  MaxTime = 4
  MaxDeletes = 1
  MaxCrashes = 0
  SyncedTables = {FALSE}
SPECIFICATION Spec
PROPERTY NonExpiringKept
CHECK_DEADLOCK FALSE
