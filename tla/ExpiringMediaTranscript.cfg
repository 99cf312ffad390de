\* Transcripts of media messages: the delay is passed in seconds.
CONSTANTS
  c1 = c1
  c2 = c2
  Callers = {c1}
  MaxId = 1
  MaxMessages = 1
  Seconds = {0, 1}
  MillisPerSecond = 2
  LastStart = 2
  MaxTime = 4
  MaxDeletes = 0
  MaxCrashes = 0
  SyncedTables = {FALSE, TRUE}
SPECIFICATION Spec
PROPERTY KeptUntilDue
CHECK_DEADLOCK FALSE
