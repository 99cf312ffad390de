\* Two callers, two messages on one id, one user deletion, one crash, text transcripts.
CONSTANTS
  c1 = c1
  c2 = c2
  Callers = {c1, c2}
  MaxId = 1
  MaxMessages = 2
  Seconds = {0, 1}
  MillisPerSecond = 2
  LastStart = 1
  MaxTime = 3
  MaxDeletes = 1
  MaxCrashes = 1
  SyncedTables = {FALSE}
SPECIFICATION FairSpec
INVARIANTS TypeOK Tracked NeverOversleeps
PROPERTY KeptUntilDue ExpiresUnlessCorrupted
CHECK_DEADLOCK FALSE
