CONSTANTS
  c1 = c1
  c2 = c2
  Calls = {c1, c2}
  Watched = {"microphone", "player"}
  Outgoing = {c1}
  Connecting = {c1, c2}
  MaxEvents = 1
SPECIFICATION FairSpec
INVARIANTS TypeOK SafeTeardown Quiet MuteObeyed
PROPERTIES DisplacedOnlyByFailure HangupReturns HangupTold
CHECK_DEADLOCK FALSE
