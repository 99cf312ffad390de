CONSTANTS
  MaxRetransmitCount = 0
  MaxTerminations = 1
  MaxFaults = 1
  HalfRange = 2
  MaxSent = 5
  MaxFlight = 2
  Strays <- ForeignPlaces
SPECIFICATION FairSpec
INVARIANTS TypeOK InitiatorLast InStep NoNoise
PROPERTIES ImplementsKeyAgreement ImplementsChannel Ends
CHECK_DEADLOCK FALSE
