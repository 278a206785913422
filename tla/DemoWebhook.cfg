SPECIFICATION Spec
CONSTANTS
  Instances = {i1, i2}
  Requests <- MCRequests
  LeaseTime = 2
  Window = 2
  Limit = 2
  MaxAge = 2
  MaxFutureSkew = 1
  MaxClock = 4
  MaxLeases = 3
SYMMETRY Symmetry
CHECK_DEADLOCK FALSE
INVARIANTS
  TypeOK
  AcceptedMeansPublished
  OneLiveLease
  NonceBindsPayload
  PublicationBudget
PROPERTIES
  PublishedIsFinal
