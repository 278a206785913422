SPECIFICATION Spec
CONSTANTS
  Providers = {"stripe", "resolvia_demo_provider"}
  Refunds = {"re1"}
  ProviderEventIds = {"evt1"}
  ProviderEvents <- MCProviderEvents
  PartnerRequests = {"r1"}
  RequestedType <- MCRequestedType
  Responses = {"yes", "no"}
  ResponseStatus <- MCResponseStatus
  Stamps <- MCStamps
  PartyLimit = 4
  ReferenceLimit = 6
  EventLimit = 6
  ObservedLimit = 4
  Nobody = "nobody"
  Workers = {w1, w2}
  BatchLimit = 4
  LeaseTime = 1
  RetryDelay = 2
  MaxRetries = 2
  Answers <- MCAnswers
  Outages <- MCOutages
  MaxClock = 2
SYMMETRY Symmetry
CHECK_DEADLOCK FALSE
INVARIANTS
  TypeOK
  AttemptsBounded
  LiveLeaseIsExclusive
  AnalysisIsRecorded
  GroundedRunIsStorable
  ShownAnalysisIsTrue
PROPERTIES
  PolicyIsValidated
  GuidanceIsTruthful
