SPECIFICATION Spec
CONSTANTS
  Providers <- MCProviders
  Refunds <- MCRefunds
  ProviderEventIds <- MCProviderEventIds
  ProviderEvents <- MCOneProvider
  PartnerRequests <- MCRequests1
  RequestedType <- MCRequestedType
  Responses <- MCYes
  ResponseStatus <- MCResponseStatus
  Stamps <- MCStamps2
  Handlers = {h1}
  Callers = {}
  Workers = {w1, w2}
  CallerTriggers <- MCNoTriggers
  Releasing = FALSE
  MaxRetries = 2
  MaxDeliveryAttempts = 2
  MaxVersion = 8
  MaxCrashes = 2
SYMMETRY Symmetry
CHECK_DEADLOCK FALSE
INVARIANTS
  AckedMeansStored
  ResolutionNeverStranded
  OneSemanticEffect
