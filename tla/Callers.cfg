SPECIFICATION Spec
CONSTANTS
  Providers <- MCProviders
  Refunds <- MCRefunds
  ProviderEventIds <- MCProviderEventIds
  ProviderEvents <- MCOneProvider
  PartnerRequests <- MCRequests1
  RequestedType <- MCRequestedType
  Responses <- MCYes
  ResponseStatus <- MCResponseStatus
  Stamps <- MCStamps1
  Handlers = {h1}
  Callers = {c1}
  Workers = {w1}
  CallerTriggers <- MCClosingTriggers
  Releasing = TRUE
  MaxRetries = 2
  MaxDeliveryAttempts = 2
  MaxVersion = 8
  MaxCrashes = 0
CHECK_DEADLOCK FALSE
INVARIANTS
  AuditTrail
  ResolutionJustified
