SPECIFICATION Spec
CONSTANTS
  Providers <- MCProviders
  Refunds <- MCRefunds
  ProviderEventIds <- MCProviderEventIds
  ProviderEvents <- MCOneProvider
  PartnerRequests <- MCRequests2
  RequestedType <- MCRequestedType
  Responses <- MCResponses
  ResponseStatus <- MCResponseStatus
  Stamps <- MCStamps1
  Handlers = {h1, h2}
  Callers = {}
  Workers = {w1}
  CallerTriggers <- MCNoTriggers
  Releasing = FALSE
  MaxRetries = 2
  MaxDeliveryAttempts = 2
  MaxVersion = 8
  MaxCrashes = 0
SYMMETRY Symmetry
CHECK_DEADLOCK FALSE
INVARIANTS
  TypeOK
  AuditTrail
  OneSemanticEffect
  OneResponsePerRequest
PROPERTIES
  NoResolutionOverContradiction
