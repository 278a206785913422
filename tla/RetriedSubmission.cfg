SPECIFICATION Spec
CONSTANTS
  Providers <- MCProviders
  Refunds <- MCRefunds
  ProviderEventIds <- MCProviderEventIds
  ProviderEvents <- MCOneProvider
  PartnerRequests <- MCRequests1
  RequestedType <- MCRequestedType
  Responses <- MCResponses
  ResponseStatus <- MCResponseStatus
  Stamps <- MCStamps2
  Handlers = {h1}
  Callers = {}
  Workers = {w1}
  CallerTriggers <- MCNoTriggers
  Releasing = FALSE
  MaxRetries = 2
  MaxDeliveryAttempts = 2
  MaxVersion = 8
  MaxCrashes = 0
CHECK_DEADLOCK FALSE
INVARIANTS
  RetryDeduplicated
