SPECIFICATION FairSpec
CONSTANTS
  Providers <- MCProviders
  Refunds <- MCRefunds
  ProviderEventIds <- MCProviderEventIds
  ProviderEvents <- MCTwoProviders
  PartnerRequests <- MCRequests1
  RequestedType <- MCRequestedType
  Responses <- MCYes
  ResponseStatus <- MCResponseStatus
  Stamps <- MCStamps1
  Handlers = {h1}
  Callers = {}
  Workers = {w1}
  CallerTriggers <- MCNoTriggers
  Releasing = FALSE
  MaxRetries = 2
  MaxDeliveryAttempts = 2
  MaxVersion = 8
  MaxCrashes = 1
CHECK_DEADLOCK FALSE
PROPERTIES
  ReadyCaseIsDecided
  AcceptedEventsSettle
