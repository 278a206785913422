SPECIFICATION Spec
CONSTANTS
  Providers = {"resolvia_demo_provider"}
  Refunds = {"re1"}
  ProviderEventIds = {"evt1"}
  ProviderEvents <- MCProviderEvents
  PartnerRequests = {"r1"}
  RequestedType <- MCRequestedType
  Responses = {"yes"}
  ResponseStatus <- MCResponseStatus
  Stamps <- MCStamps
  Processes = {p1, p2}
  ResetLimit = 24
  MaxResets = 1
SYMMETRY Symmetry
CHECK_DEADLOCK FALSE
INVARIANTS
  TypeOK
  IndexesAgree
  HalfSeededHasCause
  QuietResetRestores
PROPERTIES
  PlansAreFresh
