SPECIFICATION Spec
CONSTANTS
  Portals = {p1, p2}
  Requests = {r1}
  Tokens = {r1, other}
  Responses = {yes, no}
  None = none
  Lifetime = 1
  MaxClock = 1
  MaxVersion = 3
SYMMETRY Symmetry
CHECK_DEADLOCK FALSE
INVARIANTS
  TypeOK
  TopicConsumable
  AnsweredInTime
  StrandedOnlyByFailure
PROPERTIES
  OneAnswerPerRequest
