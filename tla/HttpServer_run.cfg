SPECIFICATION Spec
CONSTANTS
  Requests <- FiveRequests
  Responses <- TwoResponses
  MaxRequests = 3
INVARIANTS HandedInOrder RefusedForCause OneAnswerEach
PROPERTY RequestsAnswered
CHECK_DEADLOCK FALSE
