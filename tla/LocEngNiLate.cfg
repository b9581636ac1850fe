CONSTANTS
  MaxRequests = 2
  MaxRestarts = 0
SPECIFICATION Spec
INVARIANT AnswersOwn
CHECK_DEADLOCK FALSE
