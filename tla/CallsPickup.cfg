SPECIFICATION Spec
CONSTANTS
  Users = {a, b}
  None = None
  MaxCalls = 2
  MaxLost = 0
  MaxPresses = 4
INVARIANTS AnswerOnlyAfterPickup
CHECK_DEADLOCK FALSE
