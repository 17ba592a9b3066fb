SPECIFICATION Spec
CONSTANTS
  U32 = 10
  Kinds = {"flash"}
  MaxCalls = 6
INVARIANTS
  StaleRejected
CHECK_DEADLOCK FALSE
