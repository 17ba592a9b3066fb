SPECIFICATION Spec
CONSTANTS
  U32 = 10
  Kinds = {"linear", "ring"}
  MaxCalls = 6
INVARIANTS
  TypeOK
  StaleRejected
  NeverAcrossFormat
CHECK_DEADLOCK FALSE
