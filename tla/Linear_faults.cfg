SPECIFICATION Spec
CONSTANTS
  U32 = 16
  HdrCells = 1
  Cap = 18
  Lens = {0, 2}
  ReformatUsed = FALSE
  RetryOther = FALSE
  TornWrites = TRUE
  MaxAppends = 4
  MaxFormats = 2
  MaxFaults = 2
INVARIANTS
  TypeOK
  AlwaysMounts
  ContextAgrees
  IterationIsExact
PROPERTIES
  ImplementsAppendLog
CHECK_DEADLOCK FALSE
