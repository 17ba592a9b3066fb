SPECIFICATION Spec
CONSTANTS
  U32 = 32
  HdrCells = 2
  Cap = 10
  Reserve = 11
  Lens = {1, 3, 7}
  SeqRange = 16
  MaxCalls = 5
  MaxFaults = 2
  MaxFormats = 3
  TornWrites = TRUE
INVARIANTS
  TypeOK
  AckedIsDurable
  NoInvention
  InAppendOrder
  OldOrNew
  IterationInOrder
CHECK_DEADLOCK FALSE
