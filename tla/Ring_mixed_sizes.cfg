SPECIFICATION Spec
CONSTANTS
  U32 = 32
  HdrCells = 1
  Cap = 12
  Reserve = 9
  Lens = {0, 1, 2, 3, 6}
  SeqRange = 16
  MaxCalls = 6
  MaxFaults = 0
  MaxFormats = 1
  TornWrites = FALSE
INVARIANTS
  HealthyRing
CHECK_DEADLOCK FALSE
