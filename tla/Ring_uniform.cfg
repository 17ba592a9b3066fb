SPECIFICATION Spec
CONSTANTS
  U32 = 32
  HdrCells = 1
  Cap = 14
  Reserve = 9
  Lens = {1}
  SeqRange = 15
  MaxCalls = 18
  MaxFaults = 0
  MaxFormats = 2
  TornWrites = FALSE
INVARIANTS
  HealthyRing
  KeepsNewest
PROPERTIES
  ImplementsRingLog
CHECK_DEADLOCK FALSE
