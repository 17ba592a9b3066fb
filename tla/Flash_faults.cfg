SPECIFICATION Spec
CONSTANTS
  HdrCells = 2
  Cap = 18
  SbCells = 2
  SectorCells = 10
  ProgramUnit = 2
  Lens = {1, 2}
  Residues = {1}
  GoesOn = FALSE
  MaxAppends = 3
  MaxFormats = 2
  MaxFaults = 2
INVARIANTS
  TypeOK
  ContextAgrees
  IterationInOrder
PROPERTIES
  ImplementsAppendLog
CHECK_DEADLOCK FALSE
