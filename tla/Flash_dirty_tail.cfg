SPECIFICATION Spec
CONSTANTS
  HdrCells = 2
  Cap = 18
  SbCells = 2
  SectorCells = 10
  ProgramUnit = 1
  Lens = {0, 3}
  Residues = {}
  GoesOn = FALSE
  MaxAppends = 3
  MaxFormats = 1
  MaxFaults = 1
INVARIANTS
  CommittedStay
CHECK_DEADLOCK FALSE
