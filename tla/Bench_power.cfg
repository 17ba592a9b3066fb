SPECIFICATION Spec
CONSTANTS
  Target = 2
  Attempts = 2
  MaxFailures = 3
INVARIANTS
  TypeOK
  SummaryNeverOvercounts
  TargetLeftPowered
  SummaryShowsFailure
PROPERTIES
  PortClosedAtCut
  SessionFinishes
CHECK_DEADLOCK FALSE
