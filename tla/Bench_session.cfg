SPECIFICATION Spec
CONSTANTS
  PsramReady = TRUE
  SdReady = TRUE
  RestartDelay = 1
  HostModes = {TRUE, FALSE}
  LogRecords = 3
  Burst = 2
  MaxUptime = 1
  MaxFaults = 1
  MaxCuts = 2
INVARIANTS
  TypeOK
  NoneSkippedSilently
  TalliesExact
  FailureIsReported
  OneCutNeverFails
PROPERTIES
  VerdictStands
  SessionEnds
CHECK_DEADLOCK FALSE
