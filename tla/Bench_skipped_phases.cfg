SPECIFICATION Spec
CONSTANTS
  PsramReady = TRUE
  SdReady = TRUE
  RestartDelay = 1
  HostModes = {TRUE}
  LogRecords = 3
  Burst = 2
  MaxUptime = 1
  MaxFaults = 0
  MaxCuts = 0
INVARIANTS
  SessionPassMeansAllRan
CHECK_DEADLOCK FALSE
