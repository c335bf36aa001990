\* One request beside the watchdog, one fault, cancellation or restart: the
\* device settles.
SPECIFICATION FairSpec
CONSTANTS
  r1 = r1
  r2 = r2
  Requests <- OneRequest
  Ops <- RecoveryOps
  MaxRequests = 1
  MaxFaults = 1
  MaxEvents = 2
  ScanAfter = 1
  RestartAfter = 1
  RegisterAfter = 1
  CycleAfter = 2
  IdleAfter = 1
  FailedAfter = 1
  StuckAfter = 2
PROPERTIES
  CellularSettles
CHECK_DEADLOCK FALSE
