\* The user's data switch beside the watchdog and the task of the start.
SPECIFICATION Spec
CONSTANTS
  r1 = r1
  r2 = r2
  Requests <- OneRequest
  Ops <- UserSwitches
  MaxRequests = 1
  MaxFaults = 0
  MaxEvents = 1
  ScanAfter = 1
  RestartAfter = 2
  RegisterAfter = 1
  CycleAfter = 2
  IdleAfter = 2
  FailedAfter = 1
  StuckAfter = 2
PROPERTIES
  UserOffHolds
CHECK_DEADLOCK FALSE
