\* Two requests of any kind that overlap, two faults.
SPECIFICATION Spec
CONSTANTS
  r1 = r1
  r2 = r2
  Requests <- TwoRequests
  Ops <- AllOps
  MaxRequests = 2
  MaxFaults = 2
  MaxEvents = 2
  ScanAfter = 1
  RestartAfter = 2
  RegisterAfter = 1
  CycleAfter = 2
  IdleAfter = 2
  FailedAfter = 1
  StuckAfter = 2
INVARIANTS
  SwitchAgrees
  RadioOffHasReason
SYMMETRY Symmetry
CHECK_DEADLOCK FALSE
