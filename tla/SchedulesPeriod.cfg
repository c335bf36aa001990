\* One periodic task, no faults, no cleanup of the log: the runs overlap.
SPECIFICATION SchedulesSpec
CONSTANTS
  TaskList <- OneTask
  RuleList <- NoRules
  Fixed <- NoFixed
  Minutes <- SecondMinute
  Period = 3
  RunLimit = 2
  Timeout = 1
  Fallback = TRUE
  Retention = 0
  MaxEntries = 0
  MaxTime = 4
  MaxFaults = 0
PROPERTIES
  OncePerPeriod
CHECK_DEADLOCK FALSE
