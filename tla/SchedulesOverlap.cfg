\* Both schedulers with a fixed and a periodic entry each, two and a half minutes.
SPECIFICATION SchedulesSpec
CONSTANTS
  TaskList <- TwoTasks
  RuleList <- TwoRules
  Fixed <- BothFixed
  Minutes <- SecondMinute
  Period = 3
  RunLimit = 2
  Timeout = 1
  Fallback = TRUE
  Retention = 2
  MaxEntries = 2
  MaxTime = 4
  MaxFaults = 1
PROPERTIES
  FixedOnce
  PeriodAfterEnd
CHECK_DEADLOCK FALSE
