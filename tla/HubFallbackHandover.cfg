\* Two events; the session ends once and the tasks are restarted once.
SPECIFICATION FairSpec
CONSTANTS
  Events <- TwoEvents
  MaxBreaks = 1
  MaxRestarts = 1
INVARIANTS
  TypeOK
  RoutedOnce
  SettledIsPushed
PROPERTIES
  EventIsPushed
CHECK_DEADLOCK FALSE
