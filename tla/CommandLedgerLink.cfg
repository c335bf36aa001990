\* One command sent twice, over one lost session and one restart or
\* replacement of the runtime; the store may fail under the execution task.
SPECIFICATION FairSpec
CONSTANTS
  c1 = c1
  Commands <- OneCommand
  MaxReceipts = 2
  MaxBreaks = 1
  MaxOpens = 1
  StoreFaults = TRUE
INVARIANTS
  TypeOK
  AtMostOnce
  OneOutcome
PROPERTIES
  ImplementsOutcome
  ResultsArrive
CHECK_DEADLOCK FALSE
