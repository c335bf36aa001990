\* Two messages, one of them without a timestamp; three messages and faults
\* together.
SPECIFICATION FairSpec
CONSTANTS
  Msgs <- TwoMessages
  Untimed <- NoTime
  Legacy = {}
  MaxPath = 1
  MaxFaults = 3
  MaxEvents = 3
INVARIANTS
  IngestedOnce
  DeletedIsStored
PROPERTIES
  StoredAndCleared
CHECK_DEADLOCK FALSE
