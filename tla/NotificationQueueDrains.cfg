\* Two rows share a one-message window under fairness; an operator retry each, a
\* restart, and a channel that comes and goes.
SPECIFICATION FairSpec
CONSTANTS
  r1 = r1
  r2 = r2
  s1 = s1
  s2 = s2
  Rows <- TwoRows
  Slots <- OneSlot
  MaxAttempts = 2
  MaxMessages = 1
  BatchLimit = 1
  MaxRetries = 1
  MaxRestarts = 1
  ChannelFlaps = TRUE
  DbFaults = FALSE
PROPERTIES
  QueueDrains
\* The queue may come to rest with every row settled.
CHECK_DEADLOCK FALSE
