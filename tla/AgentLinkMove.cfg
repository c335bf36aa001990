\* One SMS and one event, which every Hub refuses; the agent loses its session
\* twice and changes to another Hub, or enrolls again, twice.
SPECIFICATION FairSpec
CONSTANTS
  h1 = h1
  h2 = h2
  SmsItems = {1}
  OtherItems = {2}
  Refused = {2}
  Hubs <- TwoHubs
  NoHub = NoHub
  Limit = 1
  MaxEnvelopes = 3
  MaxBreaks = 2
  MaxMoves = 2
INVARIANTS
  SyncedIsHeld
PROPERTIES
  SmsReachesHub
CHECK_DEADLOCK FALSE
