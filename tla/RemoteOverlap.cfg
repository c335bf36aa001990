\* One row, two overlapping tasks, two operator retries, restarts, failing writes;
\* two requests about two Hubs, three requests, drops and failing writes; a loop and
\* a request over two domains, three failures or changes; two users of a card with
\* two channels, three sessions or faults; two clients, two calls at a time and two
\* requests about them; two cards with three profiles, two swaps and two listings at
\* a time; two events, two rules, two channels and a change, lost answer or retry; three
\* cells, two of one identity and two on one channel, and a reselection.
SPECIFICATION RemoteSpec
CONSTANTS
  r1 = r1
  s1 = s1
  s2 = s2
  u1 = u1
  u2 = u2
  h1 = h1
  h2 = h2
  n1 = n1
  n2 = n2
  a1 = a1
  a2 = a2
  c1 = c1
  c2 = c2
  p1 = p1
  p2 = p2
  p3 = p3
  e1 = e1
  e2 = e2
  NoCard = NoCard
  NoProfile = NoProfile
  x1 = x1
  x2 = x2
  k1 = k1
  k2 = k2
  NoRule = NoRule
  NoTarget = NoTarget
  t1 = t1
  t2 = t2
  t3 = t3
  None = None
  Rows <- OneRow
  Slots <- TwoSlots
  MaxAttempts = 2
  MaxMessages = 1
  BatchLimit = 1
  MaxRetries = 2
  MaxRestarts = 2
  ChannelFlaps = TRUE
  DbFaults = TRUE
  Hubs <- TwoHubs
  Offered <- FiveSettings
  Callers <- TwoUsers
  MaxSaves = 3
  Domains <- TwoNames
  Addresses <- TwoAddresses
  Plans <- ThreePlans
  Askers <- OneAsker
  MaxTroubles = 3
  Sims <- TwoUsers
  Lines <- TwoLines
  MaxExchanges = 2
  Attempts = 2
  MaxSessions = 3
  Phones <- TwoUsers
  MaxVoice = 2
  MaxRows = 3
  MaxVoiceAsks = 2
  Cards <- TwoCards
  Profiles <- ThreeProfiles
  Home <- TwoOnOne
  Viewers <- TwoUsers
  MaxViews = 2
  MaxSwaps = 2
  Rules <- TwoRules
  Targets <- TwoTargets
  Schemes <- FourSchemes
  MaxRouted = 2
  MaxChanges = 1
  Towers <- ThreeTowers
  Pci <- SharedPcis
  ArfcnOf <- TwoArfcns
  BandOf <- TheBands
  Tabled = {1850}
  MaxMoves = 1
SYMMETRY Swapped
INVARIANTS
  RemoteTypeOK
  DeliveryBound
  ExclusiveClaim
  SecretsStayHome
  LifecycleAgrees
  SyncedIsTrue
  SessionsKeepApart
  CallsTrue
  ListingTrue
  RecordsOwn
  RoutedAsPlanned
  CellsTold
PROPERTIES
  OutcomeIsFinal
CHECK_DEADLOCK FALSE
