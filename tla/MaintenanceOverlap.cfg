\* Two threads, two sections and two tables, a sound and an unsound package, four
\* requests, changes or faults together, three of them of restorations; three assets
\* and five repairs or faults; two requests on an eSIM of two profiles, three
\* notifications, two faults; an alarm over seven samples; six failed logins in five
\* ticks.
SPECIFICATION Spec
CONSTANTS
  r1 = r1
  r2 = r2
  p1 = p1
  p2 = p2
  Sections <- TwoSections
  Tables <- TwoTables
  Restorable <- InPackage
  Default <- InSnapshot
  Requests <- TwoThreads
  MaxFiles = 1
  MaxRequests = 3
  Packages <- TwoPackages
  Sound <- GoodOne
  MaxUpdates = 4
  MaxEvents = 4
  MaxCandidates = 3
  MaxRepairs = 5
  Profiles <- TwoProfiles
  Jobs <- TwoThreads
  MaxTries = 2
  MaxNotes = 3
  MaxCalls = 2
  Limits <- TwoLimits
  MaxSamples = 7
  Threshold = 3
  Window = 2
  MaxFailures = 6
  MaxTime = 5
SYMMETRY Swapped
INVARIANTS
  TypeOK
  FileIsCurrent
  SnapshotCovers
  UpdateResumable
  TreeNotLost
  NotificationsKept
  AlarmsExact
CHECK_DEADLOCK FALSE
