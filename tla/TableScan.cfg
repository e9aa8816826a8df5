SPECIFICATION FairSpec
CONSTANTS
  table = table
  scan1 = scan1
  r1 = r1
  r2 = r2
  r3 = r3
  r4 = r4
  None = None
  Table = table
  Scans <- OneScan
  Versions <- TwoVersions
  Queries <- SomeQueries
  Explicit <- AllButFourth
  MaxTerms = 2
  References <- SomeReferences
  Locations <- Places
  MaxStreams = 2
  StreamLists <- SomeStreams
  Second = 2
  ProbeAttempts = 2
  ProbeDelay = 1
  Timeout = 1
  Window = 2
  Backoff = 1
  ServerDelay = 1
  Lifetime = 2
  Margin = 1
  Epoch = 6
  MaxTime = 4
INVARIANTS
   SameTable DeadlineIsConservative ScanAnswers
PROPERTIES
  SnapshotInPast Ends
CHECK_DEADLOCK FALSE
