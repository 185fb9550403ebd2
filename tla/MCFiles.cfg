CONSTANTS
  Sessions = {s1, s2}
  None = None
  MaxEdits = 2
  MaxCrashes = 2
  MaxFailures = 2
  Procs = {p1, p2}
  Paths = {f1, f2}
  Records = {x}
  Nothing = Nothing
  MaxSeq = 3
  MaxFaults = 1
  LateSyncFails = FALSE
  Blocks = 2
  Attempts = 3
  MaxMishaps = 2
  MaxMeddles = 2
  NoName = NoName
SPECIFICATION Parts
INVARIANT BearerIsTracked
INVARIANT UserConfigComesBack
INVARIANT StoredIsTrue
INVARIANT ReceiptsSurvive
PROPERTY DownloadIsWhole
PROPERTY NothingIsLost
PROPERTY FilesSettle
