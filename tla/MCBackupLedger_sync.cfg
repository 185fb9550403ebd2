CONSTANTS
  Procs = {p1, p2}
  Paths = {f1, f2}
  Records = {x}
  Nothing = Nothing
  MaxSeq = 4
  MaxFaults = 2
  LateSyncFails = TRUE
SPECIFICATION LedgerSpec
CHECK_DEADLOCK FALSE
INVARIANT ReceiptsSurvive
