CONSTANTS
  Models = {m1, m2}
  MaxStarts = 3
  MaxCancels = 1
  MaxFaults = 1
SPECIFICATION PullSpec
CHECK_DEADLOCK FALSE
PROPERTY AddingNeverDrops
