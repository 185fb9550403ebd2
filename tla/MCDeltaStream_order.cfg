CONSTANTS
  Idle = 10
  KeepaliveEvery = 4
  Timeout = 14
  MaxContent = 2
SPECIFICATION DeltaSpec
CHECK_DEADLOCK FALSE
INVARIANT AllContentIsKept
