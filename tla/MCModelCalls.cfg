CONSTANTS
  Calls = {c1, c2, c3}
  Homes = {h1}
  Ids = {i1, i2, i3}
  Models = {m1}
  Inventories <- Changing
  NoCall = NoCall
  NoModel = NoModel
  NoReq = NoReq
  MaxAborted = 0
  Idle = 4
  KeepaliveEvery = 3
  Timeout = 7
  MaxContent = 2
  MaxPieces = 2
  ToolCalls = {"x", "y"}
  Fragments = 2
  Honest = TRUE
  Procs = {"p", "q"}
  Seats = {"x", "y"}
  Warm = {"a", "b"}
  OnDemand = {"o"}
  WorkingSets = {1, 2}
  Total = 3
  Reserve = 1
  MaxOther = 1
  MaxFaults = 1
  None = None
SPECIFICATION Parts
CONSTRAINT AbortBound
SYMMETRY Symmetry
INVARIANT CeilingsHold
INVARIANT NoLostWakeup
INVARIANT AnswerIsWhole
INVARIANT AnswerIsInOrder
INVARIANT SilenceIsBounded
INVARIANT MachineHasRoom
PROPERTY ImplementsRationedCalls
