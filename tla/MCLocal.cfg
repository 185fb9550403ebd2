CONSTANTS
  Homes = {1}
  Paired = {1, 2}
  MaxOps = 2
  MaxUpsets = 2
  Overlap = FALSE
  NoHome = NoHome
  Calls = {1, 2}
  Models = {1, 2}
  Stages = {permissions, models}
  Asking = permissions
  None = None
  MaxStarts = 3
  MaxCancels = 1
  MaxFaults = 1
  MaxGrants = 2
  MaxStops = 1
  MaxFailures = 1
  LateSyncFails = FALSE
SPECIFICATION Parts
CHECK_DEADLOCK FALSE
INVARIANT DecisionsSurvive
INVARIANT StopsTakeHold
INVARIANT PausesHold
INVARIANT OfferedIsPulled
PROPERTY OwnCloseCutsNothing
PROPERTY LocalWorkEnds
