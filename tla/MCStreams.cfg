CONSTANTS
  Sessions = {1}
  Ids = {1}
  Inventories <- OneCeiling
  MaxQueued = 2
  MaxMessages = 3
  MaxRenewals = 2
  Tools = {t1, t2}
  Tasks = {s1}
  Tool = t1
  Task = s1
  MaxStreams = 2
  MaxDrains = 1
  Calls = {c1, c2}
  Call = c1
  Homes = {h1, h2}
  Models = {m1}
  NoCall = NoCall
  NoModel = NoModel
  NoReq = NoReq
SPECIFICATION Parts
INVARIANT TurnTellsItself
INVARIANT ActionsAreWhole
INVARIANT StreamsAreApart
INVARIANT SessionsEndWhole
PROPERTY CancelIsHeard
PROPERTY FirstAbortIsTold
PROPERTY WorkEnds
