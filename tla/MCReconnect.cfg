CONSTANTS
  Tokens = {k1, k2}
  Kinds = {credential, removed}
  RefusalStreak = 3
  RefusalGrace = 30
  MinBackoff = 1
  MaxBackoff = 15
  HoldMin = 60
  HoldMax = 120
  Unused = Unused
  Commands = {c1, c2}
  Homes = {h1}
  Models = {m}
SPECIFICATION Parts
INVARIANT RequestsShow
PROPERTY WaitsAreEarned
PROPERTY WorkerComesBack
