CONSTANTS
  Absent = Absent
  Shells = {"s", "t"}
  Names = {"l", "a"}
  Clusters = {"c", "d"}
  Local = "l"
  Nobody = "-"
  MaxEdits = 3
  MaxFaults = 1
  Commands = {k1, k2}
  Workers = {w1}
  Keyring = TRUE
  Echoes = TRUE
  MaxMints = 3
  MaxMishaps = 1
  MaxWrites = 2
  MaxTouches = 2
SPECIFICATION Parts
SYMMETRY Alike
INVARIANT SignInsAreKept
INVARIANT TokensAreOfTheirCluster
INVARIANT OutcomesAreEarned
INVARIANT ExecToldTrue
PROPERTY CommandsGuessNothing
