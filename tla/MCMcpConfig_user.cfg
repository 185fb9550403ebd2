CONSTANTS
  Sessions = {s1, s2}
  None = None
  MaxEdits = 2
  MaxCrashes = 1
  MaxFailures = 0
SPECIFICATION Spec
INVARIANT UserConfigIsKept
