CONSTANTS
  p1 = p1
  p2 = p2
  Procs = {p1, p2}
  Keys = {k1, k2}
  Worker <- OneEnrollment
  NSlots = 2
  Rooms = {1, 2}
  NoSlot = NoSlot
  NoRecord = NoRecord
  MaxNames = 2
  MaxCrashes = 1
  MaxOutages = 0
  NL = NL
  Stars = Stars
  MaxServices = 0
  MaxAttempts = 0
  MaxMishaps = 0
SPECIFICATION Parts
INVARIANT NoReplacement
