CONSTANTS
  p1 = p1
  p2 = p2
  Procs = {p1, p2}
  Keys = {k1, k2}
  Worker <- OneEnrollment
  NSlots = 2
  Rooms = {1, 2}
  NoSlot = NoSlot
  NoRecord = NoRecord
  MaxNames = 2
  MaxCrashes = 1
  MaxOutages = 1
  NL = NL
  Stars = Stars
  MaxServices = 1
  MaxAttempts = 2
  MaxMishaps = 2
SPECIFICATION Parts
INVARIANT NothingIsUnaccounted
INVARIANT BuildsAreAlone
INVARIANT RoomIsSpentOnce
INVARIANT BuildsAreWhole
PROPERTY BuildsEnd
