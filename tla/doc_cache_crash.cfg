CONSTANTS
  Proc = {p1}
  LastDay = 2
  MaxAge = 1
  MaxAttempts = 2
  MaxFaults = 1
SPECIFICATION Safety
INVARIANT LoadedWhole
