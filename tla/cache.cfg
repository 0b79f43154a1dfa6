CONSTANTS
  Proc = {p1, p2}
  LastDay = 2
  MaxAge = 1
  MaxAttempts = 2
  MaxFaults = 1
  Width = 12
  Network <- Lines
  Addresses <- Edges
SPECIFICATION Spec
INVARIANTS ServedIsFresh TornHasWriter OneFileAtRest OnlyOfficialAddresses
PROPERTY LoadEnds
