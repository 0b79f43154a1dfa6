SPECIFICATION Safety
CONSTANTS
  N = 5
  MaxConcurrency = 2
  BaseConcurrency = 1
  Adaptive = TRUE
  AdaptiveInitial = 2
  AdaptiveMin = 1
  AdaptiveMax = 2
  Window = 1
  Governed = FALSE
  Cancellable = FALSE
  ProbesMayPanic = FALSE
INVARIANTS InFlightWithinCeiling
