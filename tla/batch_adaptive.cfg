SPECIFICATION Safety
CONSTANTS
  N = 4
  MaxConcurrency = 3
  BaseConcurrency = 1
  Adaptive = TRUE
  AdaptiveInitial = 4
  AdaptiveMin = 1
  AdaptiveMax = 4
  Window = 2
  Governed = FALSE
  Cancellable = FALSE
  ProbesMayPanic = FALSE
INVARIANTS LimitInRange PermitsCoverLimit ReachesFullProgress
PROPERTIES ProgressNeverRegresses
