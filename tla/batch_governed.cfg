SPECIFICATION Spec
CONSTANTS
  N = 3
  MaxConcurrency = 2
  BaseConcurrency = 1
  Adaptive = TRUE
  AdaptiveInitial = 3
  AdaptiveMin = 3
  AdaptiveMax = 3
  Window = 2
  Governed = TRUE
  Cancellable = TRUE
  ProbesMayPanic = TRUE
INVARIANTS OrdersDistinct
PROPERTIES ImplementsContract CancelEndsBatch BatchReturns
