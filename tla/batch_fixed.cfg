SPECIFICATION Safety
CONSTANTS
  N = 4
  MaxConcurrency = 2
  BaseConcurrency = 3
  Adaptive = FALSE
  AdaptiveInitial = 1
  AdaptiveMin = 1
  AdaptiveMax = 2
  Window = 1
  Governed = FALSE
  Cancellable = TRUE
  ProbesMayPanic = TRUE
INVARIANTS FixedConcurrencyBound ResultsFaithful NothingOutlivesBatch
PROPERTIES ImplementsContract
