CONSTANTS
  N = 3
  Threads = 2
  Concurrency = 2
  Callers = {"library", "cli"}
SPECIFICATION Spec
CHECK_DEADLOCK FALSE
INVARIANTS ResultsComplete StrayWorkersOnlyAfterFailure
PROPERTY BatchEnds
