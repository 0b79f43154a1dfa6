CONSTANTS
  Domain = {"none", "empty", "default", "own"}
  MaxAttempts = 2
SPECIFICATION Spec
CHECK_DEADLOCK FALSE
INVARIANTS VerdictHasEvidence RequestsFollowProbe RetriesHonest DetectionBounded
