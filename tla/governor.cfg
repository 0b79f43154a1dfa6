SPECIFICATION Spec
CONSTANTS
  Enabled = TRUE
  FdLimit = 8
  Headroom = 1
  UserMax = 4
  ErrWindow = 3
  ErrThreshold = 20
  HardCap = 60
  SoftCap = 25
  MaxProposal = 5
INVARIANTS AnswersByContract ErrorsForgotten CapMonotone
