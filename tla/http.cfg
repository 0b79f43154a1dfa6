SPECIFICATION Spec
CONSTANTS
  Byte <- Symbols
  Heads <- HeadEnds
  Bodies <- ChunkLists
  Endings <- Ends
  MaxUsize = 255
  MaxAttempts = 2
CHECK_DEADLOCK FALSE
INVARIANTS BodyIsWhole
PROPERTIES RequestEnds
