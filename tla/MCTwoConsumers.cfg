SPECIFICATION Spec
CONSTANTS
  c1 = c1
  c2 = c2
  m1 = m1
  m2 = m2
  m3 = m3
  Consumers <- TwoConsumers
  Messages <- TwoMessages
  MaxBatch = 1
  ChunkSize = 1
  Callback = "onSpill"
  LoopStarts = TRUE
  Hooks <- NoneOf
  Discard <- AllDiscards
  Errors <- NoneOf
  ErrorListener = TRUE
  Env <- NoneOf
  MaxBoots = 1
SYMMETRY FullSymmetry
INVARIANTS
  RateLimit
CHECK_DEADLOCK FALSE
