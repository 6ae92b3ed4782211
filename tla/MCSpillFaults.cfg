SPECIFICATION Spec
CONSTANTS
  c1 = c1
  c2 = c2
  m1 = m1
  m2 = m2
  m3 = m3
  Consumers <- TwoConsumers
  Messages <- TwoMessages
  MaxBatch = 2
  ChunkSize = 2
  Callback = "onSpill"
  LoopStarts = TRUE
  Hooks <- NoneOf
  Discard <- AllDiscards
  Errors <- AllErrors
  ErrorListener = TRUE
  Env <- AllFaults
  MaxBoots = 1
SYMMETRY FullSymmetry
INVARIANTS
  TypeOK
  QuotaBound
  RateBound
  UnackedIsInFlight
PROPERTIES
  ImplementsBucket
CHECK_DEADLOCK FALSE
