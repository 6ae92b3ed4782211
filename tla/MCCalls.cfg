SPECIFICATION Spec
CONSTANTS
  c1 = c1
  c2 = c2
  m1 = m1
  m2 = m2
  m3 = m3
  Consumers <- TwoConsumers
  Messages <- TwoMessages
  MaxBatch = 2
  ChunkSize = 2
  Callback = "onItem"
  LoopStarts = TRUE
  Hooks <- NoneOf
  Discard <- AllDiscards
  Errors <- RetryErrors
  ErrorListener = FALSE
  Env <- Calls
  MaxBoots = 1
SYMMETRY FullSymmetry
INVARIANTS
  CorkedIsUnscheduled
PROPERTIES
  CorkedTakesNoMore
CHECK_DEADLOCK FALSE
