SPECIFICATION Spec
CONSTANTS
  c1 = c1
  c2 = c2
  m1 = m1
  m2 = m2
  m3 = m3
  Consumers <- OneConsumer
  Messages <- ThreeMessages
  MaxBatch = 2
  ChunkSize = 2
  Callback = "onItem"
  LoopStarts = TRUE
  Hooks <- AllHooks
  Discard <- NoneOf
  Errors <- RetryErrors
  ErrorListener = TRUE
  Env <- AllEnv
  MaxBoots = 2
SYMMETRY MessageSymmetry
INVARIANTS
  Accounted
  RateBound
  LossBound
  NothingDropped
  UnackedIsInFlight
PROPERTIES
  ImplementsBucket
CHECK_DEADLOCK FALSE
