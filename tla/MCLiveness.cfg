SPECIFICATION FairSpec
CONSTANTS
  c1 = c1
  c2 = c2
  m1 = m1
  m2 = m2
  m3 = m3
  Consumers <- TwoConsumers
  Messages <- TwoMessages
  MaxBatch = 1
  ChunkSize = 1
  Callback = "onSpill"
  LoopStarts = TRUE
  Hooks <- NoneOf
  Discard <- AllDiscards
  Errors <- PlainErrors
  ErrorListener = TRUE
  Env <- StopEnv
  MaxBoots = 1
PROPERTIES
  TakenIsSettled
  NoStarvation
CHECK_DEADLOCK FALSE
