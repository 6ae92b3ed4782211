SPECIFICATION FairSpec
CONSTANTS
  c1 = c1
  c2 = c2
  m1 = m1
  m2 = m2
  m3 = m3
  Consumers <- OneConsumer
  Messages <- TwoMessages
  MaxBatch = 1
  ChunkSize = 1
  Callback = "onSpill"
  LoopStarts = FALSE
  Hooks <- NoneOf
  Discard <- AllDiscards
  Errors <- NoneOf
  ErrorListener = TRUE
  Env <- NoneOf
  MaxBoots = 1
PROPERTIES
  TicksUntilCorked
CHECK_DEADLOCK FALSE
