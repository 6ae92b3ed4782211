SPECIFICATION MqttSpec
CONSTANTS
  c1 = c1
  c2 = c2
  e1 = e1
  e2 = e2
  Consumers <- TwoConsumers
  Entries <- TwoEntries
  MaxBatch = 1
  MaxFaults = 1
INVARIANTS
  MqttTypeOK
  NothingIsMissed
  OwnIsCounted
  ReadyOnceHeard
  AnswersLeaveRoom
SYMMETRY Swaps
\* Every client may have ended for good.
CHECK_DEADLOCK FALSE
