SPECIFICATION LiteSpec
CONSTANTS
  c1 = c1
  c2 = c2
  Consumers <- OneConsumer
  MaxBatch = 1
  MaxInFlight = 2
  MaxUses = 2
  MaxFaults = 0
INVARIANT ConfirmedIsCounted
