SPECIFICATION LiteSpec
CONSTANTS
  c1 = c1
  c2 = c2
  Consumers <- TwoConsumers
  MaxBatch = 1
  MaxInFlight = 1
  MaxUses = 2
  MaxFaults = 1
INVARIANTS
  LiteTypeOK
  UsesAreAccounted
  FaultlessIsCounted
  NeverRefused
PROPERTIES
  IncrementReturns
  Converges
