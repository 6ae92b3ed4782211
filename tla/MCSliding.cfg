SPECIFICATION SlidingSpec
CONSTANTS
  c1 = c1
  c2 = c2
  Consumers <- TwoConsumers
  Slots <- ThreeSlots
  MaxBatch = 1
  Interval = 2
  MaxSkew = 1
  Drivers <- BothDrivers
  MaxFaults = 1
INVARIANTS
  SlidingTypeOK
  WindowBound
PROPERTIES
  CountsAreSeen
  QuotaComesBack
