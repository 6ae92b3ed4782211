SPECIFICATION FairSpec
CONSTANTS
  c1 = c1
  p1 = p1
  k1 = k1
  k2 = k2
  Consumers <- OneConsumer
  Producers <- OneProducer
  Configs <- Samples
  Repairs <- AllRepairs
  ErrorListener = TRUE
  Calls <- TwoCalls
  Size <- TwoAndOne
  Requests <- AnyAndPlain
INVARIANTS
  ProducerTypeOK
  DeathIsHeard
  OwnIsRouted
  ConfirmedIsHeld
  OrderIsKept
PROPERTIES
  RejectedStops
  ImplementsDelivery
  CallsSettle
\* Everything may be over.
CHECK_DEADLOCK FALSE
