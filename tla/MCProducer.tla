----------------------------- MODULE MCProducer -----------------------------
(***************************************************************************)
(* The instance of Producer for TLC: one producer with two calls, and one  *)
(* consumer, each given any of the configurations below.                   *)
(***************************************************************************)
EXTENDS DeliveryRefinement

CONSTANTS c1, p1, k1, k2

OneConsumer == {c1}
OneProducer == {p1}
TwoCalls == {k1, k2}
TwoAndOne == [k \in {k1, k2} |-> IF k = k1 THEN 2 ELSE 1]

\* The call of two items has any flags, that of one has none.
AnyAndPlain ==
  [k \in {k1, k2} |->
     IF k = k1 THEN Flags ELSE {g \in Flags : ~g.keepOrder /\ ~g.rejectOnError}]

Own == [channel |-> "none", stale |-> FALSE, queueType |-> "queue",
        coordinator |-> "redis", both |-> FALSE, rest |-> TRUE]
Given == [Own EXCEPT !.channel = "confirmChannel"]
Samples ==
  [i \in {c1, p1} |->
     IF i = c1 THEN {Own, [Given EXCEPT !.coordinator = "memory"]}
     ELSE {Own, Given, [Own EXCEPT !.queueType = "confirmChannel"]}]
AllRepairs == {"ownChannel", "booted", "serializer"}
=============================================================================
