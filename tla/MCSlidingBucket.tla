-------------------------- MODULE MCSlidingBucket --------------------------
(***************************************************************************)
(* The instance of SlidingBucket for TLC.                                  *)
(***************************************************************************)
EXTENDS SlidingBucket

CONSTANTS c1, c2

TwoConsumers == {c1, c2}
ThreeSlots == 1 .. 3
BothDrivers == {"database", "redis"}
=============================================================================
