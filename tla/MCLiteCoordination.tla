------------------------- MODULE MCLiteCoordination -------------------------
(***************************************************************************)
(* The instances of LiteCoordination for TLC.                              *)
(***************************************************************************)
EXTENDS LiteCoordination

CONSTANTS c1, c2

OneConsumer == {c1}
TwoConsumers == {c1, c2}
=============================================================================
