----------------------------- MODULE MCMqttStore -----------------------------
(***************************************************************************)
(* The instance of MqttStore for TLC.  Processes and entries are all alike.  *)
(***************************************************************************)
EXTENDS MqttStore, TLC

CONSTANTS c1, c2, e1, e2

TwoConsumers == {c1, c2}
TwoEntries == {e1, e2}
Swaps == Permutations(TwoConsumers) \cup Permutations(TwoEntries)
=============================================================================
