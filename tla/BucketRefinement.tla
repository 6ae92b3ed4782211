-------------------------- MODULE BucketRefinement --------------------------
(***************************************************************************)
(* The consumer of BucketQueue keeps the discipline of Bucket.             *)
(***************************************************************************)
EXTENDS BucketQueue

\* What a tick has claimed and not used: gets to come, and items in the tick
\* whose callback is not over.
Unused(c) == asked[c] + Cardinality(Staged(c) \ Owed(c))

Q == INSTANCE Bucket WITH
       Items <- Messages,
       claim <- [c \in Consumers |-> Unused(c)],
       owed <- [c \in Consumers |-> Owed(c)]

\* Through all interleavings, failures and calls, a consumer of
\* RabbitMQToBucketQueue takes quota only when it owes nothing, uses no more
\* than it took, and counts every use once, unless it is lost (339-514).
ImplementsBucket == Q!BucketSpec
=============================================================================
