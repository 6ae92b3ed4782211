--------------------------- MODULE MCBucketQueue ---------------------------
(***************************************************************************)
(* Instances of BucketQueue and BucketRefinement for TLC.                  *)
(***************************************************************************)
EXTENDS BucketRefinement, TLC

CONSTANTS c1, c2, m1, m2, m3

OneConsumer == {c1}
TwoConsumers == {c1, c2}
TwoMessages == {m1, m2}
ThreeMessages == {m1, m2, m3}

\* What the callbacks throw: an ordinary Error, a ReEnquableError as its
\* constructor makes it by default, and one that does not count.
PlainError == [reenqueue |-> FALSE, counts |-> FALSE]
RetryError == [reenqueue |-> TRUE, counts |-> TRUE]
FreeRetry == [reenqueue |-> TRUE, counts |-> FALSE]
CountedDrop == [reenqueue |-> FALSE, counts |-> TRUE]

PlainErrors == {PlainError}
RetryErrors == {RetryError, FreeRetry}
AllErrors == {PlainError, RetryError, FreeRetry, CountedDrop}

AllHooks == Phases
AllDiscards == Phases \cup {"invalid"}

\* What the environment does in a run.
AllFaults == Faults
AllEnv == Calls \cup Faults
CorkCalls == {"cork", "uncork"}
CoordinatorFaults == {"coordinatorError"}
CrashOnly == {"crash"}
ShutdownOnly == {"shutdown"}
StopEnv == {"cork", "crash", "coordinatorError"}
NoneOf == {}

MessageSymmetry == Permutations(Messages)
FullSymmetry == Permutations(Messages) \cup Permutations(Consumers)
=============================================================================
