-------------------------- MODULE CoordinatorStore --------------------------
(***************************************************************************)
(* The counter behind a CoordinatorDriver: what has been spilled in the    *)
(* current window, and the quota that leaves.  The arithmetic is that of   *)
(* src/coordinators/memory.ts, the class the lite server keeps per queue;  *)
(* window ends are the setInterval of its constructor.                     *)
(***************************************************************************)
EXTENDS Integers

CONSTANT MaxBatch  \* the quota of one window (maxBatch, 1 .. 100000)

ASSUME MaxBatchAssumption == MaxBatch \in Nat \ {0}

VARIABLE total  \* items counted since the window began (#total)

StoreTypeOK == total \in Nat
StoreInit == total = 0

\* Mutants: the balance without its lower bound, and without the total.
BalanceUnclamped == MaxBatch - total
BalanceWhole == MaxBatch
\* get balance(): maxBatch minus the total, and at least 0.
Balance == IF total >= MaxBatch THEN 0 ELSE MaxBatch - total

\* Mutants: a chunk counted as one item, and an increment that is dropped.
IncrementAsOne(n) == total' = total + (IF n > 0 THEN 1 ELSE 0)
IncrementNothing(n) == total' = total
\* increment(by).
Increment(n) == total' = total + n

\* reset(), and the interval timer of the constructor.
ResetTotal == total' = 0
=============================================================================
