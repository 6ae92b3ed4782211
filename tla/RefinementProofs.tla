-------------------------- MODULE RefinementProofs --------------------------
(***************************************************************************)
(* BucketQueue implements Bucket, for every instance: each of its steps is *)
(* a step of Bucket or leaves what Bucket sees unchanged.                  *)
(***************************************************************************)
EXTENDS BucketQueueProofs, BucketRefinement

OwedStages == Settling \cup {"counting"}

\* The consumers other than c keep what Bucket sees of them.
OthersRest(c) ==
  \A d \in Consumers \ {c} : asked'[d] = asked[d] /\ stage'[d] = stage[d]

-----------------------------------------------------------------------------
(* What Bucket sees.                                                       *)

\* Bucket counts with the same operator.
LEMMA SameCardinality == \A S : Q!Cardinality(S) = Cardinality(S)
BY DEF Q!Cardinality, Cardinality

\* The two parts of a tick's work, and their sizes.
LEMMA UnusedType ==
  ASSUME Control, NEW c \in Consumers
  PROVE  /\ IsFiniteSet(Staged(c) \ Owed(c)) /\ IsFiniteSet(Owed(c))
         /\ Cardinality(Staged(c) \ Owed(c)) \in Nat
         /\ asked[c] \in Nat /\ Unused(c) \in Nat
         /\ total \in Nat /\ delivered \in Nat /\ lost \in Nat
<1>1. Staged(c) \ Owed(c) \in SUBSET Messages /\ Owed(c) \in SUBSET Messages
  BY DEF Staged, Owed
<1>2. asked[c] \in Nat /\ total \in Nat /\ delivered \in Nat /\ lost \in Nat
  BY MaxBatchAssumption DEF Control, TypeOK, StoreTypeOK
<1> QED
  BY <1>1, <1>2, MessageSets DEF Unused

\* A function over the consumers that changes at c only.
LEMMA MappedUpdate ==
  ASSUME NEW c \in Consumers, OthersRest(c)
  PROVE  /\ [d \in Consumers |-> Unused(d)]'
              = [[d \in Consumers |-> Unused(d)] EXCEPT ![c] = Unused(c)']
         /\ [d \in Consumers |-> Owed(d)]'
              = [[d \in Consumers |-> Owed(d)] EXCEPT ![c] = Owed(c)']
<1>1. \A d \in Consumers \ {c} : Unused(d)' = Unused(d) /\ Owed(d)' = Owed(d)
  BY DEF OthersRest, Unused, Owed, Staged
<1> QED
  BY <1>1

-----------------------------------------------------------------------------
(* Steps of consumer c, by what they do to what Bucket sees of it.         *)

LEMMA SameStep ==
  ASSUME UNCHANGED <<total, asked, stage, history>>
  PROVE  UNCHANGED Q!bucketVars
BY DEF Q!bucketVars, Unused, Owed, Staged, history

LEMMA GiveBackStep ==
  ASSUME Control, Control', NEW c \in Consumers, OthersRest(c),
         UNCHANGED <<total, history>>,
         Owed(c)' = Owed(c), Unused(c)' <= Unused(c)
  PROVE  Q!GiveBack(c)
<1>1. Unused(c) \in Nat /\ Unused(c)' \in Nat
  <2>1. asked'[c] \in Nat /\ Staged(c)' \ Owed(c)' \in SUBSET Messages
    BY MaxBatchAssumption DEF Control, TypeOK, Staged
  <2> QED
    BY <2>1, UnusedType, MessageSets DEF Unused
<1>2. [d \in Consumers |-> Owed(d)]' = [d \in Consumers |-> Owed(d)]
  BY MappedUpdate
<1>3. Unused(c)' \in 0 .. [d \in Consumers |-> Unused(d)][c]
  BY <1>1
<1> QED
  BY <1>2, <1>3, MappedUpdate DEF Q!GiveBack, history

LEMMA TakeStep ==
  ASSUME NEW c \in Consumers, OthersRest(c), UNCHANGED <<total, history>>,
         Unused(c) = 0, Owed(c) = {}, Owed(c)' = {}, Unused(c)' = Balance
  PROVE  Q!Take(c)
<1>1. [d \in Consumers |-> Owed(d)]' = [d \in Consumers |-> Owed(d)]
  BY MappedUpdate
<1>2. Q!Balance = Balance
  BY DEF Q!Balance, Balance
<1> QED
  BY <1>1, <1>2, MappedUpdate DEF Q!Take, history

LEMMA UseStep ==
  ASSUME Control, NEW c \in Consumers, OthersRest(c),
         NEW S \in SUBSET (Staged(c) \ Owed(c)),
         UNCHANGED <<total, asked, lost>>,
         Owed(c)' = Owed(c) \cup S, Staged(c)' = Staged(c),
         delivered' = delivered + Cardinality(S)
  PROVE  Q!Use(c)
<1>1. S \in SUBSET (Messages \ [d \in Consumers |-> Owed(d)][c])
  BY DEF Staged
<1>2. Staged(c)' \ Owed(c)' = (Staged(c) \ Owed(c)) \ S
  OBVIOUS
<1>3. /\ IsFiniteSet(Staged(c) \ Owed(c)) /\ Cardinality(Staged(c) \ Owed(c)) \in Nat
      /\ asked[c] \in Nat /\ (Staged(c) \ Owed(c)) \cap S = S
  BY UnusedType
<1>4. /\ Cardinality(S) \in Nat
      /\ Cardinality(S) <= Cardinality(Staged(c) \ Owed(c))
  BY <1>3, FS_Subset, FS_CardinalityType
<1>5. Cardinality((Staged(c) \ Owed(c)) \ S)
        = Cardinality(Staged(c) \ Owed(c)) - Cardinality(S)
  BY <1>3, FS_Difference
<1>6. Unused(c)' = asked[c] + Cardinality((Staged(c) \ Owed(c)) \ S)
  BY <1>2 DEF Unused
<1>7. /\ Unused(c)' = Unused(c) - Cardinality(S)
      /\ Cardinality(S) <= Unused(c)
  BY <1>3, <1>4, <1>5, <1>6 DEF Unused
<1> QED
  BY <1>1, <1>7, MappedUpdate, SameCardinality DEF Q!Use

\* Items of S leave the tick; n says how many of them are counted.
LEMMA SettleStep ==
  ASSUME Control, NEW c \in Consumers, OthersRest(c), NEW S \in SUBSET Owed(c),
         UNCHANGED <<asked, delivered>>, Staged(c)' = Staged(c) \ S,
         Owed(c)' = Owed(c) \ S,
         \/ total' = total + Cardinality(S) /\ lost' = lost
         \/ lost' = lost + Cardinality(S) /\ total' = total
  PROVE  Q!CountUses(c) \/ Q!LoseUses(c)
<1>1. Staged(c)' \ Owed(c)' = Staged(c) \ Owed(c)
  OBVIOUS
<1>2. Unused(c)' = Unused(c)
  BY <1>1 DEF Unused
<1>3. [d \in Consumers |-> Unused(d)]' = [d \in Consumers |-> Unused(d)]
  BY <1>2, MappedUpdate
<1> QED
  BY <1>3, MappedUpdate, SameCardinality
  DEF Q!CountUses, Q!LoseUses, Q!Increment

LEMMA StopStep ==
  ASSUME Control, NEW c \in Consumers, OthersRest(c),
         NEW R \in SUBSET (Staged(c) \ Owed(c)), NEW S \in SUBSET Owed(c),
         Unused(c)' = 0, Owed(c)' = {},
         total' = total + Cardinality(S),
         delivered' = delivered + Cardinality(R),
         lost' = lost + Cardinality(R \cup (Owed(c) \ S))
  PROVE  Q!Stop(c)
<1>1. /\ IsFiniteSet(Staged(c) \ Owed(c)) /\ IsFiniteSet(Owed(c))
      /\ Cardinality(Staged(c) \ Owed(c)) \in Nat /\ asked[c] \in Nat /\ lost \in Nat
  BY UnusedType
<1>2. /\ IsFiniteSet(R) /\ IsFiniteSet(Owed(c) \ S)
      /\ Cardinality(R) \in Nat /\ Cardinality(Owed(c) \ S) \in Nat
      /\ Cardinality(R) <= Cardinality(Staged(c) \ Owed(c))
  BY <1>1, FS_Subset, FS_CardinalityType
<1>3. R \cap (Owed(c) \ S) = {}
  OBVIOUS
<1>4. Cardinality(R \cup (Owed(c) \ S)) = Cardinality(R) + Cardinality(Owed(c) \ S)
  <2>1. Cardinality(R \cup (Owed(c) \ S))
          = Cardinality(R) + Cardinality(Owed(c) \ S) - Cardinality({})
    BY <1>2, <1>3, FS_Union
  <2> QED
    BY <1>2, <2>1, FS_EmptySet
<1>5. Cardinality(R) \in 0 .. [d \in Consumers |-> Unused(d)][c]
  BY <1>1, <1>2 DEF Unused
<1>6. lost' = lost + Cardinality(R) + Cardinality([d \in Consumers |-> Owed(d)][c] \ S)
  BY <1>1, <1>2, <1>4
<1>7. S \in SUBSET [d \in Consumers |-> Owed(d)][c]
  OBVIOUS
<1> QED
  BY <1>5, <1>6, <1>7, MappedUpdate, SameCardinality DEF Q!Stop, Q!Increment

LEMMA RenewStep ==
  ASSUME NewWindow, UNCHANGED <<asked, stage>>
  PROVE  Q!Renew
BY DEF NewWindow, ResetTotal, Q!Renew, Q!ResetTotal, Unused, Owed, Staged

-----------------------------------------------------------------------------
(* The steps of BucketQueue, by the form they have in common.              *)

\* Only what is in c's tick changes, and it is one of Bucket's steps.
BucketStep == Q!BucketNext \/ UNCHANGED Q!bucketVars

\* A step of consumer c alone is a step of Bucket.
LEMMA StepOf ==
  ASSUME NEW c \in Consumers,
         \/ Q!Take(c) \/ Q!GiveBack(c) \/ Q!Use(c)
         \/ Q!CountUses(c) \/ Q!LoseUses(c) \/ Q!Stop(c)
  PROVE  BucketStep
BY DEF BucketStep, Q!BucketNext

\* Move changes the tick of one consumer, message by message.
LEMMA MoveOthers ==
  ASSUME Control, NEW c \in Consumers, NEW S \in SUBSET Messages, NEW s \in Stages,
         Move(c, S, s), UNCHANGED asked
  PROVE  /\ OthersRest(c)
         /\ \A m \in Messages : stage'[c][m] = IF m \in S THEN s ELSE stage[c][m]
BY MoveStage DEF Control, TypeOK, Move, OthersRest

\* Messages that have used nothing move on in the tick, or leave it.
LEMMA MoveIsGiveBack ==
  ASSUME Control, Control', NEW c \in Consumers,
         NEW S \in SUBSET (Staged(c) \ Owed(c)),
         NEW s \in Stages \ OwedStages, Move(c, S, s),
         UNCHANGED <<asked, total, history>>
  PROVE  BucketStep
<1>1. S \in SUBSET Messages
  BY DEF Staged
<1>2. /\ OthersRest(c)
      /\ \A m \in Messages : stage'[c][m] = IF m \in S THEN s ELSE stage[c][m]
  BY <1>1, MoveOthers
<1>3. Owed(c)' = Owed(c)
  BY <1>2 DEF Owed, OwedStages
<1>4. Staged(c)' \subseteq Staged(c)
  BY <1>2 DEF Staged
<1>5. Unused(c)' <= Unused(c)
  <2>1. IsFiniteSet(Staged(c) \ Owed(c)) /\ Cardinality(Staged(c) \ Owed(c)) \in Nat
        /\ asked[c] \in Nat
    BY UnusedType
  <2>2. Staged(c)' \ Owed(c)' \in SUBSET (Staged(c) \ Owed(c))
    BY <1>3, <1>4
  <2>3. /\ Cardinality(Staged(c)' \ Owed(c)') <= Cardinality(Staged(c) \ Owed(c))
        /\ Cardinality(Staged(c)' \ Owed(c)') \in Nat
    BY <2>1, <2>2, FS_Subset, FS_CardinalityType
  <2> QED
    BY <2>1, <2>3 DEF Unused
<1> QED
  BY <1>2, <1>3, <1>5, GiveBackStep, StepOf

\* The unit whose callback is over uses quota.
LEMMA MoveIsUse ==
  ASSUME Control, NEW c \in Consumers, NEW S \in Units(c, "running"),
         NEW s \in OwedStages, Move(c, S, s), UNCHANGED <<asked, total, lost>>,
         delivered' = delivered + Cardinality(S)
  PROVE  BucketStep
<1>1. S \in SUBSET Messages /\ \A m \in S : stage[c][m] = "running"
  BY UnitsAreStaged DEF Stages
<1>2. S \in SUBSET (Staged(c) \ Owed(c))
  BY <1>1 DEF Staged, Owed, Settling
<1>3. s \in Stages /\ s # "none"
  BY DEF OwedStages, Stages, Settling
<1>4. /\ OthersRest(c)
      /\ \A m \in Messages : stage'[c][m] = IF m \in S THEN s ELSE stage[c][m]
  BY <1>1, <1>3, MoveOthers
<1>5. Owed(c)' = Owed(c) \cup S
  BY <1>1, <1>4 DEF Owed, OwedStages
<1>6. Staged(c)' = Staged(c)
  BY <1>1, <1>3, <1>4 DEF Staged
<1> QED
  BY <1>2, <1>4, <1>5, <1>6, UseStep, StepOf

\* A unit that was counted leaves the tick.
LEMMA MoveIsCount ==
  ASSUME Control, NEW c \in Consumers, NEW s \in OwedStages, NEW S \in Units(c, s),
         Move(c, S, "none"), Increment(Cardinality(S)), UNCHANGED <<asked, history>>
  PROVE  BucketStep
<1>1. "none" \in Stages /\ s \in Stages /\ "none" \notin OwedStages
  BY DEF OwedStages, Stages, Settling
<1>2. S \in SUBSET Messages /\ \A m \in S : stage[c][m] = s
  BY <1>1, UnitsAreStaged
<1>3. S \in SUBSET Owed(c)
  BY <1>2 DEF Owed, OwedStages
<1>4. /\ OthersRest(c)
      /\ \A m \in Messages : stage'[c][m] = IF m \in S THEN "none" ELSE stage[c][m]
  BY <1>1, <1>2, MoveOthers
<1>5. Owed(c)' = Owed(c) \ S /\ Staged(c)' = Staged(c) \ S
  BY <1>1, <1>4 DEF Owed, Staged, OwedStages
<1> QED
  BY <1>3, <1>4, <1>5, SettleStep, StepOf DEF Increment, history

\* The end of a process: R had just used quota, S had just been counted.
LEMMA ExitIsStop ==
  ASSUME Control, NEW c \in Consumers, NEW R \in Units(c, "running") \cup {{}},
         NEW S \in SUBSET Owed(c), Exit(c, R, S)
  PROVE  BucketStep
<1>1. R \in SUBSET (Staged(c) \ Owed(c))
  BY UnitsAreStaged DEF Stages, Staged, Owed, Settling
<1>2. OthersRest(c) /\ asked'[c] = 0 /\ \A m \in Messages : stage'[c][m] = "none"
  BY DEF Exit, Nothing, OthersRest, Control, TypeOK
<1>3. Staged(c)' = {} /\ Owed(c)' = {}
  BY <1>2 DEF Staged, Owed, Settling
<1>4. Staged(c)' \ Owed(c)' = {}
  BY <1>3
<1>5. Unused(c)' = 0
  <2>1. Unused(c)' = 0 + Cardinality({})
    BY <1>2, <1>4 DEF Unused
  <2> QED
    BY <2>1, FS_EmptySet
<1>6. /\ total' = total + Cardinality(S)
      /\ delivered' = delivered + Cardinality(R)
      /\ lost' = lost + Cardinality(R \cup (Owed(c) \ S))
  BY DEF Exit, Increment
<1> QED
  BY <1>1, <1>2, <1>3, <1>5, <1>6, StopStep, StepOf

LEMMA NackIsGiveBack ==
  ASSUME Control, Control', NEW c \in Consumers,
         NEW S \in SUBSET (Staged(c) \ Owed(c)), NEW requeue,
         Nack(c, S, requeue) \/ NackHeard(c, S, requeue)
  PROVE  BucketStep
<1>1. CASE Exit(c, {}, {})
  BY <1>1, ExitIsStop
<1>2. CASE Move(c, S, "none") /\ UNCHANGED <<asked, total, history>>
  <2>1. "none" \in Stages \ OwedStages
    BY DEF OwedStages, Stages, Settling
  <2> QED
    BY <1>2, <2>1, MoveIsGiveBack
<1> QED
  BY <1>1, <1>2 DEF Nack, NackHeard

-----------------------------------------------------------------------------
(* Every step of BucketQueue.                                              *)

LEMMA ReadIsTake ==
  ASSUME Control, Control', NEW c \in Consumers, ReadBalance(c)
  PROVE  BucketStep
<1>1. CASE asked' = asked
  <2>1. UNCHANGED <<total, asked, stage, history>>
    BY <1>1 DEF ReadBalance
  <2> QED
    BY <2>1, SameStep DEF BucketStep
<1>2. CASE asked' = [asked EXCEPT ![c] = Balance]
  <2>1. pc[c] = "reading" /\ UNCHANGED <<total, stage, history>>
    BY DEF ReadBalance
  <2>2. \A m \in Messages : stage[c][m] = "none"
    BY <2>1 DEF Control, StagedInv, WorkSteps, Phases
  <2>3. asked[c] = 0
    <3>1. asked[c] \in 0 .. MaxBatch
      BY DEF Control, TypeOK
    <3>2. ~(asked[c] > 0)
      BY <2>1 DEF Control, AskedInv
    <3> QED
      BY <3>1, <3>2, MaxBatchAssumption
  <2>4. asked'[c] = Balance /\ OthersRest(c)
    BY <1>2, <2>1 DEF OthersRest, Control, TypeOK
  <2>5. /\ Staged(c) = {} /\ Owed(c) = {} /\ Staged(c)' = {} /\ Owed(c)' = {}
    BY <2>1, <2>2 DEF Staged, Owed, Settling
  <2>6. Balance \in 0 .. MaxBatch
    BY BalanceType DEF Control, TypeOK, StoreTypeOK
  <2>7. Unused(c) = 0 /\ Unused(c)' = Balance
    <3>1. Unused(c) = 0 + Cardinality({}) /\ Unused(c)' = Balance + Cardinality({})
      <4>1. Staged(c) \ Owed(c) = {} /\ Staged(c)' \ Owed(c)' = {}
        BY <2>5
      <4> QED
        BY <2>3, <2>4, <4>1 DEF Unused
    <3> QED
      BY <2>6, <3>1, FS_EmptySet, MaxBatchAssumption
  <2> QED
    BY <2>1, <2>4, <2>5, <2>7, TakeStep, StepOf
<1> QED
  BY <1>1, <1>2 DEF ReadBalance

LEMMA GetIsGiveBack ==
  ASSUME Control, Control', NEW c \in Consumers, GetSingleMessage(c)
  PROVE  BucketStep
<1>1. /\ asked[c] \in 1 .. MaxBatch
      /\ asked'[c] = asked[c] - 1
      /\ \A d \in Consumers \ {c} : asked'[d] = asked[d]
      /\ UNCHANGED <<total, history>>
  BY DEF GetSingleMessage, Answered, Control, TypeOK, AskedInv
<1>2. \A m \in Messages : stage[c][m] \notin OwedStages
  BY DEF GetSingleMessage, Control, StagedInv, OwedStages, ActiveStages
<1>3. ASSUME NEW m \in Messages, Move(c, {m}, "got")
      PROVE  BucketStep
  <2>1. "got" \in Stages \ OwedStages
    BY DEF OwedStages, Stages, Settling
  <2>2. /\ \A n \in Messages : stage'[c][n] = IF n = m THEN "got" ELSE stage[c][n]
        /\ \A d \in Consumers \ {c} : stage'[d] = stage[d]
    BY <1>3 DEF Move, Control, TypeOK
  <2>3. OthersRest(c)
    BY <1>1, <2>2 DEF OthersRest
  <2>4. Owed(c) = {} /\ Owed(c)' = {}
    BY <1>2, <2>1, <2>2 DEF Owed, OwedStages
  <2>5. Staged(c)' \ Owed(c)' \in SUBSET ((Staged(c) \ Owed(c)) \cup {m})
    BY <2>2, <2>4 DEF Staged
  <2>6. IsFiniteSet(Staged(c) \ Owed(c)) /\ Cardinality(Staged(c) \ Owed(c)) \in Nat
    BY UnusedType
  <2>7. /\ IsFiniteSet((Staged(c) \ Owed(c)) \cup {m})
        /\ Cardinality((Staged(c) \ Owed(c)) \cup {m})
             <= Cardinality(Staged(c) \ Owed(c)) + 1
    BY <2>6, FS_AddElement
  <2>8. /\ Cardinality(Staged(c)' \ Owed(c)')
             <= Cardinality((Staged(c) \ Owed(c)) \cup {m})
        /\ Cardinality(Staged(c)' \ Owed(c)') \in Nat
        /\ Cardinality((Staged(c) \ Owed(c)) \cup {m}) \in Nat
    BY <2>5, <2>7, FS_Subset, FS_CardinalityType
  <2>9. Unused(c)' <= Unused(c)
    BY <1>1, <2>6, <2>7, <2>8, MaxBatchAssumption DEF Unused
  <2> QED
    BY <1>1, <2>3, <2>4, <2>9, GiveBackStep, StepOf
<1>4. CASE UNCHANGED stage
  <2>1. OthersRest(c) /\ Owed(c)' = Owed(c) /\ Staged(c)' = Staged(c)
    BY <1>1, <1>4 DEF OthersRest, Owed, Staged
  <2>2. Cardinality(Staged(c) \ Owed(c)) \in Nat
    BY UnusedType
  <2>3. Unused(c)' = asked'[c] + Cardinality(Staged(c) \ Owed(c))
    BY <2>1 DEF Unused
  <2>4. Unused(c)' <= Unused(c)
    BY <1>1, <2>2, <2>3, MaxBatchAssumption DEF Unused
  <2> QED
    BY <1>1, <2>1, <2>4, GiveBackStep, StepOf
<1> QED
  BY <1>3, <1>4 DEF GetSingleMessage, Ready

\* The end of the spill; without a callback it forgets what the tick holds.
LEMMA SpillOverIsGiveBack ==
  ASSUME Control, Control', NEW c \in Consumers, UniformInv, SpillOver(c)
  PROVE  BucketStep
<1>1. /\ \A m \in Messages : stage'[c][m] = "none"
      /\ OthersRest(c) /\ UNCHANGED <<asked, total, history>>
  BY DEF SpillOver, Nothing, Control, TypeOK, OthersRest
<1>2. Owed(c)' = {} /\ Staged(c)' = {}
  BY <1>1 DEF Owed, Staged, Settling
<1>3. Owed(c) = {}
  <2>1. CASE Callback = "none"
    BY <2>1 DEF UniformInv, Owed, ActiveStages
  <2>2. CASE Staged(c) = {}
    BY <2>2 DEF Owed, Staged, Settling
  <2> QED
    BY <2>1, <2>2 DEF SpillOver
<1>4. Unused(c)' <= Unused(c)
  <2>1. Staged(c)' \ Owed(c)' = {}
    BY <1>2
  <2>2. Cardinality(Staged(c) \ Owed(c)) \in Nat /\ asked[c] \in Nat
    BY UnusedType
  <2>3. Unused(c)' = asked[c] + 0
    BY <1>1, <2>1, FS_EmptySet DEF Unused
  <2> QED
    BY <2>2, <2>3 DEF Unused
<1> QED
  BY <1>1, <1>2, <1>3, <1>4, GiveBackStep, StepOf

LEMMA TickIsBucketStep ==
  ASSUME Control, Control', UniformInv, NEW c \in Consumers, Tick(c)
  PROVE  BucketStep
<1>1. {"got", "parsed", "valid", "running", "none"} \subseteq Stages \ OwedStages
  BY DEF Stages, OwedStages, Settling
<1>2. Settling \cup {"counting"} = OwedStages /\ OwedStages \subseteq Stages
  BY DEF OwedStages, Stages, Settling
<1>3. ASSUME NEW m \in Messages, stage[c][m] \in {"got", "parsed", "valid", "running"}
      PROVE  m \in Staged(c) \ Owed(c)
  BY <1>3 DEF Staged, Owed, Settling
<1>4. pc[c] \in Phases => /\ Before[pc[c]] \in {"got", "parsed"}
                         /\ After[pc[c]] \in {"parsed", "valid"}
  BY DEF Phases, Before, After
<1>5. CASE TickStart(c) \/ PhaseOver(c) \/ EndTick(c)
  BY <1>5, SameStep DEF TickStart, PhaseOver, EndTick, BucketStep
<1>6. CASE GetFails(c)
  BY <1>6, ExitIsStop DEF GetFails
<1>7. CASE PassThrough(c)
  <2>1. In(c, Before[pc[c]]) \in SUBSET (Staged(c) \ Owed(c))
    BY <1>3, <1>4, <1>7 DEF PassThrough, In
  <2> QED
    BY <1>1, <1>4, <1>7, <2>1, MoveIsGiveBack DEF PassThrough
<1>8. ASSUME NEW m \in Messages, HookPasses(c, m)
      PROVE  BucketStep
  <2>1. pc[c] \in Phases /\ stage[c][m] = Before[pc[c]]
    BY <1>8, ConfigAssumption DEF HookPasses
  <2>2. {m} \in SUBSET (Staged(c) \ Owed(c))
    BY <1>3, <1>4, <2>1
  <2> QED
    BY <1>1, <1>4, <1>8, <2>1, <2>2, MoveIsGiveBack DEF HookPasses
<1>9. ASSUME NEW m \in Messages, ItemInvalid(c, m)
      PROVE  BucketStep
  <2>1. {m} \in SUBSET (Staged(c) \ Owed(c))
    BY <1>3, <1>9 DEF ItemInvalid
  <2> QED
    BY <1>9, <2>1, NackIsGiveBack DEF ItemInvalid
<1>10. ASSUME NEW m \in Messages, NEW e \in Errors, HookThrows(c, m, e)
       PROVE  BucketStep
  <2>1. pc[c] \in Phases /\ stage[c][m] = Before[pc[c]]
    BY <1>10, ConfigAssumption DEF HookThrows
  <2>2. {m} \in SUBSET (Staged(c) \ Owed(c))
    BY <1>3, <1>4, <2>1
  <2> QED
    BY <1>10, <2>2, NackIsGiveBack DEF HookThrows
<1>11. CASE StartChunk(c)
  <2>1. PICK S \in Chunks(c) :
          Move(c, S, "running") /\ UNCHANGED <<asked, total, history>>
    BY <1>11 DEF StartChunk
  <2>2. S \in SUBSET (Staged(c) \ Owed(c))
    BY <1>3 DEF Chunks, In
  <2> QED
    BY <1>1, <2>1, <2>2, MoveIsGiveBack
<1>12. ASSUME NEW S \in SUBSET Messages, CallbackSucceeds(c, S)
       PROVE  BucketStep
  <2>1. S \in Units(c, "running")
    BY <1>12 DEF CallbackSucceeds
  <2>2. CASE IsOpen(c)
    BY <1>2, <1>12, <2>1, <2>2, MoveIsUse DEF CallbackSucceeds
  <2>3. CASE ~IsOpen(c)
    BY <1>12, <2>1, <2>3, ExitIsStop DEF CallbackSucceeds
  <2> QED
    BY <2>2, <2>3
<1>13. ASSUME NEW S \in SUBSET Messages, Count(c, S)
       PROVE  BucketStep
  BY <1>2, <1>13, MoveIsCount DEF Count
<1>14. ASSUME NEW S \in SUBSET Messages, NEW e \in Errors, CallbackFails(c, S, e)
       PROVE  BucketStep
  <2>1. S \in SUBSET (Staged(c) \ Owed(c))
    BY <1>14, UnitsAreStaged DEF CallbackFails, Stages, Staged, Owed, Settling
  <2> QED
    BY <1>14, <2>1, NackIsGiveBack DEF CallbackFails
<1>15. ASSUME NEW S \in SUBSET Messages, NEW e \in Errors, CallbackFailsCounted(c, S, e)
       PROVE  BucketStep
  <2>1. S \in Units(c, "running")
    BY <1>15 DEF CallbackFailsCounted
  <2>2. CASE PerItem \/ ErrorListener
    <3>1. "requeueing" \in OwedStages /\ "discarding" \in OwedStages
      BY DEF OwedStages, Settling
    <3> QED
      BY <1>15, <2>1, <2>2, <3>1, MoveIsUse DEF CallbackFailsCounted
  <2>3. CASE ~(PerItem \/ ErrorListener)
    BY <1>15, <2>1, <2>3, ExitIsStop DEF CallbackFailsCounted
  <2> QED
    BY <2>2, <2>3
<1>16. ASSUME NEW S \in SUBSET Messages, NEW s \in Settling, CountFailure(c, S, s)
       PROVE  BucketStep
  <2>1. S \in Units(c, s) /\ s \in OwedStages
    BY <1>2, <1>16 DEF CountFailure
  <2>2. CASE IsOpen(c) /\ ErrorListener
    BY <1>16, <2>1, <2>2, MoveIsCount DEF CountFailure
  <2>3. CASE ~(IsOpen(c) /\ ErrorListener)
    <3>1. S \in SUBSET Owed(c)
      BY <1>2, <2>1, UnitsAreStaged DEF Owed
    <3> QED
      BY <1>16, <2>3, <3>1, ExitIsStop DEF CountFailure
  <2> QED
    BY <2>2, <2>3
<1> QED
  BY <1>5, <1>6, <1>7, <1>8, <1>9, <1>10, <1>11, <1>12, <1>13, <1>14, <1>15, <1>16,
     ReadIsTake, GetIsGiveBack, SpillOverIsGiveBack DEF Tick

\* The fatal error handler, entered with no count to lose.
LEMMA FatalIsSame ==
  ASSUME Control, NEW c \in Consumers, NEW p, HandleFatalError(c, p, {}, stage[c])
  PROVE  BucketStep
<1>1. CASE IsOpen(c) \/ ErrorListener
  <2>1. stage' = stage /\ asked' = asked /\ total' = total /\ delivered' = delivered
    BY <1>1 DEF HandleFatalError, Control, TypeOK
  <2>2. lost' = lost
    BY <1>1, FS_EmptySet DEF HandleFatalError, Control, TypeOK
  <2> QED
    BY <2>1, <2>2, SameStep DEF BucketStep, history
<1>2. CASE ~(IsOpen(c) \/ ErrorListener)
  BY <1>2, ExitIsStop DEF HandleFatalError
<1> QED
  BY <1>1, <1>2

\* An increment that fails: with onItem its item is lost, with onSpill all
\* the tick holds goes with the one chunk in hand.
LEMMA FailedCountIsLoss ==
  ASSUME Control, Control', UniformInv, NEW c \in Consumers,
         NEW S \in SUBSET Messages, NEW s \in OwedStages, CountFails(c, S, s)
  PROVE  BucketStep
<1> DEFINE st == [m \in Messages |-> IF m \in S THEN "none" ELSE stage[c][m]]
<1>1. S \in Units(c, s) /\ s \in Stages
  BY DEF CountFails, OwedStages, Stages, Settling
<1>2. S # {} /\ S \in SUBSET Owed(c)
  BY <1>1, UnitsAreStaged DEF Owed, OwedStages
<1>3. CASE ~(IsOpen(c) \/ ErrorListener)
  BY <1>3, ExitIsStop DEF CountFails, HandleFatalError
<1>4. CASE (IsOpen(c) \/ ErrorListener) /\ PerItem
  <2>1. /\ stage' = [stage EXCEPT ![c] = st]
        /\ UNCHANGED <<total, asked, delivered>> /\ lost' = lost + Cardinality(S)
    BY <1>4 DEF CountFails, HandleFatalError
  <2>2. OthersRest(c) /\ \A m \in Messages : stage'[c][m] = st[m]
    BY <2>1 DEF Control, TypeOK, OthersRest
  <2>3. Owed(c)' = Owed(c) \ S /\ Staged(c)' = Staged(c) \ S
    BY <2>2 DEF Owed, Staged, Settling
  <2> QED
    BY <1>2, <2>1, <2>2, <2>3, SettleStep, StepOf
<1>5. CASE (IsOpen(c) \/ ErrorListener) /\ ~PerItem
  <2>1. /\ stage' = [stage EXCEPT ![c] = Nothing]
        /\ UNCHANGED <<total, asked, delivered>> /\ lost' = lost + Cardinality(S)
    BY <1>5 DEF CountFails, HandleFatalError
  <2>2. OthersRest(c) /\ \A m \in Messages : stage'[c][m] = "none"
    BY <2>1 DEF Control, TypeOK, OthersRest, Nothing
  <2>3. S = In(c, s)
    BY <1>1, <1>5 DEF Units
  <2>4. Owed(c) = S
    BY <1>2, <1>5, <2>3 DEF UniformInv, Owed, In, ActiveStages, OwedStages, Settling
  <2>5. pc[c] = "spilling"
    BY <1>2 DEF Control, StagedInv, Owed, ActiveStages, Settling
  <2>6. asked'[c] = 0
    BY <2>1, <2>5, MaxBatchAssumption DEF Control, AskedInv, TypeOK
  <2>7. Staged(c)' = {} /\ Owed(c)' = {} /\ Staged(c)' \ Owed(c)' = {}
    BY <2>2 DEF Staged, Owed, Settling
  <2>8. Unused(c)' = 0
    <3>1. Unused(c)' = 0 + Cardinality({})
      BY <2>6, <2>7 DEF Unused
    <3> QED
      BY <3>1, FS_EmptySet
  <2>9. total' = total + Cardinality({}) /\ delivered' = delivered + Cardinality({})
    <3>1. total \in Nat /\ delivered \in Nat
      BY UnusedType
    <3> QED
      BY <2>1, <3>1, FS_EmptySet
  <2>10. lost' = lost + Cardinality({} \cup (Owed(c) \ {}))
    BY <2>1, <2>4
  <2> QED
    BY <2>2, <2>7, <2>8, <2>9, <2>10, StopStep, StepOf
<1> QED
  BY <1>3, <1>4, <1>5

LEMMA FaultIsBucketStep ==
  ASSUME Control, Control', UniformInv, NEW c \in Consumers, Fault(c)
  PROVE  BucketStep
<1>1. CASE BalanceFails(c)
  BY <1>1, FatalIsSame DEF BalanceFails
<1>2. CASE ChannelError(c)
  BY <1>2, FatalIsSame, ExitIsStop DEF ChannelError
<1>3. CASE Crash(c)
  BY <1>3, ExitIsStop DEF Crash
<1>4. ASSUME NEW S \in SUBSET Messages, NEW s \in Settling \cup {"counting"},
             CountFails(c, S, s)
      PROVE  BucketStep
  BY <1>4, FailedCountIsLoss DEF OwedStages
<1> QED
  BY <1>1, <1>2, <1>3, <1>4 DEF Fault

LEMMA CallIsBucketStep ==
  ASSUME NEW c \in Consumers, Call(c) \/ Closing(c) \/ Returns(c)
  PROVE  BucketStep
<1>1. CASE NewWindow /\ UNCHANGED <<asked, stage>>
  BY <1>1, RenewStep DEF BucketStep, Q!BucketNext
<1>2. CASE UNCHANGED <<total, asked, stage, history>>
  BY <1>2, SameStep DEF BucketStep
<1>3. \/ NewWindow /\ UNCHANGED <<asked, stage>>
      \/ UNCHANGED <<total, asked, stage, history>>
  BY DEF Call, Closing, Returns, Boot, Cork, Uncork, Purge, Shutdown, ShutdownPurge,
         ShutdownClose, Died, consumerVars
<1> QED
  BY <1>1, <1>2, <1>3

LEMMA NextIsBucketStep ==
  ASSUME AccountInv, AccountInv', [Next]_vars
  PROVE  BucketStep
<1>1. Control /\ Control' /\ UniformInv
  BY DEF AccountInv, QuotaInv
<1>2. CASE WindowEnds
  BY <1>2, RenewStep DEF WindowEnds, consumerVars, BucketStep, Q!BucketNext
<1>3. CASE UNCHANGED vars \/ \E m \in Messages : Published(m)
  BY <1>3, SameStep DEF vars, Published, consumerVars, BucketStep
<1> QED
  BY <1>1, <1>2, <1>3, TickIsBucketStep, FaultIsBucketStep, CallIsBucketStep DEF Next

LEMMA InitIsBucketInit == Init => Q!BucketInit
<1> SUFFICES ASSUME Init
             PROVE  Q!BucketInit
  OBVIOUS
<1>1. \A c \in Consumers : Staged(c) = {} /\ Owed(c) = {} /\ asked[c] = 0
  BY DEF Init, Nothing, Staged, Owed, Settling
<1>2. \A c \in Consumers : Unused(c) = 0
  <2> SUFFICES ASSUME NEW c \in Consumers
               PROVE  Unused(c) = 0
    OBVIOUS
  <2>1. Unused(c) = 0 + Cardinality({})
    BY <1>1 DEF Unused
  <2> QED
    BY <2>1, FS_EmptySet
<1> QED
  BY <1>1, <1>2 DEF Init, StoreInit, Q!BucketInit, Q!StoreInit

\* The consumer implements the discipline of Bucket, for every number of
\* consumers and messages and every configuration: each of its steps, the
\* failing ones included, takes, gives back, uses, counts or loses quota as
\* Bucket allows, or leaves it alone.
THEOREM ImplementsTheBucket == Spec => ImplementsBucket
<1>1. AccountInv /\ AccountInv' /\ [Next]_vars => [Q!BucketNext]_(Q!bucketVars)
  BY NextIsBucketStep DEF BucketStep
<1>2. Init => Q!BucketInit
  BY InitIsBucketInit
<1> QED
  BY <1>1, <1>2, InitAccount, NextAccount, PTL
  DEF Spec, ImplementsBucket, Q!BucketSpec
=============================================================================
