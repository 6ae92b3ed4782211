------------------------- MODULE BucketQueueProofs -------------------------
(***************************************************************************)
(* Theorems about BucketQueue, for any number of consumers and messages,   *)
(* any quota and any configuration.                                        *)
(***************************************************************************)
EXTENDS BucketQueue, FiniteSetTheorems, TLAPS

-----------------------------------------------------------------------------
(* Counting the quota the consumers claim.                                 *)

SlotsUnder(f) == {s \in Consumers \X (1 .. MaxBatch) : s[2] <= f[s[1]]}
OthersUnder(f, c) == {s \in SlotsUnder(f) : s[1] # c}

\* The slots under f are those of one consumer and those of the others, and
\* the others have at most a quota each.
LEMMA SlotsSplit ==
  ASSUME NEW f \in [Consumers -> 0 .. MaxBatch], NEW c \in Consumers
  PROVE  /\ Cardinality(OthersUnder(f, c)) \in Nat
         /\ Cardinality(SlotsUnder(f)) = f[c] + Cardinality(OthersUnder(f, c))
         /\ Cardinality(OthersUnder(f, c)) + MaxBatch
              <= MaxBatch * Cardinality(Consumers)
<1> DEFINE Own == {c} \X (1 .. f[c])
           Rest == (Consumers \ {c}) \X (1 .. MaxBatch)
<1>1. MaxBatch \in Nat \ {0} /\ IsFiniteSet(Consumers) /\ f[c] \in 0 .. MaxBatch
  BY MaxBatchAssumption, ConsumersAssumption
<1>2. /\ IsFiniteSet(1 .. f[c]) /\ Cardinality(1 .. f[c]) = f[c]
      /\ IsFiniteSet(1 .. MaxBatch) /\ Cardinality(1 .. MaxBatch) = MaxBatch
  BY <1>1, FS_Interval
<1>3. IsFiniteSet(Own) /\ Cardinality(Own) = f[c]
  <2>1. IsFiniteSet({c}) /\ Cardinality({c}) = 1
    BY FS_Singleton
  <2> DEFINE S == {c}
             T == 1 .. f[c]
  <2> HIDE DEF S, T
  <2>2. IsFiniteSet(S \X T) /\ Cardinality(S \X T) = Cardinality(S) * Cardinality(T)
    <3>1. IsFiniteSet(S) /\ IsFiniteSet(T)
      BY <1>2, <2>1 DEF S, T
    <3> QED
      BY <3>1, FS_Product
  <2>3. Cardinality(S) = 1 /\ Cardinality(T) = f[c] /\ Own = S \X T
    BY <1>2, <2>1 DEF S, T
  <2>4. Cardinality(S) * Cardinality(T) = f[c]
    BY <1>1, <2>3
  <2> QED
    BY <2>2, <2>3, <2>4
<1>4. /\ IsFiniteSet(Consumers \ {c})
      /\ Cardinality(Consumers \ {c}) = Cardinality(Consumers) - 1
      /\ Cardinality(Consumers) \in Nat
  BY <1>1, FS_RemoveElement, FS_CardinalityType
<1>5. /\ IsFiniteSet(Rest)
      /\ Cardinality(Rest) = (Cardinality(Consumers) - 1) * MaxBatch
  <2>1. IsFiniteSet(Rest) /\ Cardinality(Rest)
          = Cardinality(Consumers \ {c}) * Cardinality(1 .. MaxBatch)
    BY <1>2, <1>4, FS_Product
  <2> QED
    BY <1>2, <1>4, <2>1
<1>6. OthersUnder(f, c) \in SUBSET Rest
  BY DEF OthersUnder, SlotsUnder
<1>7. /\ IsFiniteSet(OthersUnder(f, c))
      /\ Cardinality(OthersUnder(f, c)) \in Nat
      /\ Cardinality(OthersUnder(f, c)) <= Cardinality(Rest)
  BY <1>5, <1>6, FS_Subset, FS_CardinalityType
<1>8. SlotsUnder(f) = Own \cup OthersUnder(f, c)
  BY <1>1 DEF OthersUnder, SlotsUnder
<1>9. Own \cap OthersUnder(f, c) = {}
  BY DEF OthersUnder
<1>10. Cardinality(SlotsUnder(f)) = f[c] + Cardinality(OthersUnder(f, c))
  <2>1. Cardinality(Own \cup OthersUnder(f, c))
          = f[c] + Cardinality(OthersUnder(f, c)) - Cardinality({})
    BY <1>3, <1>7, <1>9, FS_Union
  <2> QED
    BY <1>1, <1>7, <1>8, <2>1, FS_EmptySet
<1>11. (Cardinality(Consumers) - 1) * MaxBatch + MaxBatch
         = MaxBatch * Cardinality(Consumers)
  BY <1>1, <1>4
<1> QED
  BY <1>1, <1>4, <1>5, <1>7, <1>10, <1>11

\* When only one consumer's claim changes, the number of slots changes by as
\* much as the claim.
LEMMA SlotsUpdate ==
  ASSUME NEW f \in [Consumers -> 0 .. MaxBatch],
         NEW g \in [Consumers -> 0 .. MaxBatch], NEW c \in Consumers,
         \A d \in Consumers \ {c} : g[d] = f[d]
  PROVE  Cardinality(SlotsUnder(g)) - g[c] = Cardinality(SlotsUnder(f)) - f[c]
<1>1. OthersUnder(g, c) = OthersUnder(f, c)
  BY DEF OthersUnder, SlotsUnder
<1>2. f[c] \in Nat /\ g[c] \in Nat
  BY MaxBatchAssumption
<1> QED
  BY <1>1, <1>2, SlotsSplit

-----------------------------------------------------------------------------
(* The control of a tick: which stages a message may be in, and when gets  *)
(* are outstanding, given where the loop is.                               *)

WorkSteps == {"getting", "spilling"} \cup Phases
ActiveStages == Settling \cup {"running", "counting"}

AskedInv == \A c \in Consumers : pc[c] = "getting" <=> asked[c] > 0
StagedInv ==
  \A c \in Consumers, m \in Messages :
    /\ stage[c][m] # "none" => pc[c] \in WorkSteps
    /\ stage[c][m] \in ActiveStages => pc[c] = "spilling"

Control == TypeOK /\ AskedInv /\ StagedInv

\* Cardinalities of sets of messages are natural numbers.
LEMMA MessageSets ==
  \A S \in SUBSET Messages : IsFiniteSet(S) /\ Cardinality(S) \in Nat
BY MessagesAssumption, FS_Subset, FS_CardinalityType

\* The balance is a quota at most, for every value the counter may have.
LEMMA BalanceType == total \in Nat => Balance \in 0 .. MaxBatch
BY MaxBatchAssumption DEF Balance

\* A tick that handles a unit is in its spilling step.
LEMMA UnitsAreStaged ==
  ASSUME NEW c \in Consumers, NEW s \in Stages, NEW S \in Units(c, s)
  PROVE  S \in SUBSET Messages /\ S # {} /\ \A m \in S : stage[c][m] = s
BY DEF Units, In, PerItem


\* What Move does, message by message.
LEMMA MoveStage ==
  ASSUME TypeOK, NEW c \in Consumers, NEW S \in SUBSET Messages,
         NEW s \in Stages, Move(c, S, s)
  PROVE  /\ stage' \in [Consumers -> [Messages -> Stages]]
         /\ \A d \in Consumers, m \in Messages :
              stage'[d][m] = IF d = c /\ m \in S THEN s ELSE stage[d][m]
BY DEF TypeOK, Move

LEMMA ExitControl ==
  ASSUME Control, NEW c \in Consumers,
         NEW R \in SUBSET Messages, NEW S \in SUBSET Messages, Exit(c, R, S)
  PROVE  Control'
<1>1. /\ Cardinality(S) \in Nat /\ Cardinality(R) \in Nat
      /\ Cardinality(R \cup (Owed(c) \ S)) \in Nat
  BY MessageSets DEF Owed
<1>2. TypeOK'
  BY <1>1, MaxBatchAssumption
  DEF Control, TypeOK, BrokerTypeOK, StoreTypeOK, Exit, CloseChannel, Increment,
      LoopStates, Nothing, Stages
<1>3. AskedInv'
  BY MaxBatchAssumption DEF Control, TypeOK, AskedInv, Exit
<1>4. StagedInv'
  BY DEF Control, TypeOK, StagedInv, Exit, Nothing, ActiveStages, Settling
<1> QED
  BY <1>2, <1>3, <1>4 DEF Control

\* #handleFatalError leaves the control intact when the place where the tick
\* goes on fits the stages it leaves.
LEMMA FatalControl ==
  ASSUME Control, NEW c \in Consumers, NEW p \in LoopStates,
         NEW W \in SUBSET Messages, NEW st \in [Messages -> Stages],
         p = "getting" <=> asked[c] > 0,
         \A m \in Messages : /\ st[m] # "none" => p \in WorkSteps
                             /\ st[m] \in ActiveStages => p = "spilling",
         HandleFatalError(c, p, W, st)
  PROVE  Control'
<1>1. CASE IsOpen(c) \/ ErrorListener
  <2>1. Cardinality(W) \in Nat
    BY MessageSets
  <2>2. TypeOK'
    <3>1. BrokerTypeOK' /\ StoreTypeOK'
      BY <1>1 DEF Control, TypeOK, BrokerTypeOK, StoreTypeOK, HandleFatalError,
                  CloseChannel
    <3>2. /\ pc' \in [Consumers -> LoopStates]
          /\ stage' \in [Consumers -> [Messages -> Stages]]
      BY <1>1 DEF Control, TypeOK, HandleFatalError
    <3>3. corked' \in [Consumers -> BOOLEAN]
      BY <1>1 DEF Control, TypeOK, HandleFatalError
    <3>4. /\ fatal' \in [Consumers -> {"no", "handling", "died"}]
          /\ balance' \in [Consumers -> 0 .. MaxBatch]
          /\ asked' \in [Consumers -> 0 .. MaxBatch]
          /\ closing' \in [Consumers -> {"no", "purge", "close", "done"}]
          /\ boots' \in [Consumers -> 0 .. MaxBoots]
      BY <1>1 DEF Control, TypeOK, HandleFatalError
    <3>5. delivered' \in Nat /\ lost' \in Nat
      BY <1>1, <2>1 DEF Control, TypeOK, HandleFatalError
    <3> QED
      BY <3>1, <3>2, <3>3, <3>4, <3>5 DEF TypeOK
  <2>3. AskedInv'
    BY <1>1 DEF Control, TypeOK, AskedInv, HandleFatalError
  <2>4. StagedInv'
    BY <1>1 DEF Control, TypeOK, StagedInv, HandleFatalError
  <2> QED
    BY <2>2, <2>3, <2>4 DEF Control
<1>2. CASE ~(IsOpen(c) \/ ErrorListener)
  BY <1>2, ExitControl DEF HandleFatalError
<1> QED
  BY <1>1, <1>2

LEMMA NackControl ==
  ASSUME Control, NEW c \in Consumers, NEW S \in SUBSET Messages,
         NEW requeue \in BOOLEAN, Nack(c, S, requeue)
  PROVE  Control'
<1>1. CASE IsOpen(c)
  <2>1. place' \in [Messages -> Places \cup Consumers]
    BY <1>1 DEF Control, TypeOK, BrokerTypeOK, Nack, Settle, Places
  <2>2. /\ stage' \in [Consumers -> [Messages -> Stages]]
        /\ \A d \in Consumers, m \in Messages :
             stage'[d][m] = IF d = c /\ m \in S THEN "none" ELSE stage[d][m]
    <3>1. "none" \in Stages
      BY DEF Stages
    <3> QED
      BY <1>1, <3>1, MoveStage DEF Control, Nack
  <2>3. TypeOK'
    BY <1>1, <2>1, <2>2
    DEF Control, TypeOK, BrokerTypeOK, StoreTypeOK, Nack, history
  <2>4. AskedInv'
    BY <1>1 DEF Control, AskedInv, Nack
  <2>5. StagedInv'
    BY <1>1, <2>2 DEF Control, StagedInv, Nack, ActiveStages, Settling
  <2> QED
    BY <2>3, <2>4, <2>5 DEF Control
<1>2. CASE ~IsOpen(c)
  BY <1>2, ExitControl DEF Nack
<1> QED
  BY <1>1, <1>2

LEMMA NackHeardControl ==
  ASSUME Control, NEW c \in Consumers, NEW S \in SUBSET Messages,
         NEW requeue \in BOOLEAN, NackHeard(c, S, requeue)
  PROVE  Control'
BY NackControl, ExitControl DEF NackHeard

\* The steps of a tick up to the callbacks.
LEMMA FetchControl ==
  ASSUME Control, NEW c \in Consumers,
         TickStart(c) \/ ReadBalance(c) \/ GetSingleMessage(c) \/ GetFails(c)
  PROVE  Control'
<1> USE MaxBatchAssumption DEF Control, TypeOK, BrokerTypeOK, StoreTypeOK, AskedInv,
        StagedInv, LoopStates, TickSteps, Phases, WorkSteps, ActiveStages, Settling,
        history
<1>1. CASE TickStart(c)
  BY <1>1 DEF TickStart, brokerVars
<1>2. CASE ReadBalance(c)
  <2>1. Balance \in 0 .. MaxBatch
    BY BalanceType
  <2>2. CASE Spills(c)
    <3>1. Balance \in 1 .. MaxBatch
      BY <2>1, <2>2 DEF Spills
    <3>2. /\ pc' = [pc EXCEPT ![c] = "getting"]
          /\ asked' = [asked EXCEPT ![c] = Balance]
          /\ balance' = [balance EXCEPT ![c] = Balance]
      BY <1>2, <2>2 DEF ReadBalance
    <3>3. TypeOK'
      BY <1>2, <3>1, <3>2 DEF ReadBalance, brokerVars
    <3>4. AskedInv'
      BY <3>1, <3>2
    <3>5. StagedInv'
      BY <1>2, <3>2 DEF ReadBalance
    <3> QED
      BY <3>3, <3>4, <3>5
  <2>3. CASE ~Spills(c)
    BY <1>2, <2>1, <2>3 DEF ReadBalance, brokerVars
  <2> QED
    BY <2>2, <2>3
<1>3. CASE GetSingleMessage(c)
  <2>1. asked[c] \in 1 .. MaxBatch
    BY <1>3 DEF GetSingleMessage
  <2>2. ASSUME NEW m \in Ready, Deliver(c, m), Move(c, {m}, "got"), Answered(c)
        PROVE  Control'
    BY <1>3, <2>1, <2>2
    DEF GetSingleMessage, Deliver, Move, Answered, Ready, Stages
  <2>3. CASE UNCHANGED <<place, stage>> /\ Answered(c)
    BY <1>3, <2>1, <2>3 DEF GetSingleMessage, Answered
  <2> QED
    BY <1>3, <2>2, <2>3 DEF GetSingleMessage
<1>4. CASE GetFails(c)
  BY <1>4, ExitControl DEF GetFails
<1> QED
  BY <1>1, <1>2, <1>3, <1>4

LEMMA HookControl ==
  ASSUME Control, NEW c \in Consumers,
         \/ PassThrough(c) \/ PhaseOver(c)
         \/ \E m \in Messages : HookPasses(c, m) \/ ItemInvalid(c, m)
         \/ \E m \in Messages, e \in Errors : HookThrows(c, m, e)
  PROVE  Control'
<1>1. ASSUME pc[c] \in Phases
      PROVE  /\ Before[pc[c]] \in {"got", "parsed"}
             /\ After[pc[c]] \in {"parsed", "valid"}
             /\ Following[pc[c]] \in {"validating", "spilling"}
  BY <1>1 DEF Phases, Before, After, Following
<1>2. ASSUME NEW q \in {"validating", "spilling"}, pc[c] \in Phases,
             pc' = [pc EXCEPT ![c] = q],
             \/ UNCHANGED stage
             \/ \E S \in SUBSET Messages : Move(c, S, After[pc[c]]),
             UNCHANGED <<brokerVars, total, corked, balance, asked, fatal, closing,
                         boots, history>>
      PROVE  Control'
  <2>1. stage' \in [Consumers -> [Messages -> Stages]]
    <3>1. stage \in [Consumers -> [Messages -> Stages]] /\ After[pc[c]] \in Stages
      BY <1>1, <1>2 DEF Control, TypeOK, Stages
    <3> QED
      BY <1>2, <3>1 DEF Move
  <2>2. TypeOK'
    BY <1>2, <2>1 DEF Control, TypeOK, BrokerTypeOK, StoreTypeOK, brokerVars, history,
                      LoopStates, TickSteps, Phases
  <2>3. AskedInv'
    BY <1>2 DEF Control, TypeOK, AskedInv, Phases
  <2>4. StagedInv'
    BY <1>1, <1>2 DEF Control, TypeOK, StagedInv, Move, ActiveStages, Settling,
                      WorkSteps, Phases
  <2> QED
    BY <2>2, <2>3, <2>4 DEF Control
<1>3. CASE PassThrough(c)
  BY <1>1, <1>2, <1>3 DEF PassThrough, In
<1>4. CASE PhaseOver(c)
  BY <1>1, <1>2, <1>4, ConfigAssumption DEF PhaseOver
<1>5. ASSUME NEW m \in Messages, HookPasses(c, m)
      PROVE  Control'
  <2>1. pc[c] \in Phases /\ Move(c, {m}, After[pc[c]])
    BY <1>5, ConfigAssumption DEF HookPasses
  <2>2. stage' \in [Consumers -> [Messages -> Stages]]
    BY <1>1, <2>1 DEF Control, TypeOK, Move, Stages
  <2>3. TypeOK'
    BY <1>5, <2>2 DEF Control, TypeOK, BrokerTypeOK, StoreTypeOK, HookPasses, brokerVars,
                      history
  <2>4. AskedInv'
    BY <1>5 DEF Control, AskedInv, HookPasses
  <2>5. StagedInv'
    BY <1>1, <1>5, <2>1 DEF Control, TypeOK, StagedInv, HookPasses, Move, ActiveStages,
                            Settling, WorkSteps, Phases
  <2> QED
    BY <2>3, <2>4, <2>5 DEF Control
<1>6. ASSUME NEW m \in Messages, ItemInvalid(c, m)
      PROVE  Control'
  BY <1>6, NackControl DEF ItemInvalid
<1>7. ASSUME NEW m \in Messages, NEW e \in Errors, HookThrows(c, m, e)
      PROVE  Control'
  <2>1. HookRequeues(c, e) \in BOOLEAN
    BY DEF HookRequeues
  <2>2. NackHeard(c, {m}, HookRequeues(c, e))
    BY <1>7 DEF HookThrows
  <2> QED
    BY <2>1, <2>2, NackHeardControl
<1> QED
  BY <1>3, <1>4, <1>5, <1>6, <1>7

\* The steps of a tick around the callbacks.
LEMMA SpillControl ==
  ASSUME Control, NEW c \in Consumers, StartChunk(c) \/ SpillOver(c) \/ EndTick(c)
  PROVE  Control'
<1>1. CASE StartChunk(c)
  <2>1. PICK S \in SUBSET Messages : Move(c, S, "running")
    BY <1>1 DEF StartChunk, Chunks, In
  <2>2. /\ stage' \in [Consumers -> [Messages -> Stages]]
        /\ \A d \in Consumers, m \in Messages :
             stage'[d][m] = IF d = c /\ m \in S THEN "running" ELSE stage[d][m]
    <3>1. "running" \in Stages /\ TypeOK
      BY DEF Stages, Control
    <3> QED
      BY <2>1, <3>1, MoveStage
  <2>3. TypeOK'
    BY <1>1, <2>2 DEF Control, TypeOK, BrokerTypeOK, StoreTypeOK, StartChunk,
                      brokerVars, history
  <2>4. AskedInv'
    BY <1>1 DEF Control, AskedInv, StartChunk
  <2>5. StagedInv'
    BY <1>1, <2>2 DEF Control, StagedInv, StartChunk, WorkSteps
  <2> QED
    BY <2>3, <2>4, <2>5 DEF Control
<1>2. CASE SpillOver(c)
  <2>1. Nothing \in [Messages -> Stages]
    BY DEF Nothing, Stages
  <2>2. TypeOK'
    BY <1>2, <2>1 DEF Control, TypeOK, BrokerTypeOK, StoreTypeOK, SpillOver,
                      LoopStates, TickSteps, brokerVars, history
  <2>3. AskedInv'
    BY <1>2 DEF Control, TypeOK, AskedInv, SpillOver
  <2>4. StagedInv'
    BY <1>2 DEF Control, TypeOK, StagedInv, SpillOver, Nothing, ActiveStages, Settling
  <2> QED
    BY <2>2, <2>3, <2>4 DEF Control
<1>3. CASE EndTick(c)
  <2>1. AfterTick(c) \in {"idle", "scheduled"}
    BY DEF AfterTick
  <2>2. TypeOK'
    BY <1>3, <2>1 DEF Control, TypeOK, BrokerTypeOK, StoreTypeOK, EndTick,
                      LoopStates, brokerVars, history
  <2>3. AskedInv'
    BY <1>3, <2>1 DEF Control, TypeOK, AskedInv, EndTick
  <2>4. StagedInv'
    BY <1>3, <2>1 DEF Control, TypeOK, StagedInv, EndTick, WorkSteps, Phases,
                      ActiveStages, Settling
  <2> QED
    BY <2>2, <2>3, <2>4 DEF Control
<1> QED
  BY <1>1, <1>2, <1>3

\* A unit that stays with its consumer or leaves the tick, while the loop
\* stays where it is.
LEMMA UnitControl ==
  ASSUME Control, NEW c \in Consumers, NEW r \in Stages, NEW S \in Units(c, r),
         r \in ActiveStages, NEW s \in ActiveStages \cup {"none"}, Move(c, S, s),
         BrokerTypeOK', StoreTypeOK', delivered' \in Nat, lost' \in Nat,
         UNCHANGED <<pc, corked, balance, asked, fatal, closing, boots>>
  PROVE  Control'
<1>1. S \in SUBSET Messages /\ S # {} /\ \A m \in S : stage[c][m] = r
  BY UnitsAreStaged
<1>2. pc[c] = "spilling"
  BY <1>1 DEF Control, StagedInv
<1>3. /\ stage' \in [Consumers -> [Messages -> Stages]]
      /\ \A d \in Consumers, m \in Messages :
           stage'[d][m] = IF d = c /\ m \in S THEN s ELSE stage[d][m]
  <2>1. s \in Stages
    BY DEF Stages, ActiveStages
  <2> QED
    BY <1>1, <2>1, MoveStage DEF Control
<1>4. TypeOK'
  BY <1>3 DEF Control, TypeOK
<1>5. AskedInv'
  BY DEF Control, AskedInv
<1>6. StagedInv'
  BY <1>2, <1>3 DEF Control, StagedInv, WorkSteps
<1> QED
  BY <1>4, <1>5, <1>6 DEF Control

LEMMA SettleType ==
  ASSUME BrokerTypeOK, NEW c \in Consumers, NEW S, NEW p \in Places, Settle(c, S, p)
  PROVE  place' \in [Messages -> Places \cup Consumers]
BY DEF BrokerTypeOK, Settle

\* The steps that end a callback and count it.
LEMMA CallbackControl ==
  ASSUME Control, NEW c \in Consumers, NEW S \in SUBSET Messages,
         \/ CallbackSucceeds(c, S) \/ Count(c, S)
         \/ \E e \in Errors : CallbackFails(c, S, e) \/ CallbackFailsCounted(c, S, e)
         \/ \E s \in Settling : CountFailure(c, S, s)
  PROVE  Control'
<1>1. /\ BrokerTypeOK /\ total \in Nat /\ delivered \in Nat /\ lost \in Nat
      /\ Cardinality(S) \in Nat
  BY MessageSets DEF Control, TypeOK, StoreTypeOK
<1>2. {"running", "counting", "requeueing", "discarding"} \subseteq ActiveStages
      /\ ActiveStages \subseteq Stages /\ {"acked", "ready", "dropped"} \subseteq Places
  BY DEF ActiveStages, Settling, Stages, Places
<1>3. CASE CallbackSucceeds(c, S)
  <2>1. S \in Units(c, "running")
    BY <1>3 DEF CallbackSucceeds
  <2>2. CASE IsOpen(c)
    <3>1. BrokerTypeOK' /\ StoreTypeOK'
      BY <1>1, <1>2, <1>3, <2>2, SettleType
      DEF CallbackSucceeds, BrokerTypeOK, StoreTypeOK
    <3>2. /\ Move(c, S, "counting")
          /\ delivered' = delivered + Cardinality(S)
          /\ UNCHANGED <<pc, corked, balance, asked, fatal, closing, boots, lost>>
      BY <1>3, <2>2 DEF CallbackSucceeds
    <3> QED
      BY <1>1, <1>2, <2>1, <3>1, <3>2, UnitControl
  <2>3. CASE ~IsOpen(c)
    BY <1>3, <2>3, ExitControl DEF CallbackSucceeds
  <2> QED
    BY <2>2, <2>3
<1>4. CASE Count(c, S)
  <2>1. /\ S \in Units(c, "counting")
        /\ Move(c, S, "none")
        /\ BrokerTypeOK' /\ StoreTypeOK' /\ delivered' \in Nat /\ lost' \in Nat
        /\ UNCHANGED <<pc, corked, balance, asked, fatal, closing, boots>>
    BY <1>1, <1>4 DEF Count, Increment, BrokerTypeOK, StoreTypeOK, brokerVars, history
  <2> QED
    BY <1>2, <2>1, UnitControl
<1>5. ASSUME NEW e \in Errors, CallbackFails(c, S, e)
      PROVE  Control'
  <2>1. e.reenqueue \in BOOLEAN
    BY ConfigAssumption
  <2> QED
    BY <1>5, <2>1, NackHeardControl DEF CallbackFails
<1>6. ASSUME NEW e \in Errors, CallbackFailsCounted(c, S, e)
      PROVE  Control'
  <2>1. CASE PerItem \/ ErrorListener
    <3>1. /\ S \in Units(c, "running")
          /\ BrokerTypeOK' /\ StoreTypeOK' /\ delivered' \in Nat /\ lost' \in Nat
          /\ UNCHANGED <<pc, corked, balance, asked, fatal, closing, boots>>
          /\ Move(c, S, IF e.reenqueue THEN "requeueing" ELSE "discarding")
      BY <1>1, <1>6, <2>1
      DEF CallbackFailsCounted, BrokerTypeOK, Control, TypeOK, StoreTypeOK, brokerVars
    <3> QED
      BY <1>2, <3>1, UnitControl
  <2>2. CASE ~(PerItem \/ ErrorListener)
    BY <1>6, <2>2, ExitControl DEF CallbackFailsCounted
  <2> QED
    BY <2>1, <2>2
<1>7. ASSUME NEW s \in Settling, CountFailure(c, S, s)
      PROVE  Control'
  <2>1. CASE IsOpen(c) /\ ErrorListener
    <3>1. BrokerTypeOK' /\ StoreTypeOK'
      BY <1>1, <1>2, <1>7, <2>1, SettleType
      DEF CountFailure, Increment, BrokerTypeOK, StoreTypeOK
    <3>2. /\ S \in Units(c, s)
          /\ Move(c, S, "none")
          /\ delivered' \in Nat /\ lost' \in Nat
          /\ UNCHANGED <<pc, corked, balance, asked, fatal, closing, boots>>
      BY <1>1, <1>7, <2>1 DEF CountFailure, history
    <3>3. s \in ActiveStages
      BY DEF ActiveStages
    <3> QED
      BY <1>2, <3>1, <3>2, <3>3, UnitControl
  <2>2. CASE ~(IsOpen(c) /\ ErrorListener)
    BY <1>7, <2>2, ExitControl DEF CountFailure
  <2> QED
    BY <2>1, <2>2
<1> QED
  BY <1>3, <1>4, <1>5, <1>6, <1>7

LEMMA FaultControl ==
  ASSUME Control, NEW c \in Consumers, Fault(c)
  PROVE  Control'
<1>1. CASE BalanceFails(c)
  <2>1. /\ pc[c] \in {"reading", "ending"}
        /\ HandleFatalError(c, "idle", {}, stage[c])
    BY <1>1 DEF BalanceFails
  <2>2. /\ stage[c] \in [Messages -> Stages] /\ "idle" \in LoopStates
        /\ ~("idle" = "getting" \/ asked[c] > 0)
        /\ \A m \in Messages : stage[c][m] = "none"
    BY <2>1 DEF Control, TypeOK, AskedInv, StagedInv, LoopStates, WorkSteps, Phases
  <2>3. "none" \notin ActiveStages
    BY DEF ActiveStages, Settling
  <2> QED
    BY <2>1, <2>2, <2>3, FatalControl
<1>2. CASE ChannelError(c)
  <2>1. CASE ErrorListener
    <3> DEFINE p == IF pc[c] = "scheduled" THEN "idle" ELSE pc[c]
    <3>1. HandleFatalError(c, p, {}, stage[c])
      BY <1>2, <2>1 DEF ChannelError
    <3>2. /\ stage[c] \in [Messages -> Stages] /\ p \in LoopStates
          /\ p = "getting" <=> asked[c] > 0
      BY DEF Control, TypeOK, AskedInv, LoopStates
    <3>3. \A m \in Messages : /\ stage[c][m] # "none" => p \in WorkSteps
                              /\ stage[c][m] \in ActiveStages => p = "spilling"
      BY DEF Control, StagedInv, WorkSteps, Phases
    <3> HIDE DEF p
    <3> QED
      BY <3>1, <3>2, <3>3, FatalControl
  <2>2. CASE ~ErrorListener
    BY <1>2, <2>2, ExitControl DEF ChannelError
  <2> QED
    BY <2>1, <2>2
<1>3. CASE Crash(c)
  <2>1. PICK R \in Units(c, "running") \cup {{}} : Exit(c, R, {})
    BY <1>3 DEF Crash
  <2>2. R \in SUBSET Messages
    BY UnitsAreStaged DEF Stages
  <2> QED
    BY <2>1, <2>2, ExitControl
<1>4. ASSUME NEW S \in SUBSET Messages, NEW s \in Settling \cup {"counting"},
             CountFails(c, S, s)
      PROVE  Control'
  <2>1. s \in ActiveStages /\ s \in Stages /\ S \in Units(c, s)
    BY <1>4 DEF ActiveStages, Stages, CountFails
  <2>2. pc[c] = "spilling" /\ asked[c] = 0
    BY <2>1, UnitsAreStaged DEF Control, TypeOK, StagedInv, AskedInv
  <2>3. "none" \in Stages /\ "none" \notin ActiveStages /\ {"spilling", "idle"} \subseteq LoopStates
    BY DEF Stages, ActiveStages, Settling, LoopStates, TickSteps
  <2>4. CASE PerItem
    <3> DEFINE st == [m \in Messages |-> IF m \in S THEN "none" ELSE stage[c][m]]
    <3>1. HandleFatalError(c, "spilling", S, st)
      BY <1>4, <2>2, <2>4 DEF CountFails
    <3>2. st \in [Messages -> Stages] /\ "spilling" \in WorkSteps
      BY <2>3 DEF Control, TypeOK, WorkSteps
    <3> HIDE DEF st
    <3> QED
      BY <2>2, <2>3, <3>1, <3>2, FatalControl
  <2>5. CASE ~PerItem
    <3>1. HandleFatalError(c, "idle", S, Nothing)
      BY <1>4, <2>5 DEF CountFails
    <3>2. Nothing \in [Messages -> Stages] /\ \A m \in Messages : Nothing[m] = "none"
      BY <2>3 DEF Nothing
    <3> QED
      BY <2>2, <2>3, <3>1, <3>2, FatalControl
  <2> QED
    BY <2>4, <2>5
<1> QED
  BY <1>1, <1>2, <1>3, <1>4 DEF Fault

\* What the application calls, and what shutdown and a fatal error do later.
LEMMA CallControl ==
  ASSUME Control, NEW c \in Consumers, Call(c) \/ Closing(c)
  PROVE  Control'
<1> USE DEF Control, TypeOK, BrokerTypeOK, StoreTypeOK, AskedInv, StagedInv, brokerVars,
            consumerVars, history
<1>1. CASE Boot(c)
  <2>1. /\ pc[c] \notin WorkSteps
        /\ \A m \in Messages : stage[c][m] = "none"
        /\ ~(asked[c] > 0)
    <3>1. pc[c] \in {"off", "dead"}
      BY <1>1 DEF Boot, Alive
    <3>2. pc[c] \notin WorkSteps
      BY <3>1 DEF WorkSteps, Phases
    <3> QED
      BY <3>1, <3>2
  <2>2. PICK p \in {"scheduled", "idle"} : pc' = [pc EXCEPT ![c] = p]
    BY <1>1 DEF Boot
  <2>3. boots' \in [Consumers -> 0 .. MaxBoots]
    BY <1>1, ConfigAssumption DEF Boot
  <2>4. TypeOK'
    BY <1>1, <2>2, <2>3, MaxBatchAssumption DEF Boot, LoopStates
  <2>5. AskedInv'
    BY <1>1, <2>1, <2>2 DEF Boot
  <2>6. StagedInv'
    BY <1>1, <2>1, <2>2 DEF Boot, ActiveStages, Settling
  <2> QED
    BY <2>4, <2>5, <2>6
<1>2. ASSUME DoCork(c),
             UNCHANGED <<brokerVars, total, balance, asked, stage, fatal, boots, history>>,
             closing' \in [Consumers -> {"no", "purge", "close", "done"}]
      PROVE  Control'
  <2>1. PICK p \in LoopStates : /\ pc' = [pc EXCEPT ![c] = p]
                                /\ (pc[c] = "scheduled" /\ p = "idle") \/ p = pc[c]
    BY <1>2 DEF DoCork, LoopStates
  <2>2. TypeOK'
    BY <1>2, <2>1 DEF DoCork
  <2>3. AskedInv'
    BY <1>2, <2>1
  <2>4. StagedInv'
    BY <1>2, <2>1 DEF WorkSteps, Phases
  <2> QED
    BY <2>2, <2>3, <2>4
<1>3. CASE Cork(c)
  BY <1>2, <1>3 DEF Cork
<1>4. CASE Uncork(c)
  BY <1>4 DEF Uncork
<1>5. CASE Purge(c)
  BY <1>5 DEF Purge, NewWindow, ResetTotal
<1>6. ASSUME NEW purge \in BOOLEAN, Shutdown(c, purge)
      PROVE  Control'
  BY <1>2, <1>6 DEF Shutdown
<1>7. CASE ShutdownPurge(c)
  BY <1>7 DEF ShutdownPurge, NewWindow, ResetTotal
<1>8. CASE ShutdownClose(c)
  BY <1>8 DEF ShutdownClose
<1>9. CASE Died(c)
  BY <1>9 DEF Died
<1> QED
  BY <1>1, <1>3, <1>4, <1>5, <1>6, <1>7, <1>8, <1>9 DEF Call, Closing

\* Publishers, the broker and the clock.
LEMMA WorldControl ==
  ASSUME Control,
         \/ WindowEnds
         \/ \E c \in Consumers : Returns(c)
         \/ \E m \in Messages : Published(m)
  PROVE  Control'
<1> USE DEF Control, TypeOK, BrokerTypeOK, StoreTypeOK, AskedInv, StagedInv, brokerVars,
            consumerVars, history
<1>1. CASE WindowEnds
  BY <1>1 DEF WindowEnds, NewWindow, ResetTotal
<1>2. ASSUME NEW c \in Consumers, Returns(c)
      PROVE  Control'
  <2>1. place' \in [Messages -> Places \cup Consumers]
    BY <1>2, SettleType DEF Returns, Redeliver, Places
  <2> QED
    BY <1>2, <2>1 DEF Returns, Redeliver
<1>3. ASSUME NEW m \in Messages, Published(m)
      PROVE  Control'
  BY <1>3 DEF Published, Publish, Places
<1> QED
  BY <1>1, <1>2, <1>3

LEMMA StutterControl == Control /\ UNCHANGED vars => Control'
BY DEF Control, TypeOK, BrokerTypeOK, StoreTypeOK, AskedInv, StagedInv, vars, brokerVars,
       consumerVars, history

LEMMA InitControl == Init => Control
BY MaxBatchAssumption, ConfigAssumption
DEF Init, BrokerInit, StoreInit, Control, TypeOK, BrokerTypeOK, StoreTypeOK, AskedInv,
    StagedInv, Places, LoopStates, Stages, Nothing, ActiveStages, Settling

LEMMA NextControl == Control /\ [Next]_vars => Control'
<1> SUFFICES ASSUME Control, [Next]_vars
             PROVE  Control'
  OBVIOUS
<1>1. ASSUME NEW c \in Consumers, Tick(c)
      PROVE  Control'
  BY <1>1, FetchControl, HookControl, SpillControl, CallbackControl DEF Tick
<1>2. CASE \E c \in Consumers : Fault(c) \/ Call(c) \/ Closing(c)
  BY <1>2, FaultControl, CallControl
<1>3. CASE UNCHANGED vars
  BY <1>3, StutterControl
<1> QED
  BY <1>1, <1>2, <1>3, WorldControl DEF Next

\* Every variable keeps its type, a tick has gets outstanding exactly while it
\* fetches, and messages are in a tick only while it works on them.
THEOREM ControlIsInvariant == Spec => []Control
BY InitControl, NextControl, PTL DEF Spec

\* Type correctness.
THEOREM TypeCorrect == Spec => []TypeOK
<1>1. Control => TypeOK
  BY DEF Control
<1> QED
  BY <1>1, ControlIsInvariant, PTL

-----------------------------------------------------------------------------
(* The quota.                                                              *)

ClaimInv == \A c \in Consumers : Claim(c) <= MaxBatch
QuotaInv == Control /\ ClaimInv /\ QuotaBound

Claims == [c \in Consumers |-> Claim(c)]

LEMMA ClaimsType ==
  Control => /\ \A c \in Consumers : /\ Claim(c) \in Nat
                                     /\ IsFiniteSet(Staged(c))
                                     /\ Cardinality(Staged(c)) \in Nat
             /\ ClaimInv => Claims \in [Consumers -> 0 .. MaxBatch]
<1> SUFFICES ASSUME Control
             PROVE  /\ \A c \in Consumers : /\ Claim(c) \in Nat
                                            /\ IsFiniteSet(Staged(c))
                                            /\ Cardinality(Staged(c)) \in Nat
                    /\ ClaimInv => Claims \in [Consumers -> 0 .. MaxBatch]
  OBVIOUS
<1>1. ASSUME NEW c \in Consumers
      PROVE  IsFiniteSet(Staged(c)) /\ Cardinality(Staged(c)) \in Nat /\ asked[c] \in Nat
  BY MessageSets, MaxBatchAssumption DEF Staged, Control, TypeOK
<1>2. \A c \in Consumers : Claim(c) \in Nat
  BY <1>1 DEF Claim
<1> QED
  BY <1>1, <1>2, MaxBatchAssumption DEF ClaimInv, Claims

\* The bound in terms of one consumer and the slots of the others.
LEMMA QuotaSplit ==
  Control /\ ClaimInv =>
    \A c \in Consumers :
      /\ Cardinality(OthersUnder(Claims, c)) \in Nat
      /\ Cardinality(Slots) = Claim(c) + Cardinality(OthersUnder(Claims, c))
      /\ Cardinality(OthersUnder(Claims, c)) + MaxBatch
           <= MaxBatch * Cardinality(Consumers)
<1> SUFFICES ASSUME Control, ClaimInv, NEW c \in Consumers
             PROVE  /\ Cardinality(OthersUnder(Claims, c)) \in Nat
                    /\ Cardinality(Slots)
                         = Claim(c) + Cardinality(OthersUnder(Claims, c))
                    /\ Cardinality(OthersUnder(Claims, c)) + MaxBatch
                         <= MaxBatch * Cardinality(Consumers)
  OBVIOUS
<1>1. Claims \in [Consumers -> 0 .. MaxBatch]
  BY ClaimsType
<1>2. Slots = SlotsUnder(Claims) /\ Claims[c] = Claim(c)
  BY DEF Slots, SlotsUnder, Claims
<1> QED
  BY <1>1, <1>2, SlotsSplit

\* A step of consumer c leaves the slots of the others as they are.
LEMMA OthersKeep ==
  ASSUME NEW c \in Consumers,
         \A d \in Consumers \ {c} : asked'[d] = asked[d] /\ stage'[d] = stage[d]
  PROVE  /\ \A d \in Consumers \ {c} : Claim(d)' = Claim(d)
         /\ OthersUnder(Claims, c)' = OthersUnder(Claims, c)
<1>1. \A d \in Consumers \ {c} : Claim(d)' = Claim(d)
  BY DEF Claim, Staged
<1> QED
  BY <1>1 DEF OthersUnder, SlotsUnder, Claims

LEMMA SlotsNext ==
  ASSUME Control', ClaimInv', NEW c \in Consumers
  PROVE  Cardinality(Slots)' = Claim(c)' + Cardinality(OthersUnder(Claims, c))'
<1>1. \A d \in Consumers : Claim(d)' \in 0 .. MaxBatch
  <2>1. ASSUME NEW d \in Consumers
        PROVE  Cardinality(Staged(d)') \in Nat /\ asked'[d] \in Nat
    BY MessageSets, MaxBatchAssumption DEF Staged, Control, TypeOK
  <2> QED
    BY <2>1, MaxBatchAssumption DEF ClaimInv, Claim
<1>2. Claims' \in [Consumers -> 0 .. MaxBatch]
  BY <1>1 DEF Claims
<1>3. Slots' = SlotsUnder(Claims') /\ Claims'[c] = Claim(c)'
  BY DEF Slots, SlotsUnder, Claims
<1>4. Cardinality(SlotsUnder(Claims'))
        = Claims'[c] + Cardinality(OthersUnder(Claims', c))
  BY <1>2, SlotsSplit
<1> QED
  BY <1>3, <1>4 DEF OthersUnder, SlotsUnder

\* A step that adds to the total no more than it takes from the claim of its
\* consumer keeps the bound.
LEMMA ClaimSpent ==
  ASSUME QuotaInv, Control', NEW c \in Consumers,
         \A d \in Consumers \ {c} : asked'[d] = asked[d] /\ stage'[d] = stage[d],
         Claim(c)' <= MaxBatch, total' + Claim(c)' <= total + Claim(c)
  PROVE  QuotaInv'
<1>1. ClaimInv'
  BY OthersKeep DEF QuotaInv, ClaimInv
<1>2. /\ Cardinality(OthersUnder(Claims, c)) \in Nat
      /\ Cardinality(Slots) = Claim(c) + Cardinality(OthersUnder(Claims, c))
  BY QuotaSplit DEF QuotaInv
<1>3. Cardinality(Slots)' = Claim(c)' + Cardinality(OthersUnder(Claims, c))'
  BY <1>1, SlotsNext
<1>4. Cardinality(OthersUnder(Claims, c))' = Cardinality(OthersUnder(Claims, c))
  BY OthersKeep
<1>5. /\ Claim(c) \in Nat /\ Claim(c)' \in Nat /\ total \in Nat /\ total' \in Nat
      /\ MaxBatch * Cardinality(Consumers) \in Nat
  <2>1. Claim(c) \in Nat
    BY ClaimsType DEF QuotaInv
  <2>2. Claim(c)' \in Nat
    <3>1. Cardinality(Staged(c)') \in Nat
      BY MessageSets DEF Staged
    <3>2. asked'[c] \in Nat
      BY MaxBatchAssumption DEF Control, TypeOK
    <3> QED
      BY <3>1, <3>2 DEF Claim
  <2>3. Cardinality(Consumers) \in Nat
    BY ConsumersAssumption, FS_CardinalityType
  <2> QED
    BY <2>1, <2>2, <2>3, MaxBatchAssumption DEF QuotaInv, Control, TypeOK, StoreTypeOK
<1>6. QuotaBound'
  BY <1>2, <1>3, <1>4, <1>5 DEF QuotaInv, QuotaBound
<1> QED
  BY <1>1, <1>6 DEF QuotaInv

\* A step of consumer c that takes at least the messages of S from its tick,
\* asks for nothing more, and counts at most S.
LEMMA StagedShrinks ==
  ASSUME QuotaInv, Control', NEW c \in Consumers,
         NEW S \in SUBSET Staged(c), Staged(c)' \subseteq Staged(c) \ S,
         asked'[c] <= asked[c],
         total' <= total + Cardinality(S),
         \A d \in Consumers \ {c} : asked'[d] = asked[d] /\ stage'[d] = stage[d]
  PROVE  QuotaInv'
<1>1. IsFiniteSet(Staged(c)) /\ IsFiniteSet(S)
  BY ClaimsType, FS_Subset DEF QuotaInv
<1>2. /\ IsFiniteSet(Staged(c) \ S)
      /\ Cardinality(Staged(c) \ S) = Cardinality(Staged(c)) - Cardinality(S)
  <2>1. Staged(c) \cap S = S
    OBVIOUS
  <2> QED
    BY <1>1, <2>1, FS_Difference
<1>3. Cardinality(Staged(c)') <= Cardinality(Staged(c) \ S)
  BY <1>2, FS_Subset
<1>4. /\ Cardinality(Staged(c)') \in Nat /\ Cardinality(Staged(c)) \in Nat
      /\ Cardinality(S) \in Nat
      /\ asked[c] \in Nat /\ asked'[c] \in Nat /\ total \in Nat /\ total' \in Nat
  <2>1. Cardinality(Staged(c)') \in Nat /\ Cardinality(Staged(c)) \in Nat
    BY MessageSets DEF Staged
  <2>2. Cardinality(S) \in Nat
    BY <1>1, FS_CardinalityType
  <2> QED
    BY <2>1, <2>2, MaxBatchAssumption DEF QuotaInv, Control, TypeOK, StoreTypeOK
<1>5. Claim(c)' = asked'[c] + Cardinality(Staged(c)')
  BY DEF Claim
<1>6. Claim(c) = asked[c] + Cardinality(Staged(c)) /\ Claim(c) <= MaxBatch
  BY DEF Claim, QuotaInv, ClaimInv
<1>7. Claim(c)' <= MaxBatch /\ total' + Claim(c)' <= total + Claim(c)
  BY <1>2, <1>3, <1>4, <1>5, <1>6, MaxBatchAssumption
<1> QED
  BY <1>7, ClaimSpent

\* A step that changes neither the total nor what is in the ticks.
LEMMA QuotaKept ==
  ASSUME QuotaInv, Control', UNCHANGED <<total, asked, stage>>
  PROVE  QuotaInv'
BY DEF QuotaInv, ClaimInv, QuotaBound, Slots, Claim, Staged

LEMMA ExitQuota ==
  ASSUME QuotaInv, Control', NEW c \in Consumers, NEW R,
         NEW S \in SUBSET Staged(c), Exit(c, R, S)
  PROVE  QuotaInv'
<1>1. /\ asked'[c] = 0 /\ Staged(c)' = {}
      /\ \A d \in Consumers \ {c} : asked'[d] = asked[d] /\ stage'[d] = stage[d]
  BY DEF QuotaInv, Control, TypeOK, Exit, Staged, Nothing
<1>2. asked'[c] <= asked[c]
  BY <1>1, MaxBatchAssumption DEF QuotaInv, Control, TypeOK
<1>3. total' <= total + Cardinality(S)
  <2>1. IsFiniteSet(S) /\ Cardinality(S) \in Nat
    BY ClaimsType, FS_Subset, FS_CardinalityType DEF QuotaInv
  <2> QED
    BY <2>1 DEF Exit, Increment, QuotaInv, Control, TypeOK, StoreTypeOK
<1> QED
  BY <1>1, <1>2, <1>3, StagedShrinks

\* A Move that takes the messages of S out of the tick, counting at most S.
LEMMA MoveOutQuota ==
  ASSUME QuotaInv, Control', NEW c \in Consumers, NEW S \in SUBSET Staged(c),
         Move(c, S, "none"), UNCHANGED asked,
         total' <= total + Cardinality(S)
  PROVE  QuotaInv'
<1>1. /\ Staged(c)' \subseteq Staged(c) \ S
      /\ \A d \in Consumers \ {c} : stage'[d] = stage[d]
  BY DEF QuotaInv, Control, TypeOK, Staged, Move
<1>2. asked'[c] <= asked[c]
  BY MaxBatchAssumption DEF QuotaInv, Control, TypeOK
<1> QED
  BY <1>1, <1>2, StagedShrinks

\* A Move that keeps messages of the tick in it.
LEMMA MoveOnQuota ==
  ASSUME QuotaInv, Control', NEW c \in Consumers, NEW S \in SUBSET Staged(c),
         NEW s, Move(c, S, s), UNCHANGED <<asked, total>>
  PROVE  QuotaInv'
<1>1. /\ Staged(c)' \subseteq Staged(c) \ {}
      /\ \A d \in Consumers \ {c} : stage'[d] = stage[d]
  BY DEF QuotaInv, Control, TypeOK, Staged, Move
<1>2. asked'[c] <= asked[c] /\ total' <= total + Cardinality({})
  BY MaxBatchAssumption, FS_EmptySet DEF QuotaInv, Control, TypeOK, StoreTypeOK
<1> QED
  BY <1>1, <1>2, StagedShrinks

LEMMA FatalQuota ==
  ASSUME QuotaInv, Control', NEW c \in Consumers, NEW p, NEW W,
         NEW st, \A m \in Messages : st[m] \in {"none", stage[c][m]},
         HandleFatalError(c, p, W, st)
  PROVE  QuotaInv'
<1>1. CASE IsOpen(c) \/ ErrorListener
  <2>1. stage' = [stage EXCEPT ![c] = st] /\ UNCHANGED <<asked, total>>
    BY <1>1 DEF HandleFatalError
  <2>2. /\ Staged(c)' \subseteq Staged(c) \ {}
        /\ \A d \in Consumers \ {c} : stage'[d] = stage[d]
    BY <2>1 DEF QuotaInv, Control, TypeOK, Staged
  <2>3. asked'[c] <= asked[c] /\ total' <= total + Cardinality({})
    BY <2>1, MaxBatchAssumption, FS_EmptySet DEF QuotaInv, Control, TypeOK, StoreTypeOK
  <2> QED
    BY <2>1, <2>2, <2>3, StagedShrinks
<1>2. CASE ~(IsOpen(c) \/ ErrorListener)
  BY <1>2, ExitQuota DEF HandleFatalError
<1> QED
  BY <1>1, <1>2

LEMMA NackQuota ==
  ASSUME QuotaInv, Control', NEW c \in Consumers, NEW S \in SUBSET Staged(c),
         NEW requeue, Nack(c, S, requeue) \/ NackHeard(c, S, requeue)
  PROVE  QuotaInv'
<1>1. CASE Exit(c, {}, {})
  BY <1>1, ExitQuota
<1>2. CASE Move(c, S, "none") /\ UNCHANGED <<asked, total>>
  <2>1. Cardinality(S) \in Nat
    BY ClaimsType, FS_Subset, FS_CardinalityType DEF QuotaInv
  <2>2. total' <= total + Cardinality(S)
    BY <1>2, <2>1 DEF QuotaInv, Control, TypeOK, StoreTypeOK
  <2> QED
    BY <1>2, <2>2, MoveOutQuota
<1> QED
  BY <1>1, <1>2 DEF Nack, NackHeard

\* The read of the balance is where a consumer claims quota: what is counted
\* and what it claims are then one quota together, whatever the others claim.
LEMMA ReadQuota ==
  ASSUME QuotaInv, Control', NEW c \in Consumers, ReadBalance(c)
  PROVE  QuotaInv'
<1>1. CASE Spills(c)
  <2>1. Balance \in 1 .. MaxBatch /\ Balance = MaxBatch - total /\ total \in Nat
    BY <1>1, MaxBatchAssumption
    DEF Spills, Balance, QuotaInv, Control, TypeOK, StoreTypeOK
  <2>2. /\ asked' = [asked EXCEPT ![c] = Balance]
        /\ UNCHANGED <<stage, total>>
        /\ pc[c] = "reading"
    BY <1>1 DEF ReadBalance
  <2>3. asked'[c] = Balance /\ Staged(c)' = {}
    <3>1. asked'[c] = Balance
      BY <2>2 DEF QuotaInv, Control, TypeOK
    <3>2. \A m \in Messages : stage[c][m] = "none"
      BY <2>2 DEF QuotaInv, Control, StagedInv, WorkSteps, Phases
    <3> QED
      BY <2>2, <3>1, <3>2 DEF Staged
  <2>4. Claim(c)' = Balance
    <3>1. Claim(c)' = Balance + 0
      BY <2>3, FS_EmptySet DEF Claim
    <3> QED
      BY <2>1, <3>1, MaxBatchAssumption
  <2>5. \A d \in Consumers \ {c} : asked'[d] = asked[d] /\ stage'[d] = stage[d]
    BY <2>2 DEF QuotaInv, Control, TypeOK
  <2>6. ClaimInv'
    BY <2>1, <2>4, <2>5, OthersKeep, MaxBatchAssumption DEF QuotaInv, ClaimInv
  <2>7. Cardinality(Slots)' = Claim(c)' + Cardinality(OthersUnder(Claims, c))
    BY <2>5, <2>6, OthersKeep, SlotsNext
  <2>8. /\ Cardinality(OthersUnder(Claims, c)) \in Nat
        /\ Cardinality(OthersUnder(Claims, c)) + MaxBatch
             <= MaxBatch * Cardinality(Consumers)
    BY QuotaSplit DEF QuotaInv
  <2>9. total' + Cardinality(Slots)' <= MaxBatch * Cardinality(Consumers)
    <3>1. Cardinality(Consumers) \in Nat /\ MaxBatch * Cardinality(Consumers) \in Nat
      BY ConsumersAssumption, FS_CardinalityType, MaxBatchAssumption
    <3> QED
      BY <2>1, <2>2, <2>4, <2>7, <2>8, <3>1, MaxBatchAssumption
  <2> QED
    BY <2>6, <2>9 DEF QuotaInv, QuotaBound
<1>2. CASE ~Spills(c)
  BY <1>2, QuotaKept DEF ReadBalance
<1> QED
  BY <1>1, <1>2

LEMMA GetQuota ==
  ASSUME QuotaInv, Control', NEW c \in Consumers, GetSingleMessage(c)
  PROVE  QuotaInv'
<1>1. /\ asked[c] \in 1 .. MaxBatch
      /\ asked' = [asked EXCEPT ![c] = asked[c] - 1]
      /\ total' = total
  BY DEF GetSingleMessage, Answered, QuotaInv, Control, TypeOK, AskedInv
<1>2. asked'[c] = asked[c] - 1 /\ \A d \in Consumers \ {c} : asked'[d] = asked[d]
  BY <1>1 DEF QuotaInv, Control, TypeOK
<1>3. ASSUME NEW m \in Messages, Move(c, {m}, "got")
      PROVE  QuotaInv'
  <2>1. /\ Staged(c)' \subseteq Staged(c) \cup {m}
        /\ \A d \in Consumers \ {c} : stage'[d] = stage[d]
    BY <1>3 DEF QuotaInv, Control, TypeOK, Staged, Move
  <2>2. IsFiniteSet(Staged(c)) /\ Cardinality(Staged(c)) \in Nat
    BY ClaimsType DEF QuotaInv
  <2>3. /\ IsFiniteSet(Staged(c) \cup {m})
        /\ Cardinality(Staged(c) \cup {m}) <= Cardinality(Staged(c)) + 1
    BY <2>2, FS_AddElement
  <2>4. Cardinality(Staged(c)') \in Nat
        /\ Cardinality(Staged(c)') <= Cardinality(Staged(c) \cup {m})
    BY <2>1, <2>3, FS_Subset, FS_CardinalityType
  <2>5. Cardinality(Staged(c) \cup {m}) \in Nat
    BY <2>3, FS_CardinalityType
  <2>6. Claim(c)' <= Claim(c)
    <3>1. Claim(c)' = asked'[c] + Cardinality(Staged(c)')
      BY DEF Claim
    <3>2. Claim(c) = asked[c] + Cardinality(Staged(c))
      BY DEF Claim
    <3> QED
      BY <1>1, <1>2, <2>2, <2>3, <2>4, <2>5, <3>1, <3>2, MaxBatchAssumption
  <2>7. /\ Claim(c) \in Nat /\ Claim(c)' \in Nat /\ Claim(c) <= MaxBatch
        /\ total \in Nat
    <3>1. Claim(c)' \in Nat
      BY <1>1, <1>2, <2>4, MaxBatchAssumption DEF Claim
    <3> QED
      BY <3>1, ClaimsType DEF QuotaInv, ClaimInv, Control, TypeOK, StoreTypeOK
  <2>8. Claim(c)' <= MaxBatch /\ total' + Claim(c)' <= total + Claim(c)
    BY <1>1, <2>6, <2>7, MaxBatchAssumption
  <2> QED
    BY <1>2, <2>1, <2>8, ClaimSpent
<1>4. CASE UNCHANGED stage
  <2>1. asked'[c] <= asked[c] /\ total' <= total + Cardinality({})
    BY <1>1, <1>2, MaxBatchAssumption, FS_EmptySet
    DEF QuotaInv, Control, TypeOK, StoreTypeOK
  <2>2. Staged(c)' \subseteq Staged(c) \ {}
    BY <1>4 DEF Staged
  <2> QED
    BY <1>2, <1>4, <2>1, <2>2, StagedShrinks
<1> QED
  BY <1>3, <1>4 DEF GetSingleMessage, Ready

\* A new window: nothing is counted, and the ticks that go on claim at most
\* a quota each.
LEMMA WindowQuota ==
  ASSUME QuotaInv, Control', NewWindow, UNCHANGED <<asked, stage>>
  PROVE  QuotaInv'
<1>1. total' = 0
  BY DEF NewWindow, ResetTotal
<1>2. ClaimInv' /\ Slots' = Slots
  BY DEF QuotaInv, ClaimInv, Claim, Staged, Slots
<1>3. total \in Nat /\ total + Cardinality(Slots) <= MaxBatch * Cardinality(Consumers)
  BY DEF QuotaInv, QuotaBound, Control, TypeOK, StoreTypeOK
<1>4. Cardinality(Slots) \in Nat /\ MaxBatch * Cardinality(Consumers) \in Nat
  <2>1. IsFiniteSet(Consumers \X (1 .. MaxBatch))
    <3>1. IsFiniteSet(1 .. MaxBatch)
      BY MaxBatchAssumption, FS_Interval
    <3> QED
      BY <3>1, ConsumersAssumption, FS_Product
  <2>2. Slots \in SUBSET (Consumers \X (1 .. MaxBatch))
    BY DEF Slots
  <2>3. Cardinality(Consumers) \in Nat
    BY ConsumersAssumption, FS_CardinalityType
  <2> QED
    BY <2>1, <2>2, <2>3, FS_Subset, FS_CardinalityType, MaxBatchAssumption
<1>5. QuotaBound'
  <2>1. total' + Cardinality(Slots)' <= MaxBatch * Cardinality(Consumers)
    BY <1>1, <1>2, <1>3, <1>4
  <2> QED
    BY <2>1 DEF QuotaBound
<1> QED
  BY <1>2, <1>5 DEF QuotaInv

\* The units of a callback, and the messages of a phase, are in the tick.
LEMMA UnitsInTick ==
  ASSUME NEW c \in Consumers, NEW s, s # "none"
  PROVE  /\ In(c, s) \in SUBSET Staged(c)
         /\ \A S \in Units(c, s) : S \in SUBSET Staged(c)
BY DEF Units, In, Staged

LEMMA TickQuota ==
  ASSUME QuotaInv, Control', NEW c \in Consumers, Tick(c)
  PROVE  QuotaInv'
<1>1. CASE TickStart(c) \/ PhaseOver(c) \/ EndTick(c)
  BY <1>1, QuotaKept DEF TickStart, PhaseOver, EndTick
<1>2. CASE GetFails(c)
  BY <1>2, ExitQuota DEF GetFails
<1>3. CASE PassThrough(c)
  <2>1. Before[pc[c]] # "none"
    BY <1>3 DEF PassThrough, Before, Phases
  <2>2. /\ Move(c, In(c, Before[pc[c]]), After[pc[c]])
        /\ UNCHANGED <<asked, total>>
    BY <1>3 DEF PassThrough
  <2> QED
    BY <2>1, <2>2, UnitsInTick, MoveOnQuota
<1>4. ASSUME NEW m \in Messages, HookPasses(c, m)
      PROVE  QuotaInv'
  <2>1. stage[c][m] # "none"
    <3>1. pc[c] \in Phases /\ stage[c][m] = Before[pc[c]]
      BY <1>4, ConfigAssumption DEF HookPasses
    <3> QED
      BY <3>1 DEF Before, Phases
  <2>2. {m} \in SUBSET Staged(c)
    BY <2>1 DEF Staged
  <2>3. Move(c, {m}, After[pc[c]]) /\ UNCHANGED <<asked, total>>
    BY <1>4 DEF HookPasses
  <2> QED
    BY <2>2, <2>3, MoveOnQuota
<1>5. ASSUME NEW m \in Messages, ItemInvalid(c, m)
      PROVE  QuotaInv'
  <2>1. {m} \in SUBSET Staged(c)
    BY <1>5 DEF ItemInvalid, Staged
  <2> QED
    BY <1>5, <2>1, NackQuota DEF ItemInvalid
<1>6. ASSUME NEW m \in Messages, NEW e \in Errors, HookThrows(c, m, e)
      PROVE  QuotaInv'
  <2>1. stage[c][m] # "none"
    <3>1. pc[c] \in Phases /\ stage[c][m] = Before[pc[c]]
      BY <1>6, ConfigAssumption DEF HookThrows
    <3> QED
      BY <3>1 DEF Before, Phases
  <2>2. {m} \in SUBSET Staged(c)
    BY <2>1 DEF Staged
  <2> QED
    BY <1>6, <2>2, NackQuota DEF HookThrows
<1>7. CASE StartChunk(c)
  <2>1. PICK S \in Chunks(c) : Move(c, S, "running") /\ UNCHANGED <<asked, total>>
    BY <1>7 DEF StartChunk
  <2>2. S \in SUBSET Staged(c)
    BY UnitsInTick DEF Chunks
  <2> QED
    BY <2>1, <2>2, MoveOnQuota
<1>8. CASE SpillOver(c)
  <2>1. /\ Staged(c)' \subseteq Staged(c) \ {}
        /\ \A d \in Consumers \ {c} : stage'[d] = stage[d]
    BY <1>8 DEF SpillOver, QuotaInv, Control, TypeOK, Staged, Nothing
  <2>2. asked' = asked /\ asked'[c] <= asked[c] /\ total' <= total + Cardinality({})
    BY <1>8, MaxBatchAssumption, FS_EmptySet
    DEF SpillOver, QuotaInv, Control, TypeOK, StoreTypeOK
  <2> QED
    BY <2>1, <2>2, StagedShrinks
<1>9. ASSUME NEW S \in SUBSET Messages, CallbackSucceeds(c, S)
      PROVE  QuotaInv'
  <2>1. S \in SUBSET Staged(c)
    BY <1>9, UnitsInTick DEF CallbackSucceeds
  <2>2. CASE IsOpen(c)
    BY <1>9, <2>1, <2>2, MoveOnQuota DEF CallbackSucceeds
  <2>3. CASE ~IsOpen(c)
    BY <1>9, <2>3, ExitQuota DEF CallbackSucceeds
  <2> QED
    BY <2>2, <2>3
<1>10. ASSUME NEW S \in SUBSET Messages, Count(c, S)
       PROVE  QuotaInv'
  <2>1. S \in SUBSET Staged(c)
    BY <1>10, UnitsInTick DEF Count
  <2>2. total' <= total + Cardinality(S)
    BY <1>10, MessageSets DEF Count, Increment, QuotaInv, Control, TypeOK, StoreTypeOK
  <2> QED
    BY <1>10, <2>1, <2>2, MoveOutQuota DEF Count
<1>11. ASSUME NEW S \in SUBSET Messages, NEW e \in Errors, CallbackFails(c, S, e)
       PROVE  QuotaInv'
  <2>1. S \in SUBSET Staged(c)
    BY <1>11, UnitsInTick DEF CallbackFails
  <2> QED
    BY <1>11, <2>1, NackQuota DEF CallbackFails
<1>12. ASSUME NEW S \in SUBSET Messages, NEW e \in Errors, CallbackFailsCounted(c, S, e)
       PROVE  QuotaInv'
  <2>1. S \in SUBSET Staged(c)
    BY <1>12, UnitsInTick DEF CallbackFailsCounted
  <2>2. CASE PerItem \/ ErrorListener
    BY <1>12, <2>1, <2>2, MoveOnQuota DEF CallbackFailsCounted
  <2>3. CASE ~(PerItem \/ ErrorListener)
    BY <1>12, <2>3, ExitQuota DEF CallbackFailsCounted
  <2> QED
    BY <2>2, <2>3
<1>13. ASSUME NEW S \in SUBSET Messages, NEW s \in Settling, CountFailure(c, S, s)
       PROVE  QuotaInv'
  <2>1. S \in SUBSET Staged(c)
    BY <1>13, UnitsInTick DEF CountFailure, Settling
  <2>2. CASE IsOpen(c) /\ ErrorListener
    <3>1. total' <= total + Cardinality(S)
      BY <1>13, <2>2, MessageSets
      DEF CountFailure, Increment, QuotaInv, Control, TypeOK, StoreTypeOK
    <3> QED
      BY <1>13, <2>1, <2>2, <3>1, MoveOutQuota DEF CountFailure
  <2>3. CASE ~(IsOpen(c) /\ ErrorListener)
    BY <1>13, <2>1, <2>3, ExitQuota DEF CountFailure
  <2> QED
    BY <2>2, <2>3
<1> QED
  BY <1>1, <1>2, <1>3, <1>4, <1>5, <1>6, <1>7, <1>8, <1>9, <1>10, <1>11, <1>12, <1>13,
     ReadQuota, GetQuota DEF Tick

LEMMA FaultQuota ==
  ASSUME QuotaInv, Control', NEW c \in Consumers, Fault(c)
  PROVE  QuotaInv'
<1>1. CASE BalanceFails(c)
  BY <1>1, FatalQuota DEF BalanceFails
<1>2. CASE ChannelError(c)
  BY <1>2, FatalQuota, ExitQuota DEF ChannelError
<1>3. CASE Crash(c)
  BY <1>3, ExitQuota DEF Crash
<1>4. ASSUME NEW S \in SUBSET Messages, NEW s \in Settling \cup {"counting"},
             CountFails(c, S, s)
      PROVE  QuotaInv'
  <2> DEFINE st == [m \in Messages |-> IF m \in S THEN "none" ELSE stage[c][m]]
  <2>1. /\ \A m \in Messages : st[m] \in {"none", stage[c][m]}
        /\ \A m \in Messages : Nothing[m] \in {"none", stage[c][m]}
    BY DEF Nothing
  <2>2. HandleFatalError(c, pc[c], S, st) \/ HandleFatalError(c, "idle", S, Nothing)
    BY <1>4 DEF CountFails
  <2> HIDE DEF st
  <2> QED
    BY <2>1, <2>2, FatalQuota
<1> QED
  BY <1>1, <1>2, <1>3, <1>4 DEF Fault

LEMMA CallQuota ==
  ASSUME QuotaInv, Control', NEW c \in Consumers, Call(c) \/ Closing(c)
  PROVE  QuotaInv'
<1>1. CASE Boot(c) \/ Cork(c) \/ Uncork(c) \/ ShutdownClose(c) \/ Died(c)
  BY <1>1, QuotaKept DEF Boot, Cork, Uncork, ShutdownClose, Died
<1>2. ASSUME NEW purge \in BOOLEAN, Shutdown(c, purge)
      PROVE  QuotaInv'
  BY <1>2, QuotaKept DEF Shutdown
<1>3. CASE Purge(c)
  BY <1>3, WindowQuota DEF Purge, consumerVars
<1>4. CASE ShutdownPurge(c)
  BY <1>4, WindowQuota, QuotaKept DEF ShutdownPurge
<1> QED
  BY <1>1, <1>2, <1>3, <1>4 DEF Call, Closing

LEMMA WorldQuota ==
  ASSUME QuotaInv, Control',
         \/ WindowEnds
         \/ \E c \in Consumers : Returns(c)
         \/ \E m \in Messages : Published(m)
  PROVE  QuotaInv'
<1>1. CASE WindowEnds
  BY <1>1, WindowQuota DEF WindowEnds, consumerVars
<1>2. CASE UNCHANGED <<total, consumerVars, history>>
  BY <1>2, QuotaKept DEF consumerVars
<1> QED
  BY <1>1, <1>2 DEF Returns, Published

LEMMA InitQuota == Init => QuotaInv
<1> SUFFICES ASSUME Init
             PROVE  QuotaInv
  OBVIOUS
<1>1. Control
  BY InitControl
<1>2. \A c \in Consumers : Claim(c) = 0
  <2>1. \A c \in Consumers : asked[c] = 0 /\ Staged(c) = {}
    BY DEF Init, Staged, Nothing
  <2> QED
    BY <2>1, FS_EmptySet DEF Claim
<1>3. Slots = {}
  BY <1>2, MaxBatchAssumption DEF Slots
<1>4. MaxBatch * Cardinality(Consumers) \in Nat
  BY MaxBatchAssumption, ConsumersAssumption, FS_CardinalityType
<1>5. total + Cardinality(Slots) = 0
  BY <1>3, FS_EmptySet DEF Init, StoreInit
<1> QED
  BY <1>1, <1>2, <1>4, <1>5, MaxBatchAssumption DEF QuotaInv, ClaimInv, QuotaBound

LEMMA NextQuota == QuotaInv /\ [Next]_vars => QuotaInv'
<1> SUFFICES ASSUME QuotaInv, [Next]_vars
             PROVE  QuotaInv'
  OBVIOUS
<1>1. Control'
  BY NextControl DEF QuotaInv
<1>2. CASE UNCHANGED vars
  BY <1>1, <1>2, QuotaKept DEF vars, consumerVars
<1>3. CASE Next
  BY <1>1, <1>3, TickQuota, FaultQuota, CallQuota, WorldQuota DEF Next
<1> QED
  BY <1>2, <1>3

\* The items counted in a window and those running ticks may still count
\* never exceed one quota per consumer: however the consumers' reads of the
\* balance and their increments interleave, and whatever crashes, fails, is
\* purged or shut down in between.
THEOREM QuotaIsBounded == Spec => []QuotaBound
<1>1. QuotaInv => QuotaBound
  BY DEF QuotaInv
<1> QED
  BY <1>1, InitQuota, NextQuota, PTL DEF Spec

-----------------------------------------------------------------------------
(* The account of the items that used quota.                               *)

\* With onSpill a tick has one unit in hand at a time, so the messages past
\* the start of their callback are all in the same stage; without a callback
\* there are none.
UniformInv ==
  \A c \in Consumers : \A m, n \in Messages :
    stage[c][m] \in ActiveStages /\ stage[c][n] \in ActiveStages
      => Callback # "none" /\ (PerItem \/ stage[c][m] = stage[c][n])

AccountInv == QuotaInv /\ UniformInv /\ Accounted

OwedCount == [c \in Consumers |-> Cardinality(Owed(c))]

\* What is owed is a part of the claim.
LEMMA OwedType ==
  ASSUME QuotaInv, NEW c \in Consumers
  PROVE  /\ IsFiniteSet(Owed(c)) /\ Owed(c) \in SUBSET Staged(c)
         /\ Cardinality(Owed(c)) \in 0 .. MaxBatch
<1>1. Owed(c) \in SUBSET Staged(c)
  BY DEF Owed, Staged, Settling
<1>2. /\ IsFiniteSet(Staged(c)) /\ Cardinality(Staged(c)) \in Nat
      /\ Claim(c) \in Nat /\ Claim(c) <= MaxBatch
  BY ClaimsType DEF QuotaInv, ClaimInv
<1>3. /\ IsFiniteSet(Owed(c)) /\ Cardinality(Owed(c)) \in Nat
      /\ Cardinality(Owed(c)) <= Cardinality(Staged(c))
  BY <1>1, <1>2, FS_Subset, FS_CardinalityType
<1>4. asked[c] \in Nat
  BY MaxBatchAssumption DEF QuotaInv, Control, TypeOK
<1> QED
  BY <1>1, <1>2, <1>3, <1>4, MaxBatchAssumption DEF Claim

LEMMA OwedCountType ==
  ASSUME QuotaInv
  PROVE  OwedCount \in [Consumers -> 0 .. MaxBatch] /\ Owing = SlotsUnder(OwedCount)
BY OwedType DEF OwedCount, Owing, SlotsUnder

LEMMA OwedCountTypeNext ==
  ASSUME QuotaInv'
  PROVE  OwedCount' \in [Consumers -> 0 .. MaxBatch] /\ Owing' = SlotsUnder(OwedCount')
<1>1. ASSUME NEW c \in Consumers
      PROVE  Cardinality(Owed(c)') \in 0 .. MaxBatch
  <2>1. IsFiniteSet(Staged(c)') /\ Cardinality(Staged(c)') \in Nat
    BY MessageSets DEF Staged
  <2>2. Owed(c)' \in SUBSET Staged(c)'
    BY DEF Owed, Staged, Settling
  <2>3. /\ Cardinality(Owed(c)') \in Nat
        /\ Cardinality(Owed(c)') <= Cardinality(Staged(c)')
    BY <2>1, <2>2, FS_Subset, FS_CardinalityType
  <2>4. asked'[c] \in Nat /\ asked'[c] + Cardinality(Staged(c)') <= MaxBatch
    BY MaxBatchAssumption DEF QuotaInv, ClaimInv, Claim, Control, TypeOK
  <2> QED
    BY <2>1, <2>3, <2>4, MaxBatchAssumption
<1> QED
  BY <1>1 DEF OwedCount, Owing, SlotsUnder

\* A step of consumer c keeps the account when the delivered items grow by no
\* more than the total, the owed items of c and the lost ones together.
LEMMA AccountStep ==
  ASSUME QuotaInv, QuotaInv', Accounted, NEW c \in Consumers,
         \A d \in Consumers \ {c} : stage'[d] = stage[d],
         delivered' + total + Cardinality(Owed(c)) + lost
           <= delivered + total' + Cardinality(Owed(c)') + lost'
  PROVE  Accounted'
<1>1. \A d \in Consumers \ {c} : OwedCount'[d] = OwedCount[d]
  BY DEF OwedCount, Owed
<1>2. /\ Cardinality(Owing') - OwedCount'[c] = Cardinality(Owing) - OwedCount[c]
      /\ OwedCount[c] \in 0 .. MaxBatch /\ OwedCount'[c] \in 0 .. MaxBatch
  BY <1>1, OwedCountType, OwedCountTypeNext, SlotsUpdate
<1>3. OwedCount[c] = Cardinality(Owed(c)) /\ OwedCount'[c] = Cardinality(Owed(c)')
  BY DEF OwedCount
<1>4. Cardinality(Owing) \in Nat /\ Cardinality(Owing') \in Nat
  BY <1>2, OwedCountType, OwedCountTypeNext, SlotsSplit, MaxBatchAssumption
<1>5. /\ delivered \in Nat /\ delivered' \in Nat /\ lost \in Nat /\ lost' \in Nat
      /\ total \in Nat /\ total' \in Nat
  BY DEF QuotaInv, Control, TypeOK, StoreTypeOK
<1>6. delivered <= total + Cardinality(Owing) + lost
  BY DEF Accounted
<1>7. delivered' <= total' + Cardinality(Owing') + lost'
  BY <1>2, <1>3, <1>4, <1>5, <1>6, MaxBatchAssumption
<1> QED
  BY <1>7 DEF Accounted

LEMMA AccountKept ==
  ASSUME AccountInv, QuotaInv', NEW c \in Consumers, Owed(c)' = Owed(c),
         \A d \in Consumers \ {c} : stage'[d] = stage[d],
         UNCHANGED <<total, delivered, lost>>
  PROVE  Accounted'
<1>1. /\ Cardinality(Owed(c)) \in Nat /\ delivered \in Nat /\ lost \in Nat
      /\ total \in Nat
  BY OwedType, MaxBatchAssumption DEF AccountInv, QuotaInv, Control, TypeOK, StoreTypeOK
<1>2. delivered' + total + Cardinality(Owed(c)) + lost
        <= delivered + total' + Cardinality(Owed(c)') + lost'
  BY <1>1
<1> QED
  BY <1>2, AccountStep DEF AccountInv

LEMMA AccountSame ==
  ASSUME AccountInv, UNCHANGED <<total, stage, delivered, lost>>
  PROVE  Accounted'
BY DEF AccountInv, Accounted, Owing, Owed

\* A unit whose callback has just used quota is owed from then on.
LEMMA AccountUsed ==
  ASSUME AccountInv, QuotaInv', NEW c \in Consumers, NEW S \in Units(c, "running"),
         NEW s \in Settling \cup {"counting"}, Move(c, S, s),
         delivered' = delivered + Cardinality(S), UNCHANGED <<total, lost>>
  PROVE  Accounted'
<1>1. S \in SUBSET Messages /\ \A m \in S : stage[c][m] = "running"
  BY UnitsAreStaged DEF Stages
<1>2. IsFiniteSet(S) /\ Cardinality(S) \in Nat
  BY <1>1, MessageSets
<1>3. IsFiniteSet(Owed(c)) /\ Cardinality(Owed(c)) \in Nat
  BY OwedType, MaxBatchAssumption DEF AccountInv
<1>4. Owed(c)' = Owed(c) \cup S /\ Owed(c) \cap S = {}
  BY <1>1 DEF AccountInv, QuotaInv, Control, TypeOK, Owed, Move, Settling
<1>5. Cardinality(Owed(c)') = Cardinality(Owed(c)) + Cardinality(S)
  <2>1. Cardinality(Owed(c) \cup S)
          = Cardinality(Owed(c)) + Cardinality(S) - Cardinality({})
    BY <1>2, <1>3, <1>4, FS_Union
  <2> QED
    BY <1>2, <1>3, <1>4, <2>1, FS_EmptySet
<1>6. \A d \in Consumers \ {c} : stage'[d] = stage[d]
  BY DEF Move, AccountInv, QuotaInv, Control, TypeOK
<1>7. delivered \in Nat /\ lost \in Nat /\ total \in Nat
  BY DEF AccountInv, QuotaInv, Control, TypeOK, StoreTypeOK
<1>8. delivered' + total + Cardinality(Owed(c)) + lost
        <= delivered + total' + Cardinality(Owed(c)') + lost'
  BY <1>2, <1>3, <1>5, <1>7
<1> QED
  BY <1>6, <1>8, AccountStep DEF AccountInv

\* Items that leave what is owed are counted or lost.
LEMMA AccountPaid ==
  ASSUME AccountInv, QuotaInv', NEW c \in Consumers, NEW S \in SUBSET Owed(c),
         Owed(c)' = Owed(c) \ S,
         \A d \in Consumers \ {c} : stage'[d] = stage[d],
         delivered' = delivered, total' + lost' = total + lost + Cardinality(S)
  PROVE  Accounted'
<1>1. IsFiniteSet(Owed(c)) /\ Cardinality(Owed(c)) \in Nat
  BY OwedType, MaxBatchAssumption DEF AccountInv
<1>2. IsFiniteSet(S) /\ Cardinality(S) \in Nat
  BY <1>1, FS_Subset, FS_CardinalityType
<1>3. Cardinality(Owed(c)') = Cardinality(Owed(c)) - Cardinality(S)
  <2> DEFINE O == Owed(c)
             D == O \ S
  <2>1. O \cap S = S
    OBVIOUS
  <2>2. Cardinality(D) = Cardinality(O) - Cardinality(O \cap S)
    <3> HIDE DEF O
    <3> QED
      BY <1>1, FS_Difference DEF O
  <2> QED
    BY <2>1, <2>2
<1>4. /\ delivered \in Nat /\ lost \in Nat /\ total \in Nat
      /\ lost' \in Nat /\ total' \in Nat
  BY DEF AccountInv, QuotaInv, Control, TypeOK, StoreTypeOK
<1>5. delivered' + total + Cardinality(Owed(c)) + lost
        <= delivered + total' + Cardinality(Owed(c)') + lost'
  BY <1>1, <1>2, <1>3, <1>4
<1> QED
  BY <1>5, AccountStep DEF AccountInv

\* A process that ends loses what it owes, and what its callbacks had just
\* done.
LEMMA AccountExit ==
  ASSUME AccountInv, QuotaInv', NEW c \in Consumers,
         NEW R \in Units(c, "running") \cup {{}}, NEW S \in SUBSET Owed(c),
         Exit(c, R, S)
  PROVE  Accounted'
<1>1. R \in SUBSET Messages /\ \A m \in R : stage[c][m] = "running"
  BY UnitsAreStaged DEF Stages
<1>2. IsFiniteSet(R) /\ Cardinality(R) \in Nat
  BY <1>1, MessageSets
<1>3. IsFiniteSet(Owed(c)) /\ Cardinality(Owed(c)) \in Nat
  BY OwedType, MaxBatchAssumption DEF AccountInv
<1>4. /\ IsFiniteSet(S) /\ Cardinality(S) \in Nat
      /\ IsFiniteSet(Owed(c) \ S)
      /\ Cardinality(Owed(c) \ S) = Cardinality(Owed(c)) - Cardinality(S)
  <2>1. Owed(c) \cap S = S
    OBVIOUS
  <2> QED
    BY <1>3, <2>1, FS_Difference, FS_Subset, FS_CardinalityType
<1>5. R \cap (Owed(c) \ S) = {}
  BY <1>1 DEF Owed, Settling
<1>6. Cardinality(R \cup (Owed(c) \ S))
        = Cardinality(R) + Cardinality(Owed(c)) - Cardinality(S)
  <2>1. Cardinality(R \cup (Owed(c) \ S))
          = Cardinality(R) + Cardinality(Owed(c) \ S) - Cardinality({})
    BY <1>2, <1>4, <1>5, FS_Union
  <2> QED
    BY <1>2, <1>3, <1>4, <2>1, FS_EmptySet
<1>7. Owed(c)' = {} /\ \A d \in Consumers \ {c} : stage'[d] = stage[d]
  BY DEF Exit, Owed, Nothing, Settling, AccountInv, QuotaInv, Control, TypeOK
<1>8. Cardinality(Owed(c)') = 0
  BY <1>7, FS_EmptySet
<1>9. /\ delivered' = delivered + Cardinality(R)
      /\ total' = total + Cardinality(S)
      /\ lost' = lost + Cardinality(R \cup (Owed(c) \ S))
      /\ delivered \in Nat /\ lost \in Nat /\ total \in Nat
  BY DEF Exit, Increment, AccountInv, QuotaInv, Control, TypeOK, StoreTypeOK
<1>10. delivered' + total + Cardinality(Owed(c)) + lost
         <= delivered + total' + Cardinality(Owed(c)') + lost'
  BY <1>2, <1>3, <1>4, <1>6, <1>8, <1>9
<1> QED
  BY <1>7, <1>10, AccountStep DEF AccountInv

LEMMA FatalAccount ==
  ASSUME AccountInv, QuotaInv', NEW c \in Consumers, NEW p,
         NEW W \in SUBSET Owed(c), NEW st,
         \A m \in Messages : /\ st[m] \in {"none", stage[c][m]}
                             /\ m \in Owed(c) => (st[m] = "none" <=> m \in W),
         HandleFatalError(c, p, W, st)
  PROVE  Accounted'
<1>1. CASE IsOpen(c) \/ ErrorListener
  <2>1. /\ stage' = [stage EXCEPT ![c] = st]
        /\ total' = total /\ delivered' = delivered
        /\ lost' = lost + Cardinality(W)
    BY <1>1 DEF HandleFatalError
  <2>2. \A d \in Consumers \ {c} : stage'[d] = stage[d]
    BY <2>1 DEF AccountInv, QuotaInv, Control, TypeOK
  <2>3. \A m \in Messages : stage'[c][m] = st[m]
    BY <2>1 DEF AccountInv, QuotaInv, Control, TypeOK
  <2>4. Owed(c)' = Owed(c) \ W
    BY <2>3 DEF Owed, Settling
  <2>5. IsFiniteSet(W) /\ Cardinality(W) \in Nat
    BY OwedType, FS_Subset, FS_CardinalityType DEF AccountInv
  <2>6. total' + lost' = total + lost + Cardinality(W)
    BY <2>1, <2>5 DEF AccountInv, QuotaInv, Control, TypeOK, StoreTypeOK
  <2> QED
    BY <2>1, <2>2, <2>4, <2>6, AccountPaid
<1>2. CASE ~(IsOpen(c) \/ ErrorListener)
  BY <1>2, AccountExit DEF HandleFatalError
<1> QED
  BY <1>1, <1>2

\* A nack concerns messages that have used no quota.
LEMMA NackAccount ==
  ASSUME AccountInv, QuotaInv', NEW c \in Consumers, NEW S \in SUBSET Messages,
         S \cap Owed(c) = {}, NEW requeue,
         Nack(c, S, requeue) \/ NackHeard(c, S, requeue)
  PROVE  Accounted'
<1>1. CASE Exit(c, {}, {})
  BY <1>1, AccountExit
<1>2. CASE Move(c, S, "none") /\ UNCHANGED <<total, history>>
  <2>1. /\ Owed(c)' = Owed(c)
        /\ \A d \in Consumers \ {c} : stage'[d] = stage[d]
    BY <1>2 DEF Move, Owed, Settling, AccountInv, QuotaInv, Control, TypeOK
  <2> QED
    BY <1>2, <2>1, AccountKept DEF history
<1> QED
  BY <1>1, <1>2 DEF Nack, NackHeard

\* A move between stages before the end of the callback.
LEMMA MoveAccount ==
  ASSUME AccountInv, QuotaInv', NEW c \in Consumers, NEW S \in SUBSET Messages,
         S \cap Owed(c) = {}, NEW s \in Stages \ (Settling \cup {"counting"}),
         Move(c, S, s), UNCHANGED <<total, history>>
  PROVE  Accounted'
<1>1. /\ Owed(c)' = Owed(c)
      /\ \A d \in Consumers \ {c} : stage'[d] = stage[d]
  BY DEF Move, Owed, AccountInv, QuotaInv, Control, TypeOK
<1> QED
  BY <1>1, AccountKept DEF history

LEMMA TickAccount ==
  ASSUME AccountInv, QuotaInv', NEW c \in Consumers, Tick(c)
  PROVE  Accounted'
<1>1. CASE TickStart(c) \/ PhaseOver(c) \/ EndTick(c) \/ ReadBalance(c)
  BY <1>1, AccountSame DEF TickStart, PhaseOver, EndTick, ReadBalance, history
<1>2. CASE GetFails(c)
  BY <1>2, AccountExit DEF GetFails
<1>3. CASE GetSingleMessage(c)
  <2>1. Owed(c) = {}
    BY <1>3 DEF GetSingleMessage, AccountInv, QuotaInv, Control, StagedInv, Owed,
                ActiveStages
  <2>2. ASSUME NEW m \in Messages, Move(c, {m}, "got")
        PROVE  Accounted'
    <3>1. "got" \in Stages \ (Settling \cup {"counting"})
      BY DEF Stages, Settling
    <3>2. UNCHANGED <<total, history>>
      BY <1>3 DEF GetSingleMessage, Answered
    <3> QED
      BY <2>1, <2>2, <3>1, <3>2, MoveAccount
  <2>3. CASE UNCHANGED stage
    BY <1>3, <2>3, AccountSame DEF GetSingleMessage, Answered, history
  <2> QED
    BY <1>3, <2>2, <2>3 DEF GetSingleMessage, Ready
<1>4. ASSUME pc[c] \in Phases
      PROVE  /\ Before[pc[c]] \in {"got", "parsed"}
             /\ After[pc[c]] \in Stages \ (Settling \cup {"counting"})
  BY <1>4 DEF Phases, Before, After, Stages, Settling
<1>5. CASE PassThrough(c)
  <2>1. /\ pc[c] \in Phases
        /\ Move(c, In(c, Before[pc[c]]), After[pc[c]])
        /\ UNCHANGED <<total, history>>
    BY <1>5 DEF PassThrough
  <2>2. /\ In(c, Before[pc[c]]) \in SUBSET Messages
        /\ In(c, Before[pc[c]]) \cap Owed(c) = {}
    BY <1>4, <2>1 DEF In, Owed, Settling
  <2> QED
    BY <1>4, <2>1, <2>2, MoveAccount
<1>6. ASSUME NEW m \in Messages, HookPasses(c, m)
      PROVE  Accounted'
  <2>1. /\ pc[c] \in Phases /\ stage[c][m] = Before[pc[c]]
        /\ Move(c, {m}, After[pc[c]])
        /\ UNCHANGED <<total, history>>
    BY <1>6, ConfigAssumption DEF HookPasses
  <2>2. {m} \cap Owed(c) = {}
    BY <1>4, <2>1 DEF Owed, Settling
  <2> QED
    BY <1>4, <2>1, <2>2, MoveAccount
<1>7. ASSUME NEW m \in Messages, ItemInvalid(c, m)
      PROVE  Accounted'
  <2>1. {m} \cap Owed(c) = {}
    BY <1>7 DEF ItemInvalid, Owed, Settling
  <2> QED
    BY <1>7, <2>1, NackAccount DEF ItemInvalid
<1>8. ASSUME NEW m \in Messages, NEW e \in Errors, HookThrows(c, m, e)
      PROVE  Accounted'
  <2>1. pc[c] \in Phases /\ stage[c][m] = Before[pc[c]]
    BY <1>8, ConfigAssumption DEF HookThrows
  <2>2. {m} \cap Owed(c) = {}
    BY <1>4, <2>1 DEF Owed, Settling
  <2> QED
    BY <1>8, <2>2, NackAccount DEF HookThrows
<1>9. CASE StartChunk(c)
  <2>1. PICK S \in Chunks(c) : Move(c, S, "running") /\ UNCHANGED <<total, history>>
    BY <1>9 DEF StartChunk
  <2>2. S \in SUBSET Messages /\ S \cap Owed(c) = {}
    BY DEF Chunks, In, Owed, Settling
  <2>3. "running" \in Stages \ (Settling \cup {"counting"})
    BY DEF Stages, Settling
  <2> QED
    BY <2>1, <2>2, <2>3, MoveAccount
<1>10. CASE SpillOver(c)
  <2>1. Callback = "none" => Owed(c) = {}
    BY DEF AccountInv, UniformInv, Owed, ActiveStages
  <2>2. stage' = [stage EXCEPT ![c] = Nothing] /\ UNCHANGED <<total, history>>
    BY <1>10 DEF SpillOver
  <2>3. Owed(c) = {}
    BY <1>10, <2>1 DEF SpillOver, Owed, Staged, Settling
  <2>4. /\ Owed(c)' = Owed(c)
        /\ \A d \in Consumers \ {c} : stage'[d] = stage[d]
    BY <2>2, <2>3 DEF Owed, Nothing, Settling, AccountInv, QuotaInv, Control, TypeOK
  <2> QED
    BY <2>2, <2>4, AccountKept DEF history
<1>11. ASSUME NEW S \in SUBSET Messages, CallbackSucceeds(c, S)
       PROVE  Accounted'
  <2>1. CASE IsOpen(c)
    BY <1>11, <2>1, AccountUsed DEF CallbackSucceeds
  <2>2. CASE ~IsOpen(c)
    BY <1>11, <2>2, AccountExit DEF CallbackSucceeds
  <2> QED
    BY <2>1, <2>2
<1>12. ASSUME NEW S \in SUBSET Messages, NEW e \in Errors, CallbackFailsCounted(c, S, e)
       PROVE  Accounted'
  <2>1. CASE PerItem \/ ErrorListener
    <3>1. (IF e.reenqueue THEN "requeueing" ELSE "discarding") \in Settling
      BY DEF Settling
    <3> QED
      BY <1>12, <2>1, <3>1, AccountUsed DEF CallbackFailsCounted
  <2>2. CASE ~(PerItem \/ ErrorListener)
    BY <1>12, <2>2, AccountExit DEF CallbackFailsCounted
  <2> QED
    BY <2>1, <2>2
<1>13. ASSUME NEW S \in SUBSET Messages, NEW e \in Errors, CallbackFails(c, S, e)
       PROVE  Accounted'
  <2>1. S \cap Owed(c) = {}
    BY <1>13, UnitsAreStaged DEF CallbackFails, Owed, Settling, Stages
  <2> QED
    BY <1>13, <2>1, NackAccount DEF CallbackFails
<1>14. ASSUME NEW S \in SUBSET Messages, NEW s \in Settling \cup {"counting"},
              S \in Units(c, s), Move(c, S, "none"), Increment(Cardinality(S)),
              UNCHANGED history
       PROVE  Accounted'
  <2>1. S \in SUBSET Owed(c)
    BY <1>14, UnitsAreStaged DEF Owed, Settling, Stages
  <2>2. /\ Owed(c)' = Owed(c) \ S
        /\ \A d \in Consumers \ {c} : stage'[d] = stage[d]
    BY <1>14 DEF Move, Owed, Settling, AccountInv, QuotaInv, Control, TypeOK
  <2>3. Cardinality(S) \in Nat /\ total \in Nat /\ lost \in Nat
    BY MessageSets DEF AccountInv, QuotaInv, Control, TypeOK, StoreTypeOK
  <2>4. total' = total + Cardinality(S) /\ lost' = lost
    BY <1>14 DEF Increment, history
  <2>5. total' + lost' = total + lost + Cardinality(S)
    BY <2>3, <2>4
  <2> QED
    BY <1>14, <2>1, <2>2, <2>5, AccountPaid DEF history
<1>15. ASSUME NEW S \in SUBSET Messages, Count(c, S)
       PROVE  Accounted'
  BY <1>14, <1>15 DEF Count
<1>16. ASSUME NEW S \in SUBSET Messages, NEW s \in Settling, CountFailure(c, S, s)
       PROVE  Accounted'
  <2>1. CASE IsOpen(c) /\ ErrorListener
    BY <1>14, <1>16, <2>1 DEF CountFailure
  <2>2. CASE ~(IsOpen(c) /\ ErrorListener)
    <3>1. S \in SUBSET Owed(c)
      BY <1>16, UnitsAreStaged DEF CountFailure, Owed, Settling, Stages
    <3> QED
      BY <1>16, <2>2, <3>1, AccountExit DEF CountFailure
  <2> QED
    BY <2>1, <2>2
<1> QED
  BY <1>1, <1>2, <1>3, <1>5, <1>6, <1>7, <1>8, <1>9, <1>10, <1>11, <1>12, <1>13, <1>15,
     <1>16 DEF Tick

LEMMA FaultAccount ==
  ASSUME AccountInv, QuotaInv', NEW c \in Consumers, Fault(c)
  PROVE  Accounted'
<1> DEFINE kept == stage[c]
<1>1. ASSUME NEW p, HandleFatalError(c, p, {}, stage[c])
      PROVE  Accounted'
  <2>1. \A m \in Messages : /\ kept[m] \in {"none", stage[c][m]}
                            /\ m \in Owed(c) => (kept[m] = "none" <=> m \in {})
    BY DEF Owed, Settling
  <2>2. HandleFatalError(c, p, {}, kept)
    BY <1>1
  <2> HIDE DEF kept
  <2> QED
    BY <2>1, <2>2, FatalAccount
<1>2. CASE BalanceFails(c)
  BY <1>1, <1>2 DEF BalanceFails
<1>3. CASE ChannelError(c)
  BY <1>1, <1>3, AccountExit DEF ChannelError
<1>4. CASE Crash(c)
  BY <1>4, AccountExit DEF Crash
<1>5. ASSUME NEW S \in SUBSET Messages, NEW s \in Settling \cup {"counting"},
             CountFails(c, S, s)
      PROVE  Accounted'
  <2> DEFINE st == [m \in Messages |-> IF m \in S THEN "none" ELSE stage[c][m]]
  <2>1. S \in SUBSET Owed(c) /\ S \in Units(c, s)
    BY <1>5, UnitsAreStaged DEF CountFails, Owed, Settling, Stages
  <2>2. CASE PerItem
    <3>1. \A m \in Messages : /\ st[m] \in {"none", stage[c][m]}
                              /\ m \in Owed(c) => (st[m] = "none" <=> m \in S)
      BY DEF Owed, Settling
    <3>2. HandleFatalError(c, pc[c], S, st)
      BY <1>5, <2>2 DEF CountFails
    <3> HIDE DEF st
    <3> QED
      BY <2>1, <3>1, <3>2, FatalAccount
  <2>3. CASE ~PerItem
    <3>1. S = In(c, s) /\ S # {}
      BY <2>1, <2>3 DEF Units
    <3>2. Owed(c) = S
      BY <2>1, <2>3, <3>1
      DEF AccountInv, UniformInv, Owed, In, ActiveStages, Settling
    <3>3. \A m \in Messages : /\ Nothing[m] \in {"none", stage[c][m]}
                              /\ m \in Owed(c) => (Nothing[m] = "none" <=> m \in S)
      BY <3>2 DEF Nothing
    <3>4. HandleFatalError(c, "idle", S, Nothing)
      BY <1>5, <2>3 DEF CountFails
    <3> QED
      BY <2>1, <3>3, <3>4, FatalAccount
  <2> QED
    BY <2>2, <2>3
<1> QED
  BY <1>2, <1>3, <1>4, <1>5 DEF Fault

\* A new window starts with an empty account.
LEMMA WindowAccount ==
  ASSUME QuotaInv', NewWindow
  PROVE  Accounted'
<1>1. Cardinality(Owing') \in Nat
  <2>1. PICK c : c \in Consumers \/ Consumers = {}
    OBVIOUS
  <2>2. CASE Consumers = {}
    BY <2>2, FS_EmptySet DEF Owing
  <2>3. CASE c \in Consumers
    <3>1. /\ Cardinality(Owing') = OwedCount'[c] + Cardinality(OthersUnder(OwedCount', c))
          /\ Cardinality(OthersUnder(OwedCount', c)) \in Nat
          /\ OwedCount'[c] \in 0 .. MaxBatch
      BY <2>3, OwedCountTypeNext, SlotsSplit
    <3> QED
      BY <3>1, MaxBatchAssumption
  <2> QED
    BY <2>1, <2>2, <2>3
<1> QED
  BY <1>1 DEF NewWindow, ResetTotal, Accounted

LEMMA CallAccount ==
  ASSUME AccountInv, QuotaInv', NEW c \in Consumers, Call(c) \/ Closing(c)
  PROVE  Accounted'
<1>1. CASE Boot(c) \/ Cork(c) \/ Uncork(c) \/ ShutdownClose(c) \/ Died(c)
  BY <1>1, AccountSame DEF Boot, Cork, Uncork, ShutdownClose, Died, history
<1>2. ASSUME NEW purge \in BOOLEAN, Shutdown(c, purge)
      PROVE  Accounted'
  BY <1>2, AccountSame DEF Shutdown, history
<1>3. CASE Purge(c)
  BY <1>3, WindowAccount DEF Purge
<1>4. CASE ShutdownPurge(c)
  BY <1>4, WindowAccount, AccountSame DEF ShutdownPurge, history
<1> QED
  BY <1>1, <1>2, <1>3, <1>4 DEF Call, Closing

LEMMA WorldAccount ==
  ASSUME AccountInv, QuotaInv',
         \/ WindowEnds
         \/ \E c \in Consumers : Returns(c)
         \/ \E m \in Messages : Published(m)
  PROVE  Accounted'
<1>1. CASE WindowEnds
  BY <1>1, WindowAccount DEF WindowEnds
<1>2. CASE UNCHANGED <<total, consumerVars, history>>
  BY <1>2, AccountSame DEF consumerVars, history
<1> QED
  BY <1>1, <1>2 DEF Returns, Published

-----------------------------------------------------------------------------
(* With onSpill the items in hand stay in one stage.                       *)

\* A step that only takes messages out of the ticks.
LEMMA UniformShrinks ==
  ASSUME UniformInv,
         \A d \in Consumers, m \in Messages : stage'[d][m] \in {"none", stage[d][m]}
  PROVE  UniformInv'
<1>1. "none" \notin ActiveStages
  BY DEF ActiveStages, Settling
<1> QED
  BY <1>1 DEF UniformInv, PerItem

LEMMA UniformMove ==
  ASSUME TypeOK, UniformInv, NEW c \in Consumers, NEW S \in SUBSET Messages,
         NEW s \in Stages \ ActiveStages, Move(c, S, s)
  PROVE  UniformInv'
<1>1. \A d \in Consumers, m \in Messages :
        stage'[d][m] = IF d = c /\ m \in S THEN s ELSE stage[d][m]
  BY MoveStage
<1> QED
  BY <1>1 DEF UniformInv, PerItem

\* The unit in hand changes its stage as a whole.
LEMMA UniformUnit ==
  ASSUME TypeOK, UniformInv, NEW c \in Consumers, NEW r \in ActiveStages,
         NEW S \in SUBSET Messages, S \in Units(c, r), NEW s \in Stages, Move(c, S, s)
  PROVE  UniformInv'
<1>1. \A d \in Consumers, m \in Messages :
        stage'[d][m] = IF d = c /\ m \in S THEN s ELSE stage[d][m]
  BY DEF TypeOK, Move
<1>2. r \in Stages
  BY DEF ActiveStages, Settling, Stages
<1>3. S # {} /\ \A m \in S : stage[c][m] = r
  BY <1>2, UnitsAreStaged
<1>4. Callback # "none"
  BY <1>3 DEF UniformInv
<1>5. ~PerItem => \A m \in Messages : stage[c][m] \in ActiveStages => m \in S
  <2> SUFFICES ASSUME ~PerItem, NEW m \in Messages, stage[c][m] \in ActiveStages
               PROVE  m \in S
    OBVIOUS
  <2>1. S = In(c, r)
    BY DEF Units
  <2>2. stage[c][m] = r
    BY <1>3 DEF UniformInv
  <2> QED
    BY <2>1, <2>2 DEF In
<1> SUFFICES ASSUME NEW d \in Consumers, NEW m \in Messages, NEW n \in Messages,
                    stage'[d][m] \in ActiveStages, stage'[d][n] \in ActiveStages
             PROVE  PerItem \/ stage'[d][m] = stage'[d][n]
  BY <1>4 DEF UniformInv, PerItem
<1>6. CASE d = c
  <2>1. CASE PerItem
    BY <2>1
  <2>2. CASE ~PerItem
    <3>1. m \in S /\ n \in S
      BY <1>1, <1>5, <1>6, <2>2
    <3> QED
      BY <1>1, <1>6, <3>1
  <2> QED
    BY <2>1, <2>2
<1>7. CASE d # c
  BY <1>1, <1>7 DEF UniformInv
<1> QED
  BY <1>6, <1>7

LEMMA UniformExit ==
  ASSUME TypeOK, UniformInv, NEW c \in Consumers, NEW R, NEW S, Exit(c, R, S)
  PROVE  UniformInv'
<1>1. \A d \in Consumers, m \in Messages : stage'[d][m] \in {"none", stage[d][m]}
  BY DEF Exit, Nothing, TypeOK
<1> QED
  BY <1>1, UniformShrinks

LEMMA UniformFatal ==
  ASSUME TypeOK, UniformInv, NEW c \in Consumers, NEW p, NEW W, NEW st,
         \A m \in Messages : st[m] \in {"none", stage[c][m]},
         HandleFatalError(c, p, W, st)
  PROVE  UniformInv'
<1>1. CASE IsOpen(c) \/ ErrorListener
  <2>1. \A d \in Consumers, m \in Messages : stage'[d][m] \in {"none", stage[d][m]}
    BY <1>1 DEF HandleFatalError, TypeOK
  <2> QED
    BY <2>1, UniformShrinks
<1>2. CASE ~(IsOpen(c) \/ ErrorListener)
  BY <1>2, UniformExit DEF HandleFatalError
<1> QED
  BY <1>1, <1>2

LEMMA UniformNack ==
  ASSUME TypeOK, UniformInv, NEW c \in Consumers, NEW S \in SUBSET Messages, NEW requeue,
         Nack(c, S, requeue) \/ NackHeard(c, S, requeue)
  PROVE  UniformInv'
<1>1. "none" \in Stages \ ActiveStages
  BY DEF Stages, ActiveStages, Settling
<1> QED
  BY <1>1, UniformMove, UniformExit DEF Nack, NackHeard

LEMMA UniformTick ==
  ASSUME Control, UniformInv, NEW c \in Consumers, Tick(c)
  PROVE  UniformInv'
<1>1. TypeOK
  BY DEF Control
<1>2. {"got", "parsed", "valid", "none"} \subseteq Stages \ ActiveStages
  BY DEF Stages, ActiveStages, Settling
<1>3. pc[c] \in Phases => After[pc[c]] \in Stages \ ActiveStages
  BY <1>2 DEF Phases, After
<1>4. CASE TickStart(c) \/ PhaseOver(c) \/ EndTick(c) \/ ReadBalance(c)
  <2>1. stage' = stage
    BY <1>4 DEF TickStart, PhaseOver, EndTick, ReadBalance
  <2> QED
    BY <2>1, UniformShrinks
<1>5. CASE GetFails(c)
  BY <1>1, <1>5, UniformExit DEF GetFails
<1>6. CASE GetSingleMessage(c)
  BY <1>1, <1>2, <1>6, UniformMove, UniformShrinks DEF GetSingleMessage, Ready
<1>7. CASE PassThrough(c)
  BY <1>1, <1>3, <1>7, UniformMove DEF PassThrough, In
<1>8. ASSUME NEW m \in Messages, HookPasses(c, m)
      PROVE  UniformInv'
  BY <1>1, <1>3, <1>8, ConfigAssumption, UniformMove DEF HookPasses
<1>9. ASSUME NEW m \in Messages, ItemInvalid(c, m)
      PROVE  UniformInv'
  BY <1>1, <1>9, UniformNack DEF ItemInvalid
<1>10. ASSUME NEW m \in Messages, NEW e \in Errors, HookThrows(c, m, e)
       PROVE  UniformInv'
  BY <1>1, <1>10, UniformNack DEF HookThrows
<1>11. CASE StartChunk(c)
  <2>1. PICK S \in Chunks(c) : Move(c, S, "running")
    BY <1>11 DEF StartChunk
  <2>2. \A m \in Messages : stage[c][m] \notin ActiveStages
    BY <1>2, <1>11 DEF StartChunk, Active, Staged, In
  <2>3. S \in SUBSET Messages /\ "running" \in Stages
    BY DEF Chunks, In, Stages
  <2>4. \A d \in Consumers, m \in Messages :
          stage'[d][m] = IF d = c /\ m \in S THEN "running" ELSE stage[d][m]
    BY <1>1, <2>1, <2>3, MoveStage
  <2>5. Callback # "none"
    BY <1>11 DEF StartChunk
  <2> QED
    BY <2>2, <2>4, <2>5 DEF UniformInv, PerItem
<1>12. CASE SpillOver(c)
  <2>1. \A d \in Consumers, m \in Messages : stage'[d][m] \in {"none", stage[d][m]}
    BY <1>1, <1>12 DEF SpillOver, Nothing, TypeOK
  <2> QED
    BY <2>1, UniformShrinks
<1>13. {"running", "counting", "requeueing", "discarding"} \subseteq Stages \cap ActiveStages
  BY DEF Stages, ActiveStages, Settling
<1>14. ASSUME NEW S \in SUBSET Messages,
              \/ CallbackSucceeds(c, S)
              \/ Count(c, S)
              \/ \E e \in Errors : CallbackFailsCounted(c, S, e)
       PROVE  UniformInv'
  BY <1>1, <1>2, <1>13, <1>14, UniformUnit, UniformExit
  DEF CallbackSucceeds, Count, CallbackFailsCounted
<1>15. ASSUME NEW S \in SUBSET Messages, NEW e \in Errors, CallbackFails(c, S, e)
       PROVE  UniformInv'
  BY <1>1, <1>15, UniformNack DEF CallbackFails
<1>16. ASSUME NEW S \in SUBSET Messages, NEW s \in Settling, CountFailure(c, S, s)
       PROVE  UniformInv'
  BY <1>1, <1>2, <1>16, UniformMove, UniformExit DEF CountFailure
<1> QED
  BY <1>4, <1>5, <1>6, <1>7, <1>8, <1>9, <1>10, <1>11, <1>12, <1>14, <1>15, <1>16 DEF Tick

LEMMA UniformFault ==
  ASSUME Control, UniformInv, NEW c \in Consumers, Fault(c)
  PROVE  UniformInv'
<1>1. TypeOK
  BY DEF Control
<1>2. CASE BalanceFails(c)
  BY <1>1, <1>2, UniformFatal DEF BalanceFails
<1>3. CASE ChannelError(c)
  BY <1>1, <1>3, UniformFatal, UniformExit DEF ChannelError
<1>4. CASE Crash(c)
  BY <1>1, <1>4, UniformExit DEF Crash
<1>5. ASSUME NEW S \in SUBSET Messages, NEW s \in Settling \cup {"counting"},
             CountFails(c, S, s)
      PROVE  UniformInv'
  <2> DEFINE st == [m \in Messages |-> IF m \in S THEN "none" ELSE stage[c][m]]
  <2>1. /\ \A m \in Messages : st[m] \in {"none", stage[c][m]}
        /\ \A m \in Messages : Nothing[m] \in {"none", stage[c][m]}
    BY DEF Nothing
  <2>2. HandleFatalError(c, pc[c], S, st) \/ HandleFatalError(c, "idle", S, Nothing)
    BY <1>5 DEF CountFails
  <2> HIDE DEF st
  <2> QED
    BY <1>1, <2>1, <2>2, UniformFatal
<1> QED
  BY <1>2, <1>3, <1>4, <1>5 DEF Fault

LEMMA UniformNext ==
  ASSUME Control, UniformInv, Next
  PROVE  UniformInv'
<1>1. ASSUME NEW c \in Consumers, Call(c) \/ Closing(c) \/ Returns(c)
      PROVE  UNCHANGED stage
  BY <1>1 DEF Call, Closing, Returns, Boot, Cork, Uncork, Purge, Shutdown,
              ShutdownPurge, ShutdownClose, Died, consumerVars
<1>2. ASSUME WindowEnds \/ \E m \in Messages : Published(m)
      PROVE  UNCHANGED stage
  BY <1>2 DEF WindowEnds, Published, consumerVars
<1>3. CASE UNCHANGED stage
  BY <1>3, UniformShrinks
<1> QED
  BY <1>1, <1>2, <1>3, UniformTick, UniformFault DEF Next

-----------------------------------------------------------------------------

LEMMA InitAccount == Init => AccountInv
<1> SUFFICES ASSUME Init
             PROVE  AccountInv
  OBVIOUS
<1>1. QuotaInv
  BY InitQuota
<1>2. \A c \in Consumers, m \in Messages : stage[c][m] = "none"
  BY DEF Init, Nothing
<1>3. UniformInv
  BY <1>2 DEF UniformInv, ActiveStages, Settling
<1>4. \A c \in Consumers : Owed(c) = {}
  BY <1>2 DEF Owed, Settling
<1>5. Owing = {}
  BY <1>4, FS_EmptySet, MaxBatchAssumption DEF Owing
<1>6. Accounted
  BY <1>5, FS_EmptySet DEF Accounted, Init, StoreInit
<1> QED
  BY <1>1, <1>3, <1>6 DEF AccountInv

LEMMA NextAccount == AccountInv /\ [Next]_vars => AccountInv'
<1> SUFFICES ASSUME AccountInv, [Next]_vars
             PROVE  AccountInv'
  OBVIOUS
<1>1. QuotaInv /\ Control /\ UniformInv /\ Accounted
  BY DEF AccountInv, QuotaInv
<1>2. QuotaInv'
  BY <1>1, NextQuota
<1>3. CASE UNCHANGED vars
  BY <1>1, <1>2, <1>3, UniformShrinks, AccountSame
  DEF vars, consumerVars, history, AccountInv
<1>4. CASE Next
  <2>1. UniformInv'
    BY <1>1, <1>4, UniformNext
  <2>2. Accounted'
    BY <1>2, <1>4, TickAccount, FaultAccount, CallAccount, WorldAccount DEF Next
  <2> QED
    BY <1>2, <2>1, <2>2 DEF AccountInv
<1> QED
  BY <1>3, <1>4

\* Every item that used quota since the window began is counted, is about to
\* be counted by the tick that handled it, or was lost with a process or a
\* coordinator: no interleaving of ticks and faults uses quota unrecorded.
THEOREM QuotaIsAccounted == Spec => []Accounted
<1>1. AccountInv => Accounted
  BY DEF AccountInv
<1> QED
  BY <1>1, InitAccount, NextAccount, PTL DEF Spec

\* What the account and the bound on the claims say together.
LEMMA AccountBoundsRate == AccountInv => RateBound
<1> SUFFICES ASSUME AccountInv
             PROVE  RateBound
  OBVIOUS
<1>1. QuotaInv /\ Accounted
  BY DEF AccountInv
<1>2. Owing \in SUBSET Slots
  <2> SUFFICES ASSUME NEW c \in Consumers
               PROVE  Cardinality(Owed(c)) <= Claim(c) /\ Claim(c) \in Nat
    BY <1>1, OwedType, MaxBatchAssumption DEF Owing, Slots
  <2>1. IsFiniteSet(Staged(c)) /\ Owed(c) \in SUBSET Staged(c)
    BY <1>1, OwedType, ClaimsType DEF QuotaInv
  <2>2. /\ Cardinality(Owed(c)) <= Cardinality(Staged(c))
        /\ Cardinality(Owed(c)) \in Nat /\ Cardinality(Staged(c)) \in Nat
    BY <2>1, FS_Subset, FS_CardinalityType
  <2>3. asked[c] \in Nat
    BY <1>1, MaxBatchAssumption DEF QuotaInv, Control, TypeOK
  <2> QED
    BY <2>2, <2>3 DEF Claim
<1>3. IsFiniteSet(Slots)
  <2>1. IsFiniteSet(1 .. MaxBatch) /\ IsFiniteSet(Consumers)
    BY ConsumersAssumption, MaxBatchAssumption, FS_Interval
  <2>2. IsFiniteSet(Consumers \X (1 .. MaxBatch))
    BY <2>1, FS_Product
  <2> QED
    BY <2>2, FS_Subset DEF Slots
<1>4. /\ Cardinality(Owing) <= Cardinality(Slots)
      /\ Cardinality(Owing) \in Nat /\ Cardinality(Slots) \in Nat
  BY <1>2, <1>3, FS_Subset, FS_CardinalityType
<1>5. /\ total \in Nat /\ lost \in Nat /\ delivered \in Nat
      /\ MaxBatch * Cardinality(Consumers) \in Nat
  BY <1>1, MaxBatchAssumption, ConsumersAssumption, FS_CardinalityType
  DEF QuotaInv, Control, TypeOK, StoreTypeOK
<1>6. /\ delivered <= total + Cardinality(Owing) + lost
      /\ total + Cardinality(Slots) <= MaxBatch * Cardinality(Consumers)
  BY <1>1 DEF QuotaInv, QuotaBound, Accounted
<1> QED
  BY <1>4, <1>5, <1>6 DEF RateBound

\* The rate the consumers keep together: in a window, one quota for each of
\* them and the items whose count was lost.
THEOREM RateIsBounded == Spec => []RateBound
BY InitAccount, NextAccount, AccountBoundsRate, PTL DEF Spec

-----------------------------------------------------------------------------
(* What the end of a channel may cost.                                     *)

\* A consumer with an open channel has been started and runs.
OpenInv == \A c \in Consumers : IsOpen(c) => Alive(c) /\ boots[c] \in 1 .. MaxBoots

\* The messages in ticks whose channel is closed: what may still be lost.
Doomed ==
  {s \in Consumers \X Messages : ~IsOpen(s[1]) /\ stage[s[1]][s[2]] # "none"}

LossBudget == lost + Cardinality(Doomed) <= MaxBatch * Cardinality(Ended)
LossInv == QuotaInv /\ OpenInv /\ LossBudget

LEMMA LossSets ==
  /\ IsFiniteSet(Doomed) /\ Cardinality(Doomed) \in Nat
  /\ IsFiniteSet(Ended) /\ Cardinality(Ended) \in Nat
  /\ IsFiniteSet(Doomed') /\ Cardinality(Doomed') \in Nat
  /\ IsFiniteSet(Ended') /\ Cardinality(Ended') \in Nat
<1>1. IsFiniteSet(Consumers \X Messages) /\ IsFiniteSet(Consumers \X (1 .. MaxBoots))
  <2>1. IsFiniteSet(1 .. MaxBoots)
    BY ConfigAssumption, FS_Interval
  <2> QED
    BY <2>1, ConsumersAssumption, MessagesAssumption, FS_Product
<1>2. /\ Doomed \in SUBSET (Consumers \X Messages)
      /\ Doomed' \in SUBSET (Consumers \X Messages)
      /\ Ended \in SUBSET (Consumers \X (1 .. MaxBoots))
      /\ Ended' \in SUBSET (Consumers \X (1 .. MaxBoots))
  BY DEF Doomed, Ended
<1> QED
  BY <1>1, <1>2, FS_Subset, FS_CardinalityType

\* A step that loses nothing, closes no channel, and adds to the ticks of
\* open channels only.
LEMMA LossKept ==
  ASSUME LossInv, Control', lost' <= lost, UNCHANGED <<channel, boots>>,
         \A d \in Consumers, m \in Messages :
           ~IsOpen(d) /\ stage'[d][m] # "none" => stage[d][m] # "none"
  PROVE  LossBudget'
<1>1. Ended' = Ended
  BY DEF Ended, IsOpen
<1>2. Doomed' \in SUBSET Doomed
  BY DEF Doomed, IsOpen
<1>3. Cardinality(Doomed') <= Cardinality(Doomed)
  BY <1>2, LossSets, FS_Subset
<1>4. lost \in Nat /\ lost' \in Nat
  BY DEF LossInv, QuotaInv, Control, TypeOK
<1> QED
  BY <1>1, <1>3, <1>4, LossSets, MaxBatchAssumption DEF LossInv, LossBudget

\* Sets without a common element.
LEMMA DisjointUnion ==
  ASSUME NEW S, NEW T, IsFiniteSet(S), IsFiniteSet(T), S \cap T = {}
  PROVE  /\ IsFiniteSet(S \cup T)
         /\ Cardinality(S \cup T) = Cardinality(S) + Cardinality(T)
<1>1. /\ IsFiniteSet(S \cup T)
      /\ Cardinality(S \cup T) = Cardinality(S) + Cardinality(T) - Cardinality({})
  BY FS_Union
<1>2. Cardinality({}) = 0 /\ Cardinality(S) \in Nat /\ Cardinality(T) \in Nat
  BY FS_EmptySet, FS_CardinalityType
<1> QED
  BY <1>1, <1>2

\* The messages of W in a consumer's tick, as doomed ones.
LEMMA DoomedOf ==
  ASSUME NEW c \in Consumers, NEW W \in SUBSET Messages
  PROVE  IsFiniteSet({c} \X W) /\ Cardinality({c} \X W) = Cardinality(W)
<1>1. IsFiniteSet({c}) /\ Cardinality({c}) = 1 /\ IsFiniteSet(W) /\ Cardinality(W) \in Nat
  BY FS_Singleton, MessageSets
<1> DEFINE S == {c}
<1>2. IsFiniteSet(S \X W) /\ Cardinality(S \X W) = Cardinality(S) * Cardinality(W)
  <2> HIDE DEF S
  <2> QED
    BY <1>1, FS_Product DEF S
<1> QED
  BY <1>1, <1>2

\* The channel of c is closed after the step.  If it was open, one more start
\* is over, and its tick held a quota at most; if it was closed already, what
\* is lost was doomed.
LEMMA LossStops ==
  ASSUME LossInv, Control', NEW c \in Consumers,
         channel' = [channel EXCEPT ![c] = "closed"], boots' = boots,
         NEW W \in SUBSET Staged(c), Staged(c)' \subseteq Staged(c) \ W,
         \A d \in Consumers \ {c} : stage'[d] = stage[d],
         lost' = lost + Cardinality(W)
  PROVE  LossBudget'
<1> DEFINE Own == {c} \X Staged(c)
           Over == {c} \X W
<1>1. /\ IsFiniteSet(Own) /\ Cardinality(Own) = Cardinality(Staged(c))
      /\ IsFiniteSet(Over) /\ Cardinality(Over) = Cardinality(W)
      /\ Cardinality(Staged(c)) \in Nat /\ Cardinality(W) \in Nat
  BY DoomedOf, MessageSets DEF Staged
<1>2. /\ ~IsOpen(c)'
      /\ \A d \in Consumers \ {c} : IsOpen(d)' = IsOpen(d)
  BY DEF LossInv, QuotaInv, Control, TypeOK, BrokerTypeOK, IsOpen
<1>3. \A x : x \in Doomed' => (x \in Own \/ x \in Doomed) /\ x \notin Over
  BY <1>2 DEF Doomed, Staged
<1>4. lost \in Nat /\ lost' \in Nat /\ boots[c] \in Nat /\ boots \in [Consumers -> 0 .. MaxBoots]
  BY ConfigAssumption DEF LossInv, QuotaInv, Control, TypeOK
<1>5. Cardinality(Staged(c)) <= MaxBatch
  <2>1. asked[c] \in Nat
    BY MaxBatchAssumption DEF LossInv, QuotaInv, Control, TypeOK
  <2> QED
    BY <1>1, <2>1, MaxBatchAssumption DEF LossInv, QuotaInv, ClaimInv, Claim
<1>6. lost + Cardinality(Doomed) <= MaxBatch * Cardinality(Ended)
  BY DEF LossInv, LossBudget
<1>7. CASE IsOpen(c)
  <2> DEFINE start == <<c, boots[c]>>
  <2>1. boots[c] \in 1 .. MaxBoots
    BY <1>7 DEF LossInv, OpenInv
  <2>2. start \notin Ended
    BY <1>7, <1>4 DEF Ended
  <2>3. Ended' = Ended \cup {start}
    <3>1. \A s \in Consumers \X (1 .. MaxBoots) :
            s \in Ended' <=> s \in Ended \/ s = start
      <4> SUFFICES ASSUME NEW d \in Consumers, NEW k \in 1 .. MaxBoots
                   PROVE  <<d, k>> \in Ended' <=> <<d, k>> \in Ended \/ <<d, k>> = start
        OBVIOUS
      <4>1. CASE d = c
        BY <1>2, <1>4, <1>7, <2>1, <4>1, ConfigAssumption DEF Ended
      <4>2. CASE d # c
        BY <1>2, <4>2 DEF Ended
      <4> QED
        BY <4>1, <4>2
    <3>2. start \in Consumers \X (1 .. MaxBoots)
      BY <2>1
    <3>3. Ended \subseteq Consumers \X (1 .. MaxBoots) /\ Ended' \subseteq Consumers \X (1 .. MaxBoots)
      BY DEF Ended
    <3> HIDE DEF start
    <3> QED
      BY <3>1, <3>2, <3>3
  <2>4. Cardinality(Ended') = Cardinality(Ended) + 1
    <3> HIDE DEF start
    <3> QED
      BY <2>2, <2>3, LossSets, FS_AddElement
  <2>5. Doomed \cap Own = {}
    BY <1>7 DEF Doomed
  <2>6. Doomed' \cap Over = {} /\ Over \subseteq Own /\ Doomed' \cup Over \subseteq Doomed \cup Own
    BY <1>3
  <2> HIDE DEF Own, Over
  <2>7. /\ IsFiniteSet(Doomed \cup Own)
        /\ Cardinality(Doomed \cup Own) = Cardinality(Doomed) + Cardinality(Staged(c))
    <3>1. IsFiniteSet(Doomed) /\ IsFiniteSet(Own) /\ Doomed \cap Own = {}
      BY <1>1, <2>5, LossSets
    <3>2. /\ IsFiniteSet(Doomed \cup Own)
          /\ Cardinality(Doomed \cup Own) = Cardinality(Doomed) + Cardinality(Own)
      BY ONLY <3>1, DisjointUnion
    <3> QED
      BY ONLY <1>1, <3>2
  <2>8. Cardinality(Doomed' \cup Over) = Cardinality(Doomed') + Cardinality(W)
    <3>1. IsFiniteSet(Doomed') /\ IsFiniteSet(Over) /\ Doomed' \cap Over = {}
      BY <1>1, <2>6, LossSets
    <3>2. Cardinality(Doomed' \cup Over) = Cardinality(Doomed') + Cardinality(Over)
      BY ONLY <3>1, DisjointUnion
    <3> QED
      BY ONLY <1>1, <3>2
  <2>9. Cardinality(Doomed' \cup Over) <= Cardinality(Doomed \cup Own)
    BY <2>6, <2>7, FS_Subset
  <2>10. MaxBatch * Cardinality(Ended') = MaxBatch * Cardinality(Ended) + MaxBatch
    BY <2>4, LossSets, MaxBatchAssumption
  <2>11. MaxBatch * Cardinality(Ended) \in Nat
    BY LossSets, MaxBatchAssumption
  <2>12. lost' + Cardinality(Doomed') <= MaxBatch * Cardinality(Ended')
    <3>1. Cardinality(Doomed') + Cardinality(W) <= Cardinality(Doomed) + MaxBatch
      BY <1>1, <1>5, <2>7, <2>8, <2>9, LossSets, MaxBatchAssumption
    <3>2. lost' = lost + Cardinality(W)
      OBVIOUS
    <3> QED
      BY ONLY <1>1, <1>4, <1>6, <2>10, <2>11, <3>1, <3>2, LossSets, MaxBatchAssumption
  <2> QED
    BY <2>12 DEF LossBudget
<1>8. CASE ~IsOpen(c)
  <2>1. Ended' = Ended
    BY <1>2, <1>8 DEF Ended
  <2>2. Own \subseteq Doomed
    BY <1>8 DEF Doomed, Staged
  <2>3. Doomed' \cap Over = {} /\ Doomed' \cup Over \subseteq Doomed
    BY <1>3, <2>2
  <2> HIDE DEF Own, Over
  <2>4. Cardinality(Doomed' \cup Over) = Cardinality(Doomed') + Cardinality(W)
    <3>1. IsFiniteSet(Doomed') /\ IsFiniteSet(Over) /\ Doomed' \cap Over = {}
      BY <1>1, <2>3, LossSets
    <3>2. Cardinality(Doomed' \cup Over) = Cardinality(Doomed') + Cardinality(Over)
      BY ONLY <3>1, DisjointUnion
    <3> QED
      BY ONLY <1>1, <3>2
  <2>5. Cardinality(Doomed' \cup Over) <= Cardinality(Doomed)
    BY <2>3, LossSets, FS_Subset
  <2>6. MaxBatch * Cardinality(Ended) \in Nat
    BY LossSets, MaxBatchAssumption
  <2>7. lost' + Cardinality(Doomed') <= MaxBatch * Cardinality(Ended')
    BY <1>1, <1>4, <1>6, <2>1, <2>4, <2>5, <2>6, LossSets
  <2> QED
    BY <2>7 DEF LossBudget
<1> QED
  BY <1>7, <1>8

\* What the steps leave of the relation of channels, processes and starts.
LEMMA OpenKept ==
  ASSUME OpenInv, boots' = boots,
         \A d \in Consumers : IsOpen(d)' => /\ IsOpen(d)
                                            /\ Alive(d) => Alive(d)'
  PROVE  OpenInv'
BY DEF OpenInv

\* The end of a process.
LEMMA ExitLoss ==
  ASSUME LossInv, Control', NEW c \in Consumers, NEW R \in SUBSET Staged(c),
         NEW S, Exit(c, R, S)
  PROVE  OpenInv' /\ LossBudget'
<1> DEFINE W == R \cup (Owed(c) \ S)
<1>1. W \in SUBSET Staged(c)
  BY DEF Owed, Staged, Settling
<1>2. /\ channel' = [channel EXCEPT ![c] = "closed"] /\ boots' = boots
      /\ pc' = [pc EXCEPT ![c] = "dead"]
      /\ stage' = [stage EXCEPT ![c] = Nothing]
      /\ lost' = lost + Cardinality(W)
  BY DEF Exit, CloseChannel
<1>3. /\ Staged(c)' = {}
      /\ \A d \in Consumers \ {c} : stage'[d] = stage[d]
  BY <1>2 DEF Staged, Nothing, LossInv, QuotaInv, Control, TypeOK
<1>4. OpenInv'
  <2>1. \A d \in Consumers : IsOpen(d)' => IsOpen(d) /\ (Alive(d) => Alive(d)')
    BY <1>2 DEF IsOpen, Alive, LossInv, QuotaInv, Control, TypeOK, BrokerTypeOK
  <2> QED
    BY <1>2, <2>1, OpenKept DEF LossInv
<1>5. LossBudget'
  <2> HIDE DEF W
  <2> QED
    BY <1>1, <1>2, <1>3, LossStops
<1> QED
  BY <1>4, <1>5

\* A fatal error, with the messages of W given up.
LEMMA FatalLoss ==
  ASSUME LossInv, Control', NEW c \in Consumers, NEW p,
         NEW W \in SUBSET Staged(c), NEW st,
         \A m \in Messages : /\ st[m] \in {"none", stage[c][m]}
                             /\ m \in W => st[m] = "none",
         HandleFatalError(c, p, W, st)
  PROVE  OpenInv' /\ LossBudget'
<1>1. CASE IsOpen(c) \/ ErrorListener
  <2>1. /\ channel' = [channel EXCEPT ![c] = "closed"] /\ boots' = boots
        /\ pc' = [pc EXCEPT ![c] = p]
        /\ stage' = [stage EXCEPT ![c] = st]
        /\ lost' = lost + Cardinality(W)
    BY <1>1 DEF HandleFatalError, CloseChannel
  <2>2. /\ Staged(c)' \subseteq Staged(c) \ W
        /\ \A d \in Consumers \ {c} : stage'[d] = stage[d]
    BY <2>1 DEF Staged, LossInv, QuotaInv, Control, TypeOK
  <2>3. OpenInv'
    <3>1. \A d \in Consumers : IsOpen(d)' => IsOpen(d) /\ (Alive(d) => Alive(d)')
      BY <2>1 DEF IsOpen, Alive, LossInv, QuotaInv, Control, TypeOK, BrokerTypeOK
    <3> QED
      BY <2>1, <3>1, OpenKept DEF LossInv
  <2> QED
    BY <2>1, <2>2, <2>3, LossStops
<1>2. CASE ~(IsOpen(c) \/ ErrorListener)
  <2>1. Exit(c, {}, {})
    BY <1>2 DEF HandleFatalError
  <2> QED
    BY <2>1, ExitLoss
<1> QED
  BY <1>1, <1>2

\* A step of a process that goes on, and takes nothing new when its channel
\* is closed.
LEMMA GoesOnLoss ==
  ASSUME LossInv, Control', NEW c \in Consumers, lost' <= lost,
         UNCHANGED <<channel, boots>>,
         \A d \in Consumers : Alive(d) => Alive(d)',
         \A d \in Consumers \ {c} : stage'[d] = stage[d],
         IsOpen(c) \/ \A m \in Messages : stage'[c][m] # "none" => stage[c][m] # "none"
  PROVE  OpenInv' /\ LossBudget'
<1>1. OpenInv'
  <2>1. \A d \in Consumers : IsOpen(d)' => IsOpen(d)
    BY DEF IsOpen
  <2> QED
    BY <2>1, OpenKept DEF LossInv
<1>2. \A d \in Consumers, m \in Messages :
        ~IsOpen(d) /\ stage'[d][m] # "none" => stage[d][m] # "none"
  OBVIOUS
<1> QED
  BY <1>1, <1>2, LossKept

\* A Move of messages that are in the tick.
LEMMA MoveLoss ==
  ASSUME LossInv, Control', NEW c \in Consumers, NEW S \in SUBSET Staged(c), NEW s,
         Move(c, S, s), UNCHANGED <<channel, boots, lost>>,
         \A d \in Consumers : Alive(d) => Alive(d)'
  PROVE  OpenInv' /\ LossBudget'
<1>1. /\ \A d \in Consumers \ {c} : stage'[d] = stage[d]
      /\ \A m \in Messages : stage'[c][m] # "none" => stage[c][m] # "none"
  BY DEF Move, Staged, LossInv, QuotaInv, Control, TypeOK
<1>2. lost' <= lost
  BY DEF LossInv, QuotaInv, Control, TypeOK
<1> QED
  BY <1>1, <1>2, GoesOnLoss

LEMMA NackLoss ==
  ASSUME LossInv, Control', NEW c \in Consumers, NEW S \in SUBSET Staged(c),
         NEW requeue, Nack(c, S, requeue) \/ NackHeard(c, S, requeue)
  PROVE  OpenInv' /\ LossBudget'
<1>1. CASE Exit(c, {}, {})
  BY <1>1, ExitLoss
<1>2. CASE Move(c, S, "none") /\ UNCHANGED <<channel, boots, lost, pc>>
  <2>1. \A d \in Consumers : Alive(d) => Alive(d)'
    BY <1>2 DEF Alive
  <2> QED
    BY <1>2, <2>1, MoveLoss
<1> QED
  BY <1>1, <1>2 DEF Nack, NackHeard, history

\* A step that leaves the ticks alone.
LEMMA StillLoss ==
  ASSUME LossInv, Control', lost' <= lost, UNCHANGED <<channel, boots, stage>>,
         \A d \in Consumers : Alive(d) => Alive(d)'
  PROVE  OpenInv' /\ LossBudget'
<1>1. OpenInv'
  <2>1. \A d \in Consumers : IsOpen(d)' => IsOpen(d)
    BY DEF IsOpen
  <2> QED
    BY <2>1, OpenKept DEF LossInv
<1> QED
  BY <1>1, LossKept

\* A process whose loop goes on at another place.
LEMMA StaysAlive ==
  ASSUME TypeOK, NEW c \in Consumers, NEW p, p \notin {"off", "dead"},
         pc' = [pc EXCEPT ![c] = p]
  PROVE  \A d \in Consumers : Alive(d) => Alive(d)'
BY DEF TypeOK, Alive

LEMMA TickLoss ==
  ASSUME LossInv, Control', NEW c \in Consumers, Tick(c)
  PROVE  OpenInv' /\ LossBudget'
<1>1. TypeOK /\ lost \in Nat
  BY DEF LossInv, QuotaInv, Control, TypeOK
<1>2. CASE TickStart(c) \/ PhaseOver(c) \/ EndTick(c) \/ ReadBalance(c)
  <2>1. /\ UNCHANGED <<channel, boots, stage, lost>>
        /\ \E p : p \notin {"off", "dead"} /\ pc' = [pc EXCEPT ![c] = p]
    <3>1. CASE TickStart(c)
      BY <3>1 DEF TickStart, brokerVars, history
    <3>2. CASE PhaseOver(c)
      <4>1. pc[c] \in Phases
        BY <3>2, ConfigAssumption DEF PhaseOver
      <4>2. Following[pc[c]] \notin {"off", "dead"}
        BY <4>1 DEF Phases, Following
      <4> QED
        BY <3>2, <4>2 DEF PhaseOver, brokerVars, history
    <3>3. CASE EndTick(c)
      BY <3>3 DEF EndTick, AfterTick, brokerVars, history
    <3>4. CASE ReadBalance(c)
      BY <3>4 DEF ReadBalance, brokerVars, history
    <3> QED
      BY <1>2, <3>1, <3>2, <3>3, <3>4
  <2>2. \A d \in Consumers : Alive(d) => Alive(d)'
    BY <1>1, <2>1, StaysAlive
  <2>3. lost' <= lost
    BY <1>1, <2>1
  <2> QED
    BY <2>1, <2>2, <2>3, StillLoss
<1>3. CASE GetFails(c)
  BY <1>3, ExitLoss DEF GetFails
<1>4. CASE GetSingleMessage(c)
  <2>1. /\ IsOpen(c) /\ UNCHANGED <<channel, boots, lost>>
        /\ \E p : p \notin {"off", "dead"} /\ pc' = [pc EXCEPT ![c] = p]
    <3>1. pc[c] = "getting"
      BY <1>4 DEF GetSingleMessage
    <3> QED
      BY <1>4, <3>1 DEF GetSingleMessage, Answered, history
  <2>2. \A d \in Consumers \ {c} : stage'[d] = stage[d]
    BY <1>1, <1>4 DEF GetSingleMessage, Move, TypeOK
  <2>3. \A d \in Consumers : Alive(d) => Alive(d)'
    BY <1>1, <2>1, StaysAlive
  <2> QED
    BY <1>1, <2>1, <2>2, <2>3, GoesOnLoss
<1>5. CASE PassThrough(c)
  <2>1. pc[c] \in Phases
    BY <1>5 DEF PassThrough
  <2>2. /\ Following[pc[c]] \notin {"off", "dead"}
        /\ Before[pc[c]] # "none"
    BY <2>1 DEF Phases, Following, Before
  <2>3. /\ In(c, Before[pc[c]]) \in SUBSET Staged(c)
        /\ \A d \in Consumers : Alive(d) => Alive(d)'
    BY <1>1, <1>5, <2>2, StaysAlive DEF PassThrough, In, Staged
  <2> QED
    BY <1>5, <2>3, MoveLoss DEF PassThrough, brokerVars, history
<1>6. ASSUME NEW m \in Messages, HookPasses(c, m)
      PROVE  OpenInv' /\ LossBudget'
  <2>1. pc[c] \in Phases
    BY <1>6, ConfigAssumption DEF HookPasses
  <2>2. Before[pc[c]] # "none"
    BY <2>1 DEF Phases, Before
  <2>3. {m} \in SUBSET Staged(c) /\ \A d \in Consumers : Alive(d) => Alive(d)'
    BY <1>6, <2>2 DEF HookPasses, Staged, Alive
  <2> QED
    BY <1>6, <2>3, MoveLoss DEF HookPasses, brokerVars, history
<1>7. ASSUME NEW m \in Messages, NEW e \in Errors, HookThrows(c, m, e)
      PROVE  OpenInv' /\ LossBudget'
  <2>1. pc[c] \in Phases => Before[pc[c]] # "none"
    BY DEF Phases, Before
  <2>2. {m} \in SUBSET Staged(c)
    BY <1>7, <2>1, ConfigAssumption DEF HookThrows, Staged
  <2> QED
    BY <1>7, <2>2, NackLoss DEF HookThrows
<1>8. ASSUME NEW m \in Messages, ItemInvalid(c, m)
      PROVE  OpenInv' /\ LossBudget'
  <2>1. {m} \in SUBSET Staged(c)
    BY <1>8 DEF ItemInvalid, Staged
  <2> QED
    BY <1>8, <2>1, NackLoss DEF ItemInvalid
<1>9. CASE StartChunk(c)
  <2>1. PICK S \in Chunks(c) : Move(c, S, "running")
    BY <1>9 DEF StartChunk
  <2>2. S \in SUBSET Staged(c)
    BY DEF Chunks, In, Staged
  <2>3. UNCHANGED <<channel, boots, lost, pc>>
    BY <1>9 DEF StartChunk, brokerVars, history
  <2> QED
    BY <2>1, <2>2, <2>3, MoveLoss DEF Alive
<1>10. CASE SpillOver(c)
  <2>1. /\ UNCHANGED <<channel, boots, lost>>
        /\ pc' = [pc EXCEPT ![c] = "ending"]
        /\ stage' = [stage EXCEPT ![c] = Nothing]
    BY <1>10 DEF SpillOver, brokerVars, history
  <2>2. \A d \in Consumers : Alive(d) => Alive(d)'
    BY <1>1, <2>1, StaysAlive
  <2>3. /\ \A d \in Consumers \ {c} : stage'[d] = stage[d]
        /\ \A m \in Messages : stage'[c][m] = "none"
    BY <1>1, <2>1 DEF Nothing, TypeOK
  <2> QED
    BY <1>1, <2>1, <2>2, <2>3, GoesOnLoss
<1>11. ASSUME NEW S \in SUBSET Messages, NEW s \in Stages \ {"none"}, S \in Units(c, s)
       PROVE  S \in SUBSET Staged(c)
  BY <1>11, UnitsAreStaged DEF Staged
<1>12. {"running", "counting"} \cup Settling \subseteq Stages \ {"none"}
  BY DEF Stages, Settling
<1>13. ASSUME NEW S \in SUBSET Messages, CallbackSucceeds(c, S)
       PROVE  OpenInv' /\ LossBudget'
  <2>1. S \in SUBSET Staged(c)
    BY <1>11, <1>12, <1>13 DEF CallbackSucceeds
  <2>2. CASE IsOpen(c)
    BY <1>13, <2>1, <2>2, MoveLoss DEF CallbackSucceeds, Alive
  <2>3. CASE ~IsOpen(c)
    BY <1>13, <2>1, <2>3, ExitLoss DEF CallbackSucceeds
  <2> QED
    BY <2>2, <2>3
<1>14. ASSUME NEW S \in SUBSET Messages, Count(c, S)
       PROVE  OpenInv' /\ LossBudget'
  <2>1. S \in SUBSET Staged(c)
    BY <1>11, <1>12, <1>14 DEF Count
  <2>2. UNCHANGED <<channel, boots, lost, pc>> /\ Move(c, S, "none")
    BY <1>14 DEF Count, brokerVars, history
  <2> QED
    BY <2>1, <2>2, MoveLoss DEF Alive
<1>15. ASSUME NEW S \in SUBSET Messages, NEW e \in Errors, CallbackFails(c, S, e)
       PROVE  OpenInv' /\ LossBudget'
  <2>1. S \in SUBSET Staged(c)
    BY <1>11, <1>12, <1>15 DEF CallbackFails
  <2> QED
    BY <1>15, <2>1, NackLoss DEF CallbackFails
<1>16. ASSUME NEW S \in SUBSET Messages, NEW e \in Errors, CallbackFailsCounted(c, S, e)
       PROVE  OpenInv' /\ LossBudget'
  <2>1. S \in SUBSET Staged(c)
    BY <1>11, <1>12, <1>16 DEF CallbackFailsCounted
  <2>2. CASE PerItem \/ ErrorListener
    <3>1. UNCHANGED <<channel, boots, lost, pc>>
      BY <1>16, <2>2 DEF CallbackFailsCounted, brokerVars
    <3>2. \E s : Move(c, S, s)
      BY <1>16, <2>2 DEF CallbackFailsCounted
    <3> QED
      BY <2>1, <3>1, <3>2, MoveLoss DEF Alive
  <2>3. CASE ~(PerItem \/ ErrorListener)
    BY <1>16, <2>1, <2>3, ExitLoss DEF CallbackFailsCounted
  <2> QED
    BY <2>2, <2>3
<1>17. ASSUME NEW S \in SUBSET Messages, NEW s \in Settling, CountFailure(c, S, s)
       PROVE  OpenInv' /\ LossBudget'
  <2>1. S \in SUBSET Staged(c)
    BY <1>11, <1>12, <1>17 DEF CountFailure
  <2>2. CASE IsOpen(c) /\ ErrorListener
    <3>1. UNCHANGED <<channel, boots, lost, pc>> /\ Move(c, S, "none")
      BY <1>17, <2>2 DEF CountFailure, history
    <3> QED
      BY <2>1, <3>1, MoveLoss DEF Alive
  <2>3. CASE ~(IsOpen(c) /\ ErrorListener)
    BY <1>17, <2>3, ExitLoss DEF CountFailure
  <2> QED
    BY <2>2, <2>3
<1> QED
  BY <1>2, <1>3, <1>4, <1>5, <1>6, <1>7, <1>8, <1>9, <1>10, <1>13, <1>14, <1>15, <1>16,
     <1>17 DEF Tick

LEMMA FaultLoss ==
  ASSUME LossInv, Control', NEW c \in Consumers, Fault(c)
  PROVE  OpenInv' /\ LossBudget'
<1> DEFINE kept == stage[c]
<1>1. ASSUME NEW p, HandleFatalError(c, p, {}, stage[c])
      PROVE  OpenInv' /\ LossBudget'
  <2>1. \A m \in Messages : /\ kept[m] \in {"none", stage[c][m]}
                            /\ m \in {} => kept[m] = "none"
    OBVIOUS
  <2>2. HandleFatalError(c, p, {}, kept)
    BY <1>1
  <2> HIDE DEF kept
  <2> QED
    BY <2>1, <2>2, FatalLoss
<1>2. CASE BalanceFails(c)
  BY <1>1, <1>2 DEF BalanceFails
<1>3. CASE ChannelError(c)
  BY <1>1, <1>3, ExitLoss DEF ChannelError
<1>4. CASE Crash(c)
  <2>1. PICK R \in Units(c, "running") \cup {{}} : Exit(c, R, {})
    BY <1>4 DEF Crash
  <2>2. R \in SUBSET Staged(c)
    BY UnitsAreStaged DEF Stages, Staged
  <2> QED
    BY <2>1, <2>2, ExitLoss
<1>5. ASSUME NEW S \in SUBSET Messages, NEW s \in Settling \cup {"counting"},
             CountFails(c, S, s)
      PROVE  OpenInv' /\ LossBudget'
  <2> DEFINE st == [m \in Messages |-> IF m \in S THEN "none" ELSE stage[c][m]]
  <2>1. S \in SUBSET Staged(c)
    BY <1>5, UnitsAreStaged DEF CountFails, Staged, Settling, Stages
  <2>2. CASE PerItem
    <3>1. \A m \in Messages : /\ st[m] \in {"none", stage[c][m]}
                              /\ m \in S => st[m] = "none"
      OBVIOUS
    <3>2. HandleFatalError(c, pc[c], S, st)
      BY <1>5, <2>2 DEF CountFails
    <3> HIDE DEF st
    <3> QED
      BY <2>1, <3>1, <3>2, FatalLoss
  <2>3. CASE ~PerItem
    <3>1. \A m \in Messages : /\ Nothing[m] \in {"none", stage[c][m]}
                              /\ m \in S => Nothing[m] = "none"
      BY DEF Nothing
    <3>2. HandleFatalError(c, "idle", S, Nothing)
      BY <1>5, <2>3 DEF CountFails
    <3> QED
      BY <2>1, <3>1, <3>2, FatalLoss
  <2> QED
    BY <2>2, <2>3
<1> QED
  BY <1>2, <1>3, <1>4, <1>5 DEF Fault

\* A start of a process that was over: its channel was closed, and stays out
\* of what has ended until it closes again.
LEMMA BootLoss ==
  ASSUME LossInv, Control', NEW c \in Consumers, Boot(c)
  PROVE  OpenInv' /\ LossBudget'
<1>1. /\ ~Alive(c) /\ boots[c] < MaxBoots
      /\ boots' = [boots EXCEPT ![c] = boots[c] + 1]
      /\ channel' = [channel EXCEPT ![c] = "open"]
      /\ pc' = [pc EXCEPT ![c] = IF LoopStarts THEN "scheduled" ELSE "idle"]
      /\ UNCHANGED <<stage, lost>>
  BY DEF Boot, history
<1>2. boots \in [Consumers -> 0 .. MaxBoots] /\ MaxBoots \in Nat
  BY ConfigAssumption DEF LossInv, QuotaInv, Control, TypeOK
<1>3. ~IsOpen(c)
  BY <1>1 DEF LossInv, OpenInv
<1>4. /\ IsOpen(c)' /\ boots'[c] = boots[c] + 1
      /\ \A d \in Consumers \ {c} : IsOpen(d)' = IsOpen(d) /\ boots'[d] = boots[d]
  BY <1>1 DEF IsOpen, LossInv, QuotaInv, Control, TypeOK, BrokerTypeOK
<1>5. OpenInv'
  <2>1. Alive(c)' /\ \A d \in Consumers \ {c} : Alive(d)' = Alive(d)
    BY <1>1 DEF Alive, LossInv, QuotaInv, Control, TypeOK
  <2>2. boots'[c] \in 1 .. MaxBoots
    BY <1>1, <1>2, <1>4
  <2> QED
    BY <1>4, <2>1, <2>2 DEF LossInv, OpenInv
<1>6. Ended' = Ended
  <2>1. ASSUME NEW d \in Consumers, NEW k \in 1 .. MaxBoots
        PROVE  <<d, k>> \in Ended' <=> <<d, k>> \in Ended
    <3>1. CASE d = c
      BY <1>2, <1>3, <1>4, <3>1 DEF Ended
    <3>2. CASE d # c
      BY <1>4, <3>2 DEF Ended
    <3> QED
      BY <3>1, <3>2
  <2>2. /\ Ended \subseteq Consumers \X (1 .. MaxBoots)
        /\ Ended' \subseteq Consumers \X (1 .. MaxBoots)
    BY DEF Ended
  <2> QED
    BY <2>1, <2>2
<1>7. Doomed' \in SUBSET Doomed
  BY <1>1, <1>3, <1>4 DEF Doomed
<1>8. Cardinality(Doomed') <= Cardinality(Doomed)
  BY <1>7, LossSets, FS_Subset
<1>9. LossBudget'
  <2>1. lost \in Nat /\ lost' = lost
    BY <1>1 DEF LossInv, QuotaInv, Control, TypeOK
  <2>2. MaxBatch * Cardinality(Ended) \in Nat
    BY LossSets, MaxBatchAssumption
  <2> QED
    BY <1>6, <1>8, <2>1, <2>2, LossSets DEF LossInv, LossBudget
<1> QED
  BY <1>5, <1>9

LEMMA CallLoss ==
  ASSUME LossInv, Control', NEW c \in Consumers, Call(c) \/ Closing(c)
  PROVE  OpenInv' /\ LossBudget'
<1>1. TypeOK /\ lost \in Nat
  BY DEF LossInv, QuotaInv, Control, TypeOK
<1>2. ASSUME Cork(c) \/ \E purge \in BOOLEAN : Shutdown(c, purge)
      PROVE  OpenInv' /\ LossBudget'
  <2>1. UNCHANGED <<channel, boots, stage, lost>> /\ DoCork(c)
    BY <1>2 DEF Cork, Shutdown, brokerVars, history
  <2>2. \A d \in Consumers : Alive(d) => Alive(d)'
    BY <1>1, <2>1 DEF DoCork, Alive, TypeOK
  <2>3. lost' <= lost
    BY <1>1, <2>1
  <2> QED
    BY <2>1, <2>2, <2>3, StillLoss
<1>3. ASSUME Uncork(c) \/ Purge(c) \/ ShutdownPurge(c) \/ Died(c)
      PROVE  OpenInv' /\ LossBudget'
  <2>1. UNCHANGED <<channel, boots, stage, pc>> /\ (lost' = 0 \/ lost' = lost)
    BY <1>3 DEF Uncork, Purge, ShutdownPurge, Died, NewWindow, brokerVars, consumerVars,
                history
  <2>2. lost' <= lost
    BY <1>1, <2>1
  <2> QED
    BY <2>1, <2>2, StillLoss DEF Alive
<1>4. CASE ShutdownClose(c)
  <2>1. /\ channel' = [channel EXCEPT ![c] = "closed"]
        /\ UNCHANGED <<boots, stage, lost, pc>>
    BY <1>4 DEF ShutdownClose, history
  <2>2. OpenInv'
    <3>1. \A d \in Consumers : IsOpen(d)' => IsOpen(d) /\ (Alive(d) => Alive(d)')
      BY <1>1, <2>1 DEF IsOpen, Alive, TypeOK, BrokerTypeOK
    <3> QED
      BY <2>1, <3>1, OpenKept DEF LossInv
  <2>3. lost' = lost + Cardinality({})
    BY <1>1, <2>1, FS_EmptySet
  <2>4. /\ Staged(c)' \subseteq Staged(c) \ {} /\ {} \in SUBSET Staged(c)
        /\ \A d \in Consumers \ {c} : stage'[d] = stage[d]
    BY <2>1 DEF Staged
  <2> QED
    BY <2>1, <2>2, <2>3, <2>4, LossStops
<1> QED
  BY <1>2, <1>3, <1>4, BootLoss DEF Call, Closing

LEMMA WorldLoss ==
  ASSUME LossInv, Control',
         \/ WindowEnds
         \/ \E c \in Consumers : Returns(c)
         \/ \E m \in Messages : Published(m)
  PROVE  OpenInv' /\ LossBudget'
<1>1. /\ UNCHANGED <<channel, boots, stage, pc>>
      /\ lost' = 0 \/ lost' = lost
  BY DEF WindowEnds, NewWindow, Returns, Redeliver, Published, Publish, brokerVars,
         consumerVars, history
<1>2. lost' <= lost
  BY <1>1 DEF LossInv, QuotaInv, Control, TypeOK
<1> QED
  BY <1>1, <1>2, StillLoss DEF Alive

LEMMA InitLoss == Init => LossInv
<1> SUFFICES ASSUME Init
             PROVE  LossInv
  OBVIOUS
<1>1. QuotaInv
  BY InitQuota
<1>2. \A c \in Consumers : ~IsOpen(c)
  BY DEF Init, BrokerInit, IsOpen
<1>3. Doomed = {} /\ lost = 0
  BY DEF Init, Nothing, Doomed
<1>4. LossBudget
  <2>1. lost + Cardinality(Doomed) = 0
    BY <1>3, FS_EmptySet
  <2>2. MaxBatch * Cardinality(Ended) \in Nat
    BY LossSets, MaxBatchAssumption
  <2> QED
    BY <2>1, <2>2 DEF LossBudget
<1> QED
  BY <1>1, <1>2, <1>4 DEF LossInv, OpenInv

LEMMA NextLoss == LossInv /\ [Next]_vars => LossInv'
<1> SUFFICES ASSUME LossInv, [Next]_vars
             PROVE  LossInv'
  OBVIOUS
<1>1. QuotaInv' /\ Control'
  BY NextQuota DEF LossInv, QuotaInv
<1>2. CASE UNCHANGED vars
  <2>1. UNCHANGED <<channel, boots, stage, pc, lost>>
    BY <1>2 DEF vars, brokerVars, consumerVars, history
  <2>2. lost' <= lost
    BY <2>1 DEF LossInv, QuotaInv, Control, TypeOK
  <2>3. \A d \in Consumers : Alive(d) => Alive(d)'
    BY <2>1 DEF Alive
  <2>4. OpenInv' /\ LossBudget'
    BY <1>1, <2>1, <2>2, <2>3, StillLoss
  <2> QED
    BY <1>1, <2>4 DEF LossInv
<1>3. CASE Next
  <2>1. OpenInv' /\ LossBudget'
    BY <1>1, <1>3, TickLoss, FaultLoss, CallLoss, WorldLoss DEF Next
  <2> QED
    BY <1>1, <2>1 DEF LossInv
<1> QED
  BY <1>2, <1>3

\* However often consumers are started, in whatever order channels close,
\* fatal errors are handled and processes end: a start costs the count of one
\* quota at most.
THEOREM LossIsBounded == Spec => []LossBound
<1>1. LossInv => LossBound
  <2> SUFFICES ASSUME LossInv
               PROVE  LossBound
    OBVIOUS
  <2>1. lost \in Nat /\ MaxBatch * Cardinality(Ended) \in Nat
    BY LossSets, MaxBatchAssumption DEF LossInv, QuotaInv, Control, TypeOK
  <2> QED
    BY <2>1, LossSets DEF LossInv, LossBudget, LossBound
<1> QED
  BY <1>1, InitLoss, NextLoss, PTL DEF Spec

\* The rate limit the code keeps "even if the consumer process is restarted"
\* (README.md:27): in a window, one quota for each consumer and one for each
\* start that is over.
THEOREM RestartsAreBounded ==
  Spec => [](delivered <= MaxBatch * (Cardinality(Consumers) + Cardinality(Ended)))
<1> DEFINE Rate == delivered <= MaxBatch * (Cardinality(Consumers) + Cardinality(Ended))
<1>1. TypeOK /\ RateBound /\ LossBound => Rate
  <2> SUFFICES ASSUME TypeOK, RateBound, LossBound
               PROVE  Rate
    OBVIOUS
  <2>1. Cardinality(Consumers) \in Nat /\ Cardinality(Ended) \in Nat
    BY LossSets, ConsumersAssumption, FS_CardinalityType
  <2>2. MaxBatch * (Cardinality(Consumers) + Cardinality(Ended))
          = MaxBatch * Cardinality(Consumers) + MaxBatch * Cardinality(Ended)
    BY <2>1, MaxBatchAssumption
  <2>3. /\ MaxBatch * Cardinality(Consumers) \in Nat
        /\ MaxBatch * Cardinality(Ended) \in Nat
    BY <2>1, MaxBatchAssumption
  <2> QED
    BY <2>2, <2>3 DEF TypeOK, RateBound, LossBound
<1> QED
  BY <1>1, TypeCorrect, RateIsBounded, LossIsBounded, PTL

\* A sole consumer keeps the documented limit itself as long as its first
\* channel is open: corked, purged, with failing callbacks and hooks.
THEOREM OneKeepsTheLimit ==
  Cardinality(Consumers) = 1 => (Spec => [](Ended = {} => RateLimit))
<1> SUFFICES ASSUME Cardinality(Consumers) = 1
             PROVE  Spec => [](Ended = {} => RateLimit)
  OBVIOUS
<1>1. TypeOK /\ RateBound /\ LossBound => (Ended = {} => RateLimit)
  <2>1. Cardinality({}) = 0
    BY FS_EmptySet
  <2> QED
    BY <2>1, MaxBatchAssumption DEF TypeOK, RateBound, LossBound, RateLimit
<1> QED
  BY <1>1, TypeCorrect, RateIsBounded, LossIsBounded, PTL
=============================================================================
