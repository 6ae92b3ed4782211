----------------------------- MODULE CorkProofs -----------------------------
(***************************************************************************)
(* Theorems about what cork guarantees, at whatever point of a tick it     *)
(* falls and whoever calls it.                                             *)
(***************************************************************************)
EXTENDS BucketQueueProofs

-----------------------------------------------------------------------------
(* No tick is pending.                                                     *)

CorkInv == Control /\ CorkedIsUnscheduled

\* A fatal error leaves no tick pending, and changes its own consumer only.
LEMMA FatalUnschedules ==
  ASSUME CorkInv, NEW c \in Consumers, NEW p, p # "scheduled", NEW W, NEW st,
         HandleFatalError(c, p, W, st) \/ Exit(c, {}, W)
  PROVE  CorkedIsUnscheduled'
BY DEF CorkInv, Control, TypeOK, CorkedIsUnscheduled, HandleFatalError, Exit

LEMMA InitCork == Init => CorkInv
BY InitControl DEF CorkInv, CorkedIsUnscheduled, Init

LEMMA TickCork ==
  ASSUME CorkInv, NEW c \in Consumers, Tick(c)
  PROVE  CorkedIsUnscheduled'
<1>1. ASSUME NEW S, NEW R, Exit(c, R, S)
      PROVE  CorkedIsUnscheduled'
  BY <1>1 DEF CorkInv, Control, TypeOK, CorkedIsUnscheduled, Exit
<1>2. ASSUME UNCHANGED <<pc, corked>>
      PROVE  CorkedIsUnscheduled'
  BY <1>2 DEF CorkInv, CorkedIsUnscheduled
<1>3. ASSUME NEW S, NEW requeue, Nack(c, S, requeue) \/ NackHeard(c, S, requeue)
      PROVE  CorkedIsUnscheduled'
  BY <1>1, <1>2, <1>3 DEF Nack, NackHeard
<1>4. CASE TickStart(c) \/ ReadBalance(c) \/ GetSingleMessage(c) \/ EndTick(c)
             \/ SpillOver(c)
  BY <1>4
  DEF CorkInv, Control, TypeOK, CorkedIsUnscheduled, TickStart, ReadBalance,
      GetSingleMessage, Answered, EndTick, AfterTick, SpillOver
<1>5. CASE PassThrough(c) \/ PhaseOver(c)
  <2>1. pc[c] \in Phases /\ pc' = [pc EXCEPT ![c] = Following[pc[c]]] /\ corked' = corked
    BY <1>5, ConfigAssumption DEF PassThrough, PhaseOver
  <2>2. Following[pc[c]] # "scheduled"
    BY <2>1 DEF Phases, Following
  <2> QED
    BY <2>1, <2>2 DEF CorkInv, Control, TypeOK, CorkedIsUnscheduled
<1>6. CASE GetFails(c) \/ StartChunk(c)
             \/ (\E m \in Messages : HookPasses(c, m) \/ ItemInvalid(c, m))
             \/ (\E m \in Messages, e \in Errors : HookThrows(c, m, e))
  BY <1>1, <1>2, <1>3, <1>6
  DEF GetFails, StartChunk, HookPasses, ItemInvalid, HookThrows
<1>7. ASSUME NEW S \in SUBSET Messages,
             \/ CallbackSucceeds(c, S)
             \/ Count(c, S)
             \/ \E e \in Errors : CallbackFails(c, S, e) \/ CallbackFailsCounted(c, S, e)
             \/ \E s \in Settling : CountFailure(c, S, s)
      PROVE  CorkedIsUnscheduled'
  BY <1>1, <1>2, <1>3, <1>7
  DEF CallbackSucceeds, Count, CallbackFails, CallbackFailsCounted, CountFailure
<1> QED
  BY <1>4, <1>5, <1>6, <1>7 DEF Tick

LEMMA FaultCork ==
  ASSUME CorkInv, NEW c \in Consumers, Fault(c)
  PROVE  CorkedIsUnscheduled'
<1>1. CASE BalanceFails(c)
  BY <1>1, FatalUnschedules DEF BalanceFails
<1>2. CASE ChannelError(c)
  <2> DEFINE p == IF pc[c] = "scheduled" THEN "idle" ELSE pc[c]
  <2>1. p # "scheduled"
    OBVIOUS
  <2>2. HandleFatalError(c, p, {}, stage[c]) \/ Exit(c, {}, {})
    BY <1>2 DEF ChannelError
  <2> HIDE DEF p
  <2> QED
    BY <2>1, <2>2, FatalUnschedules
<1>3. CASE Crash(c)
  BY <1>3 DEF Crash, CorkInv, Control, TypeOK, CorkedIsUnscheduled, Exit
<1>4. ASSUME NEW S \in SUBSET Messages, NEW s \in Settling \cup {"counting"},
             CountFails(c, S, s)
      PROVE  CorkedIsUnscheduled'
  <2> DEFINE st == [m \in Messages |-> IF m \in S THEN "none" ELSE stage[c][m]]
  <2>1. pc[c] # "scheduled"
    <3>1. S # {} /\ \A m \in S : m \in Messages /\ stage[c][m] = s
      BY <1>4, UnitsAreStaged DEF CountFails, Stages, Settling
    <3>2. s \in ActiveStages
      BY DEF ActiveStages
    <3> QED
      BY <3>1, <3>2 DEF CorkInv, Control, StagedInv
  <2>2. HandleFatalError(c, pc[c], S, st) \/ HandleFatalError(c, "idle", S, Nothing)
    BY <1>4 DEF CountFails
  <2> HIDE DEF st
  <2> QED
    BY <2>1, <2>2, FatalUnschedules
<1> QED
  BY <1>1, <1>2, <1>3, <1>4 DEF Fault

LEMMA CallCork ==
  ASSUME CorkInv, NEW c \in Consumers, Call(c) \/ Closing(c)
  PROVE  CorkedIsUnscheduled'
<1>1. CASE Boot(c) \/ Cork(c) \/ Uncork(c) \/ \E purge \in BOOLEAN : Shutdown(c, purge)
  BY <1>1
  DEF CorkInv, Control, TypeOK, CorkedIsUnscheduled, Boot, Cork, Uncork, Shutdown, DoCork
<1>2. CASE Purge(c) \/ Closing(c)
  BY <1>2
  DEF CorkInv, CorkedIsUnscheduled, Purge, consumerVars, Closing, ShutdownPurge,
      ShutdownClose, Died
<1> QED
  BY <1>1, <1>2 DEF Call

LEMMA NextCork == CorkInv /\ [Next]_vars => CorkInv'
<1> SUFFICES ASSUME CorkInv, [Next]_vars
             PROVE  CorkInv'
  OBVIOUS
<1>1. Control'
  BY NextControl DEF CorkInv
<1>2. CASE \/ UNCHANGED vars
           \/ \E c \in Consumers : Returns(c)
           \/ \E m \in Messages : Published(m)
           \/ WindowEnds
  BY <1>1, <1>2
  DEF CorkInv, CorkedIsUnscheduled, vars, consumerVars, Returns, Published, WindowEnds
<1> QED
  BY <1>1, <1>2, TickCork, FaultCork, CallCork DEF Next, CorkInv

\* However a tick, a fatal error, a shutdown and calls of cork and uncork
\* interleave, a corked consumer has no tick pending.
THEOREM CorkUnschedules == Spec => []CorkedIsUnscheduled
<1>1. CorkInv => CorkedIsUnscheduled
  BY DEF CorkInv
<1> QED
  BY <1>1, InitCork, NextCork, PTL DEF Spec

-----------------------------------------------------------------------------
(* No quota is taken.                                                      *)

\* Consumer d asks for nothing more and takes nothing into its tick.
Keeps(d) ==
  /\ asked'[d] <= asked[d]
  /\ \A m \in Messages : stage[d][m] = "none" => stage'[d][m] = "none"

LEMMA KeepsClaim ==
  ASSUME Control, Control', NEW d \in Consumers, Keeps(d)
  PROVE  Claim(d)' <= Claim(d)
<1>1. Staged(d)' \subseteq Staged(d)
  BY DEF Keeps, Staged
<1>2. /\ IsFiniteSet(Staged(d)) /\ Cardinality(Staged(d)) \in Nat
      /\ IsFiniteSet(Staged(d)') /\ Cardinality(Staged(d)') \in Nat
  BY MessageSets DEF Staged
<1>3. Cardinality(Staged(d)') <= Cardinality(Staged(d))
  BY <1>1, <1>2, FS_Subset
<1>4. asked[d] \in Nat /\ asked'[d] \in Nat /\ asked'[d] <= asked[d]
  BY MaxBatchAssumption DEF Control, TypeOK, Keeps
<1>5. Claim(d) = asked[d] + Cardinality(Staged(d))
  BY DEF Claim
<1>6. Claim(d)' = asked'[d] + Cardinality(Staged(d)')
  BY DEF Claim
<1> QED
  BY <1>2, <1>3, <1>4, <1>5, <1>6

\* A get that answers turns one outstanding get into at most one message.
LEMMA GetKeepsClaim ==
  ASSUME Control, NEW c \in Consumers, GetSingleMessage(c)
  PROVE  Claim(c)' <= Claim(c)
<1>1. /\ asked[c] \in Nat /\ asked'[c] = asked[c] - 1
  BY MaxBatchAssumption DEF GetSingleMessage, Answered, Control, TypeOK
<1>2. PICK m : Staged(c)' \subseteq Staged(c) \cup {m}
  <2>1. ASSUME NEW n \in Messages, Move(c, {n}, "got")
        PROVE  Staged(c)' \subseteq Staged(c) \cup {n}
    BY <2>1 DEF Move, Staged, Control, TypeOK
  <2>2. UNCHANGED stage => Staged(c)' = Staged(c)
    BY DEF Staged
  <2>3. (\E n \in Messages : Move(c, {n}, "got")) \/ UNCHANGED stage
    BY DEF GetSingleMessage, Ready
  <2> QED
    BY <2>1, <2>2, <2>3
<1>3. IsFiniteSet(Staged(c)) /\ Cardinality(Staged(c)) \in Nat
  BY ClaimsType
<1>4. /\ IsFiniteSet(Staged(c) \cup {m})
      /\ Cardinality(Staged(c) \cup {m}) \in Nat
      /\ Cardinality(Staged(c) \cup {m}) <= Cardinality(Staged(c)) + 1
  BY <1>3, FS_AddElement, FS_CardinalityType
<1>5. /\ Cardinality(Staged(c)') \in Nat
      /\ Cardinality(Staged(c)') <= Cardinality(Staged(c) \cup {m})
  BY <1>2, <1>4, FS_Subset, FS_CardinalityType
<1>6. Claim(c) = asked[c] + Cardinality(Staged(c))
  BY DEF Claim
<1>7. Claim(c)' = asked'[c] + Cardinality(Staged(c)')
  BY DEF Claim
<1> QED
  BY <1>1, <1>3, <1>4, <1>5, <1>6, <1>7

\* Steps that leave the gets alone and move messages of the tick.
LEMMA MoveKeeps ==
  ASSUME Control, NEW c \in Consumers, NEW S \in SUBSET Staged(c), NEW s,
         Move(c, S, s), UNCHANGED asked, NEW d \in Consumers
  PROVE  Keeps(d)
BY MaxBatchAssumption DEF Keeps, Move, Staged, Control, TypeOK

LEMMA SameKeeps ==
  ASSUME Control, UNCHANGED <<asked, stage>>, NEW d \in Consumers
  PROVE  Keeps(d)
BY MaxBatchAssumption DEF Keeps, Control, TypeOK

LEMMA ExitKeeps ==
  ASSUME Control, NEW c \in Consumers, NEW R, NEW S, Exit(c, R, S), NEW d \in Consumers
  PROVE  Keeps(d)
BY MaxBatchAssumption DEF Keeps, Exit, Nothing, Control, TypeOK

LEMMA FatalKeeps ==
  ASSUME Control, NEW c \in Consumers, NEW p, NEW W, NEW st,
         \A m \in Messages : st[m] \in {"none", stage[c][m]},
         HandleFatalError(c, p, W, st), NEW d \in Consumers
  PROVE  Keeps(d)
BY MaxBatchAssumption, ExitKeeps DEF Keeps, HandleFatalError, Control, TypeOK

LEMMA NackKeeps ==
  ASSUME Control, NEW c \in Consumers, NEW S \in SUBSET Staged(c), NEW requeue,
         Nack(c, S, requeue) \/ NackHeard(c, S, requeue), NEW d \in Consumers
  PROVE  Keeps(d)
BY MoveKeeps, ExitKeeps DEF Nack, NackHeard

LEMMA TickKeeps ==
  ASSUME Control, NEW c \in Consumers, Tick(c), ~GetSingleMessage(c),
         ~(ReadBalance(c) /\ Spills(c)), NEW d \in Consumers
  PROVE  Keeps(d)
<1>1. CASE TickStart(c) \/ PhaseOver(c) \/ EndTick(c) \/ ReadBalance(c)
  BY <1>1, SameKeeps DEF TickStart, PhaseOver, EndTick, ReadBalance
<1>2. CASE GetFails(c)
  BY <1>2, ExitKeeps DEF GetFails
<1>3. ASSUME pc[c] \in Phases
      PROVE  Before[pc[c]] # "none"
  BY <1>3 DEF Phases, Before
<1>4. CASE PassThrough(c)
  <2>1. pc[c] \in Phases /\ UNCHANGED asked
        /\ Move(c, In(c, Before[pc[c]]), After[pc[c]])
    BY <1>4 DEF PassThrough
  <2>2. In(c, Before[pc[c]]) \in SUBSET Staged(c)
    BY <1>3, <2>1, UnitsInTick
  <2> QED
    BY <2>1, <2>2, MoveKeeps
<1>5. ASSUME NEW m \in Messages,
             HookPasses(c, m) \/ \E e \in Errors : HookThrows(c, m, e)
      PROVE  Keeps(d)
  <2>1. {m} \in SUBSET Staged(c)
    <3>1. pc[c] \in Phases /\ stage[c][m] = Before[pc[c]]
      BY <1>5, ConfigAssumption DEF HookPasses, HookThrows
    <3> QED
      BY <1>3, <3>1 DEF Staged
  <2> QED
    BY <1>5, <2>1, MoveKeeps, NackKeeps DEF HookPasses, HookThrows
<1>6. ASSUME NEW m \in Messages, ItemInvalid(c, m)
      PROVE  Keeps(d)
  <2>1. {m} \in SUBSET Staged(c)
    BY <1>6 DEF ItemInvalid, Staged
  <2> QED
    BY <1>6, <2>1, NackKeeps DEF ItemInvalid
<1>7. CASE StartChunk(c)
  <2>1. PICK S \in Chunks(c) : Move(c, S, "running") /\ UNCHANGED asked
    BY <1>7 DEF StartChunk
  <2>2. S \in SUBSET Staged(c)
    BY UnitsInTick DEF Chunks
  <2> QED
    BY <2>1, <2>2, MoveKeeps
<1>8. CASE SpillOver(c)
  BY <1>8, MaxBatchAssumption DEF SpillOver, Nothing, Keeps, Control, TypeOK
<1>9. ASSUME NEW S \in SUBSET Messages,
             \/ CallbackSucceeds(c, S)
             \/ Count(c, S)
             \/ \E e \in Errors : CallbackFails(c, S, e) \/ CallbackFailsCounted(c, S, e)
             \/ \E s \in Settling : CountFailure(c, S, s)
      PROVE  Keeps(d)
  <2>1. S \in SUBSET Staged(c)
    BY <1>9, UnitsInTick
    DEF CallbackSucceeds, Count, CallbackFails, CallbackFailsCounted, CountFailure, Settling
  <2>2. CASE CallbackSucceeds(c, S)
    BY <2>1, <2>2, MoveKeeps, ExitKeeps DEF CallbackSucceeds
  <2>3. CASE Count(c, S)
    BY <2>1, <2>3, MoveKeeps DEF Count
  <2>4. ASSUME NEW e \in Errors, CallbackFails(c, S, e) \/ CallbackFailsCounted(c, S, e)
        PROVE  Keeps(d)
    BY <2>1, <2>4, MoveKeeps, ExitKeeps, NackKeeps DEF CallbackFails, CallbackFailsCounted
  <2>5. ASSUME NEW s \in Settling, CountFailure(c, S, s)
        PROVE  Keeps(d)
    BY <2>1, <2>5, MoveKeeps, ExitKeeps DEF CountFailure
  <2> QED
    BY <1>9, <2>2, <2>3, <2>4, <2>5
<1> QED
  BY <1>1, <1>2, <1>4, <1>5, <1>6, <1>7, <1>8, <1>9 DEF Tick

LEMMA FaultKeeps ==
  ASSUME Control, NEW c \in Consumers, Fault(c), NEW d \in Consumers
  PROVE  Keeps(d)
<1>1. CASE BalanceFails(c)
  BY <1>1, FatalKeeps DEF BalanceFails
<1>2. CASE ChannelError(c)
  BY <1>2, FatalKeeps, ExitKeeps DEF ChannelError
<1>3. CASE Crash(c)
  BY <1>3, ExitKeeps DEF Crash
<1>4. ASSUME NEW S \in SUBSET Messages, NEW s \in Settling \cup {"counting"},
             CountFails(c, S, s)
      PROVE  Keeps(d)
  <2> DEFINE st == [m \in Messages |-> IF m \in S THEN "none" ELSE stage[c][m]]
  <2>1. /\ \A m \in Messages : st[m] \in {"none", stage[c][m]}
        /\ \A m \in Messages : Nothing[m] \in {"none", stage[c][m]}
    BY DEF Nothing
  <2>2. HandleFatalError(c, pc[c], S, st) \/ HandleFatalError(c, "idle", S, Nothing)
    BY <1>4 DEF CountFails
  <2> HIDE DEF st
  <2> QED
    BY <2>1, <2>2, FatalKeeps
<1> QED
  BY <1>1, <1>2, <1>3, <1>4 DEF Fault

\* What happens outside the ticks changes no claim.
LEMMA OutsideKeeps ==
  ASSUME Control,
         \/ UNCHANGED vars
         \/ \E c \in Consumers : Call(c) \/ Closing(c) \/ Returns(c)
         \/ \E m \in Messages : Published(m)
         \/ WindowEnds,
         NEW d \in Consumers
  PROVE  Keeps(d)
<1>1. UNCHANGED <<asked, stage>>
  BY DEF vars, consumerVars, Call, Closing, Returns, Published, WindowEnds, Boot, Cork,
         Uncork, Purge, Shutdown, ShutdownPurge, ShutdownClose, Died
<1> QED
  BY <1>1, SameKeeps

LEMMA CorkedStep ==
  ASSUME Control, Control', [Next]_vars, NEW d \in Consumers, corked[d]
  PROVE  Claim(d)' <= Claim(d)
<1>1. ASSUME NEW c \in Consumers, ReadBalance(c), Spills(c)
      PROVE  Keeps(d)
  <2>1. c # d
    BY <1>1 DEF Spills
  <2>2. asked'[d] = asked[d] /\ stage' = stage
    BY <1>1, <2>1 DEF ReadBalance, Control, TypeOK
  <2> QED
    BY <2>2, MaxBatchAssumption DEF Keeps, Control, TypeOK
<1>2. ASSUME NEW c \in Consumers, GetSingleMessage(c)
      PROVE  Claim(d)' <= Claim(d)
  <2>1. CASE c = d
    BY <1>2, <2>1, GetKeepsClaim
  <2>2. CASE c # d
    <3>1. asked'[d] = asked[d] /\ stage'[d] = stage[d]
      BY <1>2, <2>2 DEF GetSingleMessage, Answered, Move, Control, TypeOK
    <3>2. Keeps(d)
      BY <3>1, MaxBatchAssumption DEF Keeps, Control, TypeOK
    <3> QED
      BY <3>2, KeepsClaim
  <2> QED
    BY <2>1, <2>2
<1>3. ASSUME NEW c \in Consumers, Tick(c)
      PROVE  Claim(d)' <= Claim(d)
  BY <1>1, <1>2, <1>3, TickKeeps, KeepsClaim
<1>4. ASSUME NEW c \in Consumers, Fault(c)
      PROVE  Claim(d)' <= Claim(d)
  BY <1>4, FaultKeeps, KeepsClaim
<1>5. ASSUME \/ UNCHANGED vars
             \/ \E c \in Consumers : Call(c) \/ Closing(c) \/ Returns(c)
             \/ \E m \in Messages : Published(m)
             \/ WindowEnds
      PROVE  Claim(d)' <= Claim(d)
  BY <1>5, OutsideKeeps, KeepsClaim
<1> QED
  BY <1>3, <1>4, <1>5 DEF Next

\* From cork to uncork no step raises what a consumer may still use of the
\* quota, wherever in a tick cork fell.
THEOREM CorkStopsClaims == Spec => CorkedTakesNoMore
<1>1. Control /\ Control' /\ [Next]_vars
        => [\A c \in Consumers : corked[c] /\ corked'[c] => Claim(c)' <= Claim(c)]_vars
  BY CorkedStep
<1> QED
  BY <1>1, ControlIsInvariant, PTL DEF Spec, CorkedTakesNoMore
=============================================================================
