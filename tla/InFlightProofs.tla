--------------------------- MODULE InFlightProofs ---------------------------
(***************************************************************************)
(* Theorems about the messages: what a consumer holds unacknowledged, and  *)
(* what may leave the queue unhandled.                                     *)
(***************************************************************************)
EXTENDS BucketQueueProofs

\* The property message by message, for one consumer.
Flight(c) ==
  IsOpen(c) =>
    \A m \in Messages : place[m] = c <=> stage[c][m] \notin {"none", "counting"}

FlightInv == Control /\ (Callback # "none" => \A c \in Consumers : Flight(c))

LEMMA FlightMeaning ==
  (\A c \in Consumers : Flight(c)) => UnackedIsInFlight
BY DEF Flight, UnackedIsInFlight, Held, Staged, In

\* A place that is no consumer is held by none.
LEMMA PlacesAreFree == \A c \in Consumers : c \notin Places
BY ConsumersAssumption

-----------------------------------------------------------------------------
(* The shapes of a step.                                                   *)

LEMMA FlightSame ==
  ASSUME NEW d \in Consumers, Flight(d), UNCHANGED <<place, stage>>,
         IsOpen(d)' => IsOpen(d)
  PROVE  Flight(d)'
BY DEF Flight, IsOpen

\* Settling messages and taking them out of the tick, or counting them.
LEMMA FlightSettle ==
  ASSUME Control, NEW d \in Consumers, Flight(d), NEW c \in Consumers,
         NEW S \in SUBSET Messages, NEW p \in Places, Settle(c, S, p),
         NEW s \in {"none", "counting"}, Move(c, S, s), UNCHANGED channel
  PROVE  Flight(d)'
<1>1. \A m \in Messages : place'[m] = d <=> place[m] = d /\ ~(d = c /\ m \in S)
  BY PlacesAreFree DEF Settle, Held
<1>2. \A m \in Messages :
        stage'[d][m] = IF d = c /\ m \in S THEN s ELSE stage[d][m]
  BY DEF Move, Control, TypeOK
<1> QED
  BY <1>1, <1>2 DEF Flight, IsOpen

\* Moving messages on that stay unacknowledged, or stay acknowledged.
LEMMA FlightMove ==
  ASSUME Control, NEW d \in Consumers, Flight(d), NEW c \in Consumers,
         NEW S \in SUBSET Messages, NEW s, Move(c, S, s), UNCHANGED <<place, channel>>,
         \A m \in S : stage[c][m] \in {"none", "counting"} <=> s \in {"none", "counting"}
  PROVE  Flight(d)'
<1>1. \A m \in Messages :
        stage'[d][m] = IF d = c /\ m \in S THEN s ELSE stage[d][m]
  BY DEF Move, Control, TypeOK
<1> QED
  BY <1>1 DEF Flight, IsOpen

LEMMA FlightExit ==
  ASSUME Control, NEW d \in Consumers, Flight(d), NEW c \in Consumers, NEW R, NEW S,
         Exit(c, R, S)
  PROVE  Flight(d)'
BY DEF Flight, IsOpen, Exit, CloseChannel, Control, TypeOK, BrokerTypeOK

LEMMA FlightFatal ==
  ASSUME Control, NEW d \in Consumers, Flight(d), NEW c \in Consumers, NEW p, NEW W,
         NEW st, HandleFatalError(c, p, W, st)
  PROVE  Flight(d)'
<1>1. CASE Exit(c, {}, {})
  BY <1>1, FlightExit
<1>2. CASE ~Exit(c, {}, {})
  <2>1. /\ channel' = [channel EXCEPT ![c] = "closed"]
        /\ stage' = [stage EXCEPT ![c] = st]
        /\ place' = place
    BY <1>2 DEF HandleFatalError, CloseChannel
  <2> QED
    BY <2>1 DEF Flight, IsOpen, Control, TypeOK, BrokerTypeOK
<1> QED
  BY <1>1, <1>2

LEMMA FlightNack ==
  ASSUME Control, NEW d \in Consumers, Flight(d), NEW c \in Consumers,
         NEW S \in SUBSET Messages, NEW requeue,
         Nack(c, S, requeue) \/ NackHeard(c, S, requeue)
  PROVE  Flight(d)'
<1>1. (IF requeue THEN "ready" ELSE "dropped") \in Places
  BY DEF Places
<1>2. CASE Exit(c, {}, {})
  BY <1>2, FlightExit
<1>3. CASE ~Exit(c, {}, {})
  <2>1. /\ Settle(c, S, IF requeue THEN "ready" ELSE "dropped")
        /\ Move(c, S, "none") /\ UNCHANGED channel
    BY <1>3 DEF Nack, NackHeard
  <2> QED
    BY <1>1, <2>1, FlightSettle
<1> QED
  BY <1>2, <1>3

LEMMA FlightGet ==
  ASSUME Control, NEW d \in Consumers, Flight(d), NEW c \in Consumers, GetSingleMessage(c)
  PROVE  Flight(d)'
<1>1. ASSUME NEW m \in Messages, Deliver(c, m), Move(c, {m}, "got"), UNCHANGED channel
      PROVE  Flight(d)'
  <2>1. \A n \in Messages : place'[n] = IF n = m THEN c ELSE place[n]
    BY <1>1 DEF Deliver, Control, TypeOK, BrokerTypeOK
  <2>2. \A n \in Messages : stage'[d][n] = IF d = c /\ n = m THEN "got" ELSE stage[d][n]
    BY <1>1 DEF Move, Control, TypeOK
  <2>3. place[m] # d
    BY <1>1, PlacesAreFree DEF Deliver, Places
  <2> QED
    BY <1>1, <2>1, <2>2, <2>3 DEF Flight, IsOpen
<1>2. CASE UNCHANGED <<place, stage, channel>>
  BY <1>2, FlightSame DEF IsOpen
<1> QED
  BY <1>1, <1>2 DEF GetSingleMessage, Answered, Ready

-----------------------------------------------------------------------------
(* The steps.                                                              *)

LEMMA TickFlight ==
  ASSUME Control, Callback # "none", NEW c \in Consumers, Tick(c),
         NEW d \in Consumers, Flight(d)
  PROVE  Flight(d)'
<1>1. CASE TickStart(c) \/ PhaseOver(c) \/ EndTick(c) \/ ReadBalance(c)
  BY <1>1, FlightSame DEF TickStart, PhaseOver, EndTick, ReadBalance, brokerVars, IsOpen
<1>2. CASE GetFails(c)
  BY <1>2, FlightExit DEF GetFails
<1>3. pc[c] \in Phases => /\ Before[pc[c]] \notin {"none", "counting"}
                          /\ After[pc[c]] \notin {"none", "counting"}
  BY DEF Phases, Before, After
<1>4. CASE PassThrough(c)
  BY <1>3, <1>4, FlightMove DEF PassThrough, brokerVars, In
<1>5. ASSUME NEW m \in Messages, HookPasses(c, m)
      PROVE  Flight(d)'
  BY <1>3, <1>5, ConfigAssumption, FlightMove DEF HookPasses, brokerVars
<1>6. ASSUME NEW m \in Messages,
             ItemInvalid(c, m) \/ \E e \in Errors : HookThrows(c, m, e)
      PROVE  Flight(d)'
  BY <1>6, FlightNack DEF ItemInvalid, HookThrows
<1>7. CASE StartChunk(c)
  <2>1. PICK S \in Chunks(c) : Move(c, S, "running") /\ UNCHANGED <<place, channel>>
    BY <1>7 DEF StartChunk, brokerVars
  <2>2. S \in SUBSET Messages /\ \A m \in S : stage[c][m] = "valid"
    BY DEF Chunks, In
  <2> QED
    BY <2>1, <2>2, FlightMove
<1>8. CASE SpillOver(c)
  <2>1. \A m \in Messages : stage[c][m] = "none" /\ stage'[c][m] = "none"
    BY <1>8 DEF SpillOver, Staged, Nothing, Control, TypeOK
  <2>2. \A m \in Messages : stage'[d][m] = stage[d][m]
    BY <1>8, <2>1 DEF SpillOver, Control, TypeOK
  <2> QED
    BY <1>8, <2>2 DEF SpillOver, brokerVars, Flight, IsOpen
<1>9. ASSUME NEW S \in SUBSET Messages, CallbackSucceeds(c, S)
      PROVE  Flight(d)'
  <2>1. CASE IsOpen(c)
    BY <1>9, <2>1, FlightSettle DEF CallbackSucceeds, Places
  <2>2. CASE ~IsOpen(c)
    BY <1>9, <2>2, FlightExit DEF CallbackSucceeds
  <2> QED
    BY <2>1, <2>2
<1>10. ASSUME NEW S \in SUBSET Messages, Count(c, S)
       PROVE  Flight(d)'
  <2>1. \A m \in S : stage[c][m] = "counting"
    BY <1>10, UnitsAreStaged DEF Count, Stages
  <2> QED
    BY <1>10, <2>1, FlightMove DEF Count, brokerVars
<1>11. ASSUME NEW S \in SUBSET Messages, NEW e \in Errors, CallbackFails(c, S, e)
       PROVE  Flight(d)'
  BY <1>11, FlightNack DEF CallbackFails
<1>12. ASSUME NEW S \in SUBSET Messages, NEW e \in Errors, CallbackFailsCounted(c, S, e)
       PROVE  Flight(d)'
  <2>1. CASE PerItem \/ ErrorListener
    <3> DEFINE s == IF e.reenqueue THEN "requeueing" ELSE "discarding"
    <3>1. Move(c, S, s) /\ UNCHANGED <<place, channel>>
      BY <1>12, <2>1 DEF CallbackFailsCounted, brokerVars
    <3>2. s \notin {"none", "counting"} /\ \A m \in S : stage[c][m] = "running"
      BY <1>12, UnitsAreStaged DEF CallbackFailsCounted, Stages
    <3> HIDE DEF s
    <3> QED
      BY <3>1, <3>2, FlightMove
  <2>2. CASE ~(PerItem \/ ErrorListener)
    BY <1>12, <2>2, FlightExit DEF CallbackFailsCounted
  <2> QED
    BY <2>1, <2>2
<1>13. ASSUME NEW S \in SUBSET Messages, NEW s \in Settling, CountFailure(c, S, s)
       PROVE  Flight(d)'
  <2>1. CASE IsOpen(c) /\ ErrorListener
    <3>1. (IF s = "requeueing" THEN "ready" ELSE "dropped") \in Places
      BY DEF Places
    <3> QED
      BY <1>13, <2>1, <3>1, FlightSettle DEF CountFailure
  <2>2. CASE ~(IsOpen(c) /\ ErrorListener)
    BY <1>13, <2>2, FlightExit DEF CountFailure
  <2> QED
    BY <2>1, <2>2
<1> QED
  BY <1>1, <1>2, <1>4, <1>5, <1>6, <1>7, <1>8, <1>9, <1>10, <1>11, <1>12, <1>13, FlightGet
  DEF Tick

LEMMA FaultFlight ==
  ASSUME Control, NEW c \in Consumers, Fault(c), NEW d \in Consumers, Flight(d)
  PROVE  Flight(d)'
<1>1. CASE BalanceFails(c)
  BY <1>1, FlightFatal DEF BalanceFails
<1>2. CASE ChannelError(c)
  BY <1>2, FlightFatal, FlightExit DEF ChannelError
<1>3. CASE Crash(c)
  BY <1>3, FlightExit DEF Crash
<1>4. ASSUME NEW S \in SUBSET Messages, NEW s \in Settling \cup {"counting"},
             CountFails(c, S, s)
      PROVE  Flight(d)'
  BY <1>4, FlightFatal DEF CountFails
<1> QED
  BY <1>1, <1>2, <1>3, <1>4 DEF Fault

\* A process is started with nothing held and nothing in a tick.
LEMMA BootFlight ==
  ASSUME Control, NEW c \in Consumers, Boot(c), NEW d \in Consumers, Flight(d)
  PROVE  Flight(d)'
<1>1. CASE c = d
  <2>1. \A m \in Messages : place[m] # c
    BY <1>1 DEF Boot, Held
  <2>2. \A m \in Messages : stage[c][m] = "none"
    BY DEF Boot, Alive, Control, StagedInv, WorkSteps, Phases
  <2> QED
    BY <1>1, <2>1, <2>2 DEF Boot, Flight
<1>2. CASE c # d
  BY <1>2, FlightSame DEF Boot, IsOpen, Control, TypeOK, BrokerTypeOK
<1> QED
  BY <1>1, <1>2

LEMMA CallFlight ==
  ASSUME Control, NEW c \in Consumers, Call(c) \/ Closing(c),
         NEW d \in Consumers, Flight(d)
  PROVE  Flight(d)'
<1>1. CASE ShutdownClose(c)
  BY <1>1, FlightSame DEF ShutdownClose, IsOpen, Control, TypeOK, BrokerTypeOK
<1>2. CASE (Call(c) /\ ~Boot(c)) \/ (Closing(c) /\ ~ShutdownClose(c))
  <2>1. UNCHANGED <<place, channel, stage>>
    BY <1>2 DEF Call, Closing, Cork, Uncork, Purge, Shutdown, ShutdownPurge, Died,
                brokerVars, consumerVars
  <2> QED
    BY <2>1, FlightSame DEF IsOpen
<1> QED
  BY <1>1, <1>2, BootFlight DEF Call

LEMMA WorldFlight ==
  ASSUME Control,
         \/ UNCHANGED vars
         \/ \E c \in Consumers : Returns(c)
         \/ \E m \in Messages : Published(m)
         \/ WindowEnds,
         NEW d \in Consumers, Flight(d)
  PROVE  Flight(d)'
<1>1. CASE WindowEnds \/ UNCHANGED vars
  BY <1>1, FlightSame DEF WindowEnds, vars, brokerVars, consumerVars, IsOpen
<1>2. ASSUME NEW c \in Consumers, Returns(c)
      PROVE  Flight(d)'
  <2>1. /\ ~IsOpen(c) /\ Settle(c, Messages, "ready")
        /\ UNCHANGED <<channel, stage>>
    BY <1>2 DEF Returns, Redeliver, consumerVars
  <2>2. c # d => \A m \in Messages : place'[m] = d <=> place[m] = d
    BY <2>1, PlacesAreFree DEF Settle, Held, Places
  <2> QED
    BY <2>1, <2>2 DEF Flight, IsOpen
<1>3. ASSUME NEW n \in Messages, Published(n)
      PROVE  Flight(d)'
  <2>1. \A m \in Messages : place'[m] = d <=> place[m] = d
    BY <1>3, PlacesAreFree
    DEF Published, Publish, Places, Control, TypeOK, BrokerTypeOK
  <2>2. UNCHANGED <<channel, stage>>
    BY <1>3 DEF Published, Publish, consumerVars
  <2> QED
    BY <2>1, <2>2 DEF Flight, IsOpen
<1> QED
  BY <1>1, <1>2, <1>3

LEMMA InitFlight == Init => FlightInv
<1> SUFFICES ASSUME Init
             PROVE  \A c \in Consumers : Flight(c)
  BY InitControl DEF FlightInv
<1> QED
  BY DEF Init, BrokerInit, Flight, IsOpen

LEMMA NextFlight == FlightInv /\ [Next]_vars => FlightInv'
<1> SUFFICES ASSUME FlightInv, [Next]_vars
             PROVE  FlightInv'
  OBVIOUS
<1>1. Control'
  BY NextControl DEF FlightInv
<1>2. ASSUME Callback # "none", NEW d \in Consumers
      PROVE  Flight(d)'
  <2>1. Control /\ Flight(d)
    BY <1>2 DEF FlightInv
  <2> QED
    BY <1>2, <2>1, TickFlight, FaultFlight, CallFlight, WorldFlight DEF Next
<1> QED
  BY <1>1, <1>2 DEF FlightInv

\* With a callback configured, what a consumer with an open channel holds
\* unacknowledged is what its tick still has to settle: no interleaving of
\* callbacks, nacks, fatal errors, shutdowns and restarts forgets a message
\* or settles one twice.
THEOREM UnackedIsSettledOnce == Spec => [](Callback # "none" => UnackedIsInFlight)
<1>1. FlightInv => (Callback # "none" => UnackedIsInFlight)
  BY FlightMeaning DEF FlightInv
<1> QED
  BY <1>1, InitFlight, NextFlight, PTL DEF Spec

-----------------------------------------------------------------------------
(* What is never dropped.                                                  *)

Undiscarded == Discard = {} /\ \A e \in Errors : e.reenqueue

\* Nothing was dropped, and no tick is about to drop a message.
Undropped ==
  \A m \in Messages : /\ place[m] # "dropped"
                      /\ \A c \in Consumers : stage[c][m] # "discarding"

DropInv == Control /\ (Undiscarded => Undropped)

LEMMA DropShrinks ==
  ASSUME Undropped, UNCHANGED place,
         \A d \in Consumers, m \in Messages : stage'[d][m] \in {"none", stage[d][m]}
  PROVE  Undropped'
BY DEF Undropped

LEMMA DropExit ==
  ASSUME Control, Undropped, NEW c \in Consumers, NEW R, NEW S, Exit(c, R, S)
  PROVE  Undropped'
BY DEF Undropped, Exit, Nothing, Control, TypeOK

LEMMA DropFatal ==
  ASSUME Control, Undropped, NEW c \in Consumers, NEW p, NEW W, NEW st,
         \A m \in Messages : st[m] \in {"none", stage[c][m]},
         HandleFatalError(c, p, W, st)
  PROVE  Undropped'
BY DropExit DEF Undropped, HandleFatalError, Control, TypeOK

\* Messages move on, and are settled or not, without being dropped.
LEMMA DropMove ==
  ASSUME Control, Undropped, NEW c \in Consumers, NEW S \in SUBSET Messages, NEW s,
         s # "discarding", Move(c, S, s), NEW p, p # "dropped",
         Settle(c, S, p) \/ UNCHANGED place
  PROVE  Undropped'
<1>1. \A d \in Consumers, m \in Messages :
        stage'[d][m] = IF d = c /\ m \in S THEN s ELSE stage[d][m]
  BY DEF Move, Control, TypeOK
<1>2. \A m \in Messages : place'[m] \in {p, place[m]}
  BY DEF Settle, Control, TypeOK, BrokerTypeOK
<1> QED
  BY <1>1, <1>2 DEF Undropped

LEMMA DropMoveOn ==
  ASSUME Control, Undropped, NEW c \in Consumers, NEW S \in SUBSET Messages, NEW s,
         s # "discarding", Move(c, S, s), UNCHANGED place
  PROVE  Undropped'
BY DropMove, "ready" # "dropped"

LEMMA DropNack ==
  ASSUME Control, Undropped, NEW c \in Consumers, NEW S \in SUBSET Messages,
         Nack(c, S, TRUE) \/ NackHeard(c, S, TRUE)
  PROVE  Undropped'
BY DropMove, DropExit DEF Nack, NackHeard

LEMMA TickDrop ==
  ASSUME Control, Undiscarded, Undropped, NEW c \in Consumers, Tick(c)
  PROVE  Undropped'
<1>1. CASE TickStart(c) \/ PhaseOver(c) \/ EndTick(c) \/ ReadBalance(c)
  <2>1. UNCHANGED <<place, stage>>
    BY <1>1 DEF TickStart, PhaseOver, EndTick, ReadBalance, brokerVars
  <2> QED
    BY <2>1, DropShrinks
<1>2. CASE GetFails(c)
  BY <1>2, DropExit DEF GetFails
<1>3. CASE GetSingleMessage(c)
  <2>1. ASSUME NEW m \in Messages, Deliver(c, m), Move(c, {m}, "got")
        PROVE  Undropped'
    <3>1. \A n \in Messages : place'[n] \in {c, place[n]}
      BY <2>1 DEF Deliver, Control, TypeOK, BrokerTypeOK
    <3>2. c # "dropped"
      BY PlacesAreFree DEF Places
    <3>3. \A d \in Consumers, n \in Messages : stage'[d][n] \in {"got", stage[d][n]}
      BY <2>1 DEF Move, Control, TypeOK
    <3> QED
      BY <3>1, <3>2, <3>3 DEF Undropped
  <2>2. CASE UNCHANGED <<place, stage>>
    BY <2>2, DropShrinks
  <2> QED
    BY <1>3, <2>1, <2>2 DEF GetSingleMessage, Ready
<1>4. pc[c] \in Phases => After[pc[c]] # "discarding"
  BY DEF Phases, After
<1>5. CASE PassThrough(c)
  BY <1>4, <1>5, DropMoveOn DEF PassThrough, brokerVars, In
<1>6. ASSUME NEW m \in Messages, HookPasses(c, m)
      PROVE  Undropped'
  BY <1>4, <1>6, ConfigAssumption, DropMoveOn DEF HookPasses, brokerVars
<1>7. ASSUME NEW m \in Messages, NEW e \in Errors, HookThrows(c, m, e)
      PROVE  Undropped'
  <2>1. HookRequeues(c, e) = TRUE
    BY DEF HookRequeues, Undiscarded
  <2> QED
    BY <1>7, <2>1, DropNack DEF HookThrows
<1>8. ASSUME NEW m \in Messages, ItemInvalid(c, m)
      PROVE  Undropped'
  <2>1. ("invalid" \notin Discard) = TRUE
    BY DEF Undiscarded
  <2>2. Nack(c, {m}, TRUE)
    BY <1>8, <2>1 DEF ItemInvalid
  <2> QED
    BY <2>2, DropNack
<1>9. CASE StartChunk(c)
  BY <1>9, DropMoveOn DEF StartChunk, Chunks, In, brokerVars
<1>10. CASE SpillOver(c)
  <2>1. \A d \in Consumers, m \in Messages : stage'[d][m] \in {"none", stage[d][m]}
    BY <1>10 DEF SpillOver, Nothing, Control, TypeOK
  <2> QED
    BY <1>10, <2>1, DropShrinks DEF SpillOver, brokerVars
<1>11. ASSUME NEW S \in SUBSET Messages, CallbackSucceeds(c, S) \/ Count(c, S)
       PROVE  Undropped'
  <2>1. CASE CallbackSucceeds(c, S) /\ IsOpen(c)
    <3>1. Settle(c, S, "acked") /\ Move(c, S, "counting")
      BY <2>1 DEF CallbackSucceeds
    <3> QED
      BY <3>1, DropMove
  <2>2. CASE CallbackSucceeds(c, S) /\ ~IsOpen(c)
    BY <2>2, DropExit DEF CallbackSucceeds
  <2>3. CASE Count(c, S)
    BY <2>3, DropMoveOn DEF Count, brokerVars
  <2> QED
    BY <1>11, <2>1, <2>2, <2>3
<1>12. ASSUME NEW S \in SUBSET Messages, NEW e \in Errors,
              CallbackFails(c, S, e) \/ CallbackFailsCounted(c, S, e)
       PROVE  Undropped'
  <2>1. e.reenqueue = TRUE
    BY ConfigAssumption DEF Undiscarded
  <2>2. CASE CallbackFails(c, S, e)
    BY <2>1, <2>2, DropNack DEF CallbackFails
  <2>3. CASE CallbackFailsCounted(c, S, e)
    <3>1. CASE PerItem \/ ErrorListener
      <4>1. Move(c, S, "requeueing") /\ UNCHANGED place
        BY <2>1, <2>3, <3>1 DEF CallbackFailsCounted, brokerVars
      <4> QED
        BY <4>1, DropMoveOn
    <3>2. CASE ~(PerItem \/ ErrorListener)
      BY <2>3, <3>2, DropExit DEF CallbackFailsCounted
    <3> QED
      BY <3>1, <3>2
  <2> QED
    BY <1>12, <2>2, <2>3
<1>13. ASSUME NEW S \in SUBSET Messages, NEW s \in Settling, CountFailure(c, S, s)
       PROVE  Undropped'
  <2>1. s = "requeueing"
    <3>1. S # {} /\ \A m \in S : m \in Messages /\ stage[c][m] = s
      BY <1>13, UnitsAreStaged DEF CountFailure, Stages
    <3> QED
      BY <3>1 DEF Undropped, Settling
  <2> QED
    BY <1>13, <2>1, DropMove, DropExit DEF CountFailure
<1> QED
  BY <1>1, <1>2, <1>3, <1>5, <1>6, <1>7, <1>8, <1>9, <1>10, <1>11, <1>12, <1>13 DEF Tick

LEMMA FaultDrop ==
  ASSUME Control, Undropped, NEW c \in Consumers, Fault(c)
  PROVE  Undropped'
<1>1. CASE BalanceFails(c)
  BY <1>1, DropFatal DEF BalanceFails
<1>2. CASE ChannelError(c)
  BY <1>2, DropFatal, DropExit DEF ChannelError
<1>3. CASE Crash(c)
  BY <1>3, DropExit DEF Crash
<1>4. ASSUME NEW S \in SUBSET Messages, NEW s \in Settling \cup {"counting"},
             CountFails(c, S, s)
      PROVE  Undropped'
  <2> DEFINE st == [m \in Messages |-> IF m \in S THEN "none" ELSE stage[c][m]]
  <2>1. /\ \A m \in Messages : st[m] \in {"none", stage[c][m]}
        /\ \A m \in Messages : Nothing[m] \in {"none", stage[c][m]}
    BY DEF Nothing
  <2>2. HandleFatalError(c, pc[c], S, st) \/ HandleFatalError(c, "idle", S, Nothing)
    BY <1>4 DEF CountFails
  <2> HIDE DEF st
  <2> QED
    BY <2>1, <2>2, DropFatal
<1> QED
  BY <1>1, <1>2, <1>3, <1>4 DEF Fault

LEMMA OutsideDrop ==
  ASSUME Control, Undropped,
         \/ UNCHANGED vars
         \/ \E c \in Consumers : Call(c) \/ Closing(c) \/ Returns(c)
         \/ \E m \in Messages : Published(m)
         \/ WindowEnds
  PROVE  Undropped'
<1>1. stage' = stage
  BY DEF vars, consumerVars, Call, Closing, Returns, Published, WindowEnds, Boot, Cork,
         Uncork, Purge, Shutdown, ShutdownPurge, ShutdownClose, Died
<1>2. \A m \in Messages : place'[m] \in {"ready", place[m]}
  BY DEF vars, brokerVars, Call, Closing, Returns, Published, WindowEnds, Boot, Cork,
         Uncork, Purge, Shutdown, ShutdownPurge, ShutdownClose, Died, Redeliver, Settle,
         Publish, Control, TypeOK, BrokerTypeOK
<1> QED
  BY <1>1, <1>2 DEF Undropped

LEMMA InitDrop == Init => DropInv
BY InitControl DEF DropInv, Undropped, Init, BrokerInit, Nothing

LEMMA NextDrop == DropInv /\ [Next]_vars => DropInv'
<1> SUFFICES ASSUME DropInv, [Next]_vars
             PROVE  DropInv'
  OBVIOUS
<1>1. Control'
  BY NextControl DEF DropInv
<1>2. ASSUME Undiscarded
      PROVE  Undropped'
  <2>1. Control /\ Undropped
    BY <1>2 DEF DropInv
  <2> QED
    BY <1>2, <2>1, TickDrop, FaultDrop, OutsideDrop DEF Next
<1>3. Undiscarded' = Undiscarded
  BY DEF Undiscarded
<1> QED
  BY <1>1, <1>2, <1>3 DEF DropInv

\* With discarding off and errors that ask for re-enqueueing, no order of
\* failures, closed channels, crashes and restarts drops a message.
THEOREM NothingIsDropped == Spec => []NothingDropped
<1>1. DropInv => NothingDropped
  BY DEF DropInv, Undiscarded, Undropped, NothingDropped
<1> QED
  BY <1>1, InitDrop, NextDrop, PTL DEF Spec
=============================================================================
