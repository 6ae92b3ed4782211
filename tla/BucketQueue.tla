---------------------------- MODULE BucketQueue ----------------------------
(***************************************************************************)
(* The consumer of src/RabbitMQToBucketQueue.ts: several processes take    *)
(* messages from one RabbitMQ queue and hand them to the application, with *)
(* a quota per window that they share through a coordinator.               *)
(*                                                                         *)
(* A step is what one process does between two awaits; steps of different  *)
(* processes, of the application, of the broker and of the clock           *)
(* interleave.  Two constants name the places where boot leaves a part of  *)
(* the class unreachable: LoopStarts (boot makes the first call of #tick)  *)
(* and Hooks (boot keeps the configured hooks).  The code as it is has     *)
(* LoopStarts = FALSE and Hooks = {}.                                      *)
(***************************************************************************)
EXTENDS RabbitBroker, CoordinatorStore

CONSTANTS
  ChunkSize,      \* chunkSize, at least 1
  Callback,       \* the callback configured: "onSpill", "onItem" or "none"
  LoopStarts,     \* whether boot makes the first call of #tick
  Hooks,          \* the configured hooks that boot keeps
  Discard,        \* the discardOn... options that are true
  Errors,         \* the errors a callback or a hook may throw
  ErrorListener,  \* whether the application listens to the 'error' event
  Env,            \* what the application and the environment may do
  MaxBoots        \* bound: how often one consumer is started

Phases == {"parsing", "validating"}
Calls == {"cork", "uncork", "purge", "shutdown"}
Faults == {"channelError", "coordinatorError", "crash"}

ASSUME ConfigAssumption ==
  /\ ChunkSize \in Nat \ {0}
  /\ Callback \in {"onSpill", "onItem", "none"}
  /\ LoopStarts \in BOOLEAN
  /\ Hooks \subseteq Phases
  /\ Discard \subseteq Phases \cup {"invalid"}
  /\ Errors \subseteq [reenqueue : BOOLEAN, counts : BOOLEAN]
  /\ ErrorListener \in BOOLEAN
  /\ Env \subseteq Calls \cup Faults
  /\ MaxBoots \in Nat

VARIABLES
  pc,         \* where consumer c's loop is
  corked,     \* #corked
  balance,    \* the balance the current tick started with
  asked,      \* channel.get calls of the current tick still unanswered
  stage,      \* stage[c][m]: what c's current tick is doing with m
  fatal,      \* how far #handleFatalError has come
  closing,    \* how far shutdown has come
  boots,      \* how often c was started
  delivered,  \* history: items that used quota since the window began
  lost        \* history: those of them that no process will ever count

consumerVars == <<pc, corked, balance, asked, stage, fatal, closing, boots>>
history == <<delivered, lost>>
vars == <<brokerVars, total, consumerVars, history>>

\* "scheduled" is a pending setImmediate; "idle" a process that runs with
\* no tick pending.
TickSteps == {"reading", "getting", "spilling", "ending"} \cup Phases
LoopStates == {"off", "idle", "scheduled", "dead"} \cup TickSteps

\* got, parsed, valid: fetched and waiting for the phase of that name to be
\* over; running: in the callback; counting: acknowledged and about to be
\* counted; requeueing, discarding: failed, about to be counted and then
\* nacked.
Settling == {"requeueing", "discarding"}
Stages == {"none", "got", "parsed", "valid", "running", "counting"}
            \cup Settling

In(c, s) == {m \in Messages : stage[c][m] = s}
Staged(c) == {m \in Messages : stage[c][m] # "none"}
Active(c) == Staged(c) \ (In(c, "got") \cup In(c, "parsed") \cup In(c, "valid"))
\* Items whose callback is over and whose increment is still to be made.
Owed(c) == {m \in Messages : stage[c][m] \in Settling \cup {"counting"}}
\* The quota c's tick may still use: gets to come and items in the tick.
Claim(c) == asked[c] + Cardinality(Staged(c))

Nothing == [m \in Messages |-> "none"]
Move(c, S, s) ==
  stage' = [stage EXCEPT ![c] = [m \in Messages |-> IF m \in S THEN s ELSE @[m]]]

Alive(c) == pc[c] \notin {"off", "dead"}
PerItem == Callback = "onItem"
\* What one call of the callback handles: a chunk, or an item.
Units(c, s) == IF PerItem THEN {{m} : m \in In(c, s)} ELSE {In(c, s)} \ {{}}

TypeOK ==
  /\ BrokerTypeOK
  /\ StoreTypeOK
  /\ pc \in [Consumers -> LoopStates]
  /\ corked \in [Consumers -> BOOLEAN]
  /\ balance \in [Consumers -> 0 .. MaxBatch]
  /\ asked \in [Consumers -> 0 .. MaxBatch]
  /\ stage \in [Consumers -> [Messages -> Stages]]
  /\ fatal \in [Consumers -> {"no", "handling", "died"}]
  /\ closing \in [Consumers -> {"no", "purge", "close", "done"}]
  /\ boots \in [Consumers -> 0 .. MaxBoots]
  /\ delivered \in Nat
  /\ lost \in Nat

Init ==
  /\ BrokerInit
  /\ StoreInit
  /\ pc = [c \in Consumers |-> "off"]
  /\ corked = [c \in Consumers |-> FALSE]
  /\ balance = [c \in Consumers |-> 0]
  /\ asked = [c \in Consumers |-> 0]
  /\ stage = [c \in Consumers |-> Nothing]
  /\ fatal = [c \in Consumers |-> "no"]
  /\ closing = [c \in Consumers |-> "no"]
  /\ boots = [c \in Consumers |-> 0]
  /\ delivered = 0
  /\ lost = 0

-----------------------------------------------------------------------------
(* The two ways a process is thrown out of its work.                       *)

\* Mutant: #handleFatalError without its channel.close().
CloseNothing(c) == UNCHANGED channel

CloseChannel(c) == channel' = [channel EXCEPT ![c] = "closed"]

\* The process ends in the middle of its work: a crash, or a rejection
\* nobody handles.  R are items whose callback had just returned, S items it
\* had just counted.
Exit(c, R, S) ==
  /\ pc' = [pc EXCEPT ![c] = "dead"]
  /\ CloseChannel(c)
  /\ asked' = [asked EXCEPT ![c] = 0]
  /\ stage' = [stage EXCEPT ![c] = Nothing]
  /\ Increment(Cardinality(S))
  /\ delivered' = delivered + Cardinality(R)
  /\ lost' = lost + Cardinality(R \cup (Owed(c) \ S))
  /\ UNCHANGED <<place, corked, balance, fatal, closing, boots>>

\* #handleFatalError up to its await.  Closing a closed channel throws, which
\* it reports as an 'error' event; without a listener that is fatal to the
\* process.  p is where the tick that met the error continues, W the items
\* whose count has failed, st the items that tick still works on.
HandleFatalError(c, p, W, st) ==
  IF IsOpen(c) \/ ErrorListener
    THEN /\ corked' = [corked EXCEPT ![c] = TRUE]
         /\ CloseChannel(c)
         /\ fatal' = [fatal EXCEPT ![c] = "handling"]
         /\ pc' = [pc EXCEPT ![c] = p]
         /\ stage' = [stage EXCEPT ![c] = st]
         /\ lost' = lost + Cardinality(W)
         /\ UNCHANGED <<place, total, balance, asked, closing, boots, delivered>>
    ELSE Exit(c, {}, {})

\* Its end, once the coordinator is shut down: the 'died' event.
Died(c) ==
  /\ Alive(c)
  /\ fatal[c] = "handling"
  /\ fatal' = [fatal EXCEPT ![c] = "died"]
  /\ UNCHANGED <<brokerVars, total, pc, corked, balance, asked, stage, closing,
                 boots, history>>

-----------------------------------------------------------------------------
(* The tick: reading the balance and fetching messages.                    *)

TickStart(c) ==
  /\ pc[c] = "scheduled"
  /\ pc' = [pc EXCEPT ![c] = "reading"]
  /\ UNCHANGED <<brokerVars, total, corked, balance, asked, stage, fatal,
                 closing, boots, history>>

\* Mutant: the guard without !this.#corked.
SpillsAnyway(c) == Balance > 0

\* The condition of the spill, read in the step that reads the balance.
Spills(c) == ~corked[c] /\ Balance > 0

ReadBalance(c) ==
  /\ pc[c] = "reading"
  /\ balance' = [balance EXCEPT ![c] = Balance]
  /\ \/ /\ Spills(c)
        /\ asked' = [asked EXCEPT ![c] = Balance]
        /\ pc' = [pc EXCEPT ![c] = "getting"]
     \/ /\ ~Spills(c)
        /\ pc' = [pc EXCEPT ![c] = "ending"]
        /\ UNCHANGED asked
  /\ UNCHANGED <<brokerVars, total, corked, stage, fatal, closing, boots, history>>

\* One of the balance-many channel.get calls is answered.
Answered(c) ==
  /\ asked' = [asked EXCEPT ![c] = @ - 1]
  /\ pc' = [pc EXCEPT ![c] = IF asked[c] = 1 THEN "parsing" ELSE @]
  /\ UNCHANGED <<channel, total, corked, balance, fatal, closing, boots, history>>

GetSingleMessage(c) ==
  /\ pc[c] = "getting"
  /\ IsOpen(c)
  /\ \/ \E m \in Ready : /\ Deliver(c, m)
                         /\ Move(c, {m}, "got")
     \/ /\ Ready = {}
        /\ UNCHANGED <<place, stage>>
  /\ Answered(c)

GetFails(c) ==
  /\ pc[c] = "getting"
  /\ ~IsOpen(c)
  /\ Exit(c, {}, {})

-----------------------------------------------------------------------------
(* The tick: deserializing, then validating.                               *)

Before == [parsing |-> "got", validating |-> "parsed"]
After == [parsing |-> "parsed", validating |-> "valid"]
Following == [parsing |-> "validating", validating |-> "spilling"]

\* Without a hook every item passes.
PassThrough(c) ==
  /\ pc[c] \in Phases \ Hooks
  /\ Move(c, In(c, Before[pc[c]]), After[pc[c]])
  /\ pc' = [pc EXCEPT ![c] = Following[pc[c]]]
  /\ UNCHANGED <<brokerVars, total, corked, balance, asked, fatal, closing,
                 boots, history>>

\* A nack that the channel refuses, or an error nobody listens to, rejects a
\* promise nobody handles.
Nack(c, S, requeue) ==
  IF IsOpen(c)
    THEN /\ Settle(c, S, IF requeue THEN "ready" ELSE "dropped")
         /\ Move(c, S, "none")
         /\ UNCHANGED <<channel, total, pc, corked, balance, asked, fatal,
                        closing, boots, history>>
    ELSE Exit(c, {}, {})

NackHeard(c, S, requeue) ==
  IF ErrorListener THEN Nack(c, S, requeue) ELSE Exit(c, {}, {})

HookPasses(c, m) ==
  /\ pc[c] \in Hooks
  /\ stage[c][m] = Before[pc[c]]
  /\ Move(c, {m}, After[pc[c]])
  /\ UNCHANGED <<brokerVars, total, pc, corked, balance, asked, fatal, closing,
                 boots, history>>

\* Mutant: the discard option passed as the requeue flag of nack.
HookRequeuesInverted(c, e) == pc[c] \in Discard

\* Whether a message goes back to the queue when the hook of the phase throws.
HookRequeues(c, e) == pc[c] \notin Discard \/ e.reenqueue

HookThrows(c, m, e) ==
  /\ pc[c] \in Hooks
  /\ stage[c][m] = Before[pc[c]]
  /\ NackHeard(c, {m}, HookRequeues(c, e))

ItemInvalid(c, m) ==
  /\ pc[c] \in Hooks \cap {"validating"}
  /\ stage[c][m] = "parsed"
  /\ Nack(c, {m}, "invalid" \notin Discard)

PhaseOver(c) ==
  /\ pc[c] \in Hooks
  /\ In(c, Before[pc[c]]) = {}
  /\ pc' = [pc EXCEPT ![c] = Following[pc[c]]]
  /\ UNCHANGED <<brokerVars, total, corked, balance, asked, stage, fatal,
                 closing, boots, history>>

-----------------------------------------------------------------------------
(* The tick: the callbacks.                                                *)

\* #chunk: the next ChunkSize items, or the fewer that are left.
Chunks(c) ==
  {S \in SUBSET In(c, "valid") :
     Cardinality(S) = IF Cardinality(In(c, "valid")) < ChunkSize
                        THEN Cardinality(In(c, "valid"))
                        ELSE ChunkSize}

StartChunk(c) ==
  /\ pc[c] = "spilling"
  /\ Callback # "none"
  /\ Active(c) = {}
  /\ In(c, "valid") # {}
  /\ \E S \in Chunks(c) : Move(c, S, "running")
  /\ UNCHANGED <<brokerVars, total, pc, corked, balance, asked, fatal, closing,
                 boots, history>>

\* The callback resolves: acknowledge, then count.  On a closed channel ack
\* throws, and so does the nack of the error handling that follows.
CallbackSucceeds(c, S) ==
  /\ S \in Units(c, "running")
  /\ IF IsOpen(c)
       THEN /\ Settle(c, S, "acked")
            /\ Move(c, S, "counting")
            /\ delivered' = delivered + Cardinality(S)
            /\ UNCHANGED <<channel, total, pc, corked, balance, asked, fatal,
                           closing, boots, lost>>
       ELSE Exit(c, S, {})

\* Mutant: the size of a full chunk counted, also for the last, shorter one.
CountChunkSize(c, S) ==
  /\ S \in Units(c, "counting")
  /\ Increment(ChunkSize)
  /\ Move(c, S, "none")
  /\ UNCHANGED <<brokerVars, pc, corked, balance, asked, fatal, closing, boots,
                 history>>

Count(c, S) ==
  /\ S \in Units(c, "counting")
  /\ Increment(Cardinality(S))
  /\ Move(c, S, "none")
  /\ UNCHANGED <<brokerVars, pc, corked, balance, asked, fatal, closing, boots,
                 history>>

CallbackFails(c, S, e) ==
  /\ S \in Units(c, "running")
  /\ ~e.counts
  /\ NackHeard(c, S, e.reenqueue)

\* A failure that counts toward the balance.  onSpill emits 'error' before
\* it counts, onItem after.
CallbackFailsCounted(c, S, e) ==
  /\ S \in Units(c, "running")
  /\ e.counts
  /\ IF PerItem \/ ErrorListener
       THEN /\ Move(c, S, IF e.reenqueue THEN "requeueing" ELSE "discarding")
            /\ delivered' = delivered + Cardinality(S)
            /\ UNCHANGED <<brokerVars, total, pc, corked, balance, asked, fatal,
                           closing, boots, lost>>
       ELSE Exit(c, S, {})

CountFailure(c, S, s) ==
  /\ S \in Units(c, s)
  /\ IF IsOpen(c) /\ ErrorListener
       THEN /\ Increment(Cardinality(S))
            /\ Settle(c, S, IF s = "requeueing" THEN "ready" ELSE "dropped")
            /\ Move(c, S, "none")
            /\ UNCHANGED <<channel, pc, corked, balance, asked, fatal, closing,
                           boots, history>>
       ELSE Exit(c, {}, S)

\* The increment fails.  The loop of onSpill returns from the tick; onItem
\* returns from one item's callback, and the tick goes on.
CountFails(c, S, s) ==
  /\ "coordinatorError" \in Env
  /\ S \in Units(c, s)
  /\ IF PerItem
       THEN HandleFatalError(c, pc[c], S,
              [m \in Messages |-> IF m \in S THEN "none" ELSE stage[c][m]])
       ELSE HandleFatalError(c, "idle", S, Nothing)

\* The loop over the chunks is over; without a callback there is none, and
\* the tick forgets the messages it holds.
SpillOver(c) ==
  /\ pc[c] = "spilling"
  /\ Callback = "none" \/ Staged(c) = {}
  /\ pc' = [pc EXCEPT ![c] = "ending"]
  /\ stage' = [stage EXCEPT ![c] = Nothing]
  /\ UNCHANGED <<brokerVars, total, corked, balance, asked, fatal, closing,
                 boots, history>>

\* Mutant: a tick that found no quota does not schedule the next.
AfterSpill(c) == IF corked[c] \/ balance[c] = 0 THEN "idle" ELSE "scheduled"

AfterTick(c) == IF corked[c] THEN "idle" ELSE "scheduled"

EndTick(c) ==
  /\ pc[c] = "ending"
  /\ pc' = [pc EXCEPT ![c] = AfterTick(c)]
  /\ UNCHANGED <<brokerVars, total, corked, balance, asked, stage, fatal,
                 closing, boots, history>>

\* Either read of the balance fails.
BalanceFails(c) ==
  /\ "coordinatorError" \in Env
  /\ pc[c] \in {"reading", "ending"}
  /\ HandleFatalError(c, "idle", {}, stage[c])

-----------------------------------------------------------------------------
(* The application: starting, corking, purging, shutting down.             *)

\* #doBoot.  It opens the channel; nothing in it calls #tick.  A process is
\* started again only when the broker has taken back what its previous
\* channel held.
Boot(c) ==
  /\ ~Alive(c)
  /\ boots[c] < MaxBoots
  /\ Held(c) = {}
  /\ boots' = [boots EXCEPT ![c] = @ + 1]
  /\ channel' = [channel EXCEPT ![c] = "open"]
  /\ pc' = [pc EXCEPT ![c] = IF LoopStarts THEN "scheduled" ELSE "idle"]
  /\ corked' = [corked EXCEPT ![c] = FALSE]
  /\ balance' = [balance EXCEPT ![c] = 0]
  /\ fatal' = [fatal EXCEPT ![c] = "no"]
  /\ closing' = [closing EXCEPT ![c] = "no"]
  /\ UNCHANGED <<place, total, asked, stage, history>>

\* Mutant: cork without its clearImmediate.
DoCorkOnly(c) ==
  /\ corked' = [corked EXCEPT ![c] = TRUE]
  /\ UNCHANGED pc

\* cork cancels a pending tick and leaves a tick in progress alone.
DoCork(c) ==
  /\ corked' = [corked EXCEPT ![c] = TRUE]
  /\ pc' = [pc EXCEPT ![c] = IF @ = "scheduled" THEN "idle" ELSE @]

Cork(c) ==
  /\ "cork" \in Env
  /\ Alive(c)
  /\ DoCork(c)
  /\ UNCHANGED <<brokerVars, total, balance, asked, stage, fatal, closing,
                 boots, history>>

\* The function uncork gives to process.nextTick binds #tick and does not
\* call it.
Uncork(c) ==
  /\ "uncork" \in Env
  /\ Alive(c)
  /\ corked' = [corked EXCEPT ![c] = FALSE]
  /\ UNCHANGED <<brokerVars, total, pc, balance, asked, stage, fatal, closing,
                 boots, history>>

\* A new window: the quota is whole again, and the history starts over.
NewWindow ==
  /\ ResetTotal
  /\ delivered' = 0
  /\ lost' = 0

Purge(c) ==
  /\ "purge" \in Env
  /\ Alive(c)
  /\ NewWindow
  /\ UNCHANGED <<brokerVars, consumerVars>>

\* shutdown up to its waits: one call at a time, and again once it is over.
Shutdown(c, purge) ==
  /\ "shutdown" \in Env
  /\ Alive(c)
  /\ closing[c] \in {"no", "done"}
  /\ DoCork(c)
  /\ closing' = [closing EXCEPT ![c] = IF purge THEN "purge" ELSE "close"]
  /\ UNCHANGED <<brokerVars, total, balance, asked, stage, fatal, boots, history>>

ShutdownPurge(c) ==
  /\ Alive(c)
  /\ closing[c] = "purge"
  /\ \/ /\ NewWindow
        /\ closing' = [closing EXCEPT ![c] = "close"]
     \/ /\ "coordinatorError" \in Env
        /\ closing' = [closing EXCEPT ![c] = "no"]
        /\ UNCHANGED <<total, history>>
  /\ UNCHANGED <<brokerVars, pc, corked, balance, asked, stage, fatal, boots>>

ShutdownClose(c) ==
  /\ Alive(c)
  /\ closing[c] = "close"
  /\ closing' = [closing EXCEPT ![c] = "done"]
  /\ channel' = [channel EXCEPT ![c] = "closed"]
  /\ UNCHANGED <<place, total, pc, corked, balance, asked, stage, fatal, boots,
                 history>>

-----------------------------------------------------------------------------
(* The environment: faults, the clock, publishers and the broker.          *)

\* The broker closes the channel with an error; the 'error' handler of the
\* channel runs.
ChannelError(c) ==
  /\ "channelError" \in Env
  /\ Alive(c)
  /\ IsOpen(c)
  /\ IF ErrorListener
       THEN HandleFatalError(c, IF pc[c] = "scheduled" THEN "idle" ELSE pc[c],
                             {}, stage[c])
       ELSE Exit(c, {}, {})

Crash(c) ==
  /\ "crash" \in Env
  /\ Alive(c)
  /\ \E R \in Units(c, "running") \cup {{}} : Exit(c, R, {})

\* The window ends: the interval timer of the coordinator.
WindowEnds ==
  /\ total + delivered + lost > 0
  /\ NewWindow
  /\ UNCHANGED <<brokerVars, consumerVars>>

\* What the loop of consumer c does next, the callbacks it calls included.
Tick(c) ==
  \/ TickStart(c) \/ ReadBalance(c) \/ GetSingleMessage(c) \/ GetFails(c)
  \/ PassThrough(c) \/ PhaseOver(c)
  \/ \E m \in Messages : HookPasses(c, m) \/ ItemInvalid(c, m)
  \/ \E m \in Messages, e \in Errors : HookThrows(c, m, e)
  \/ StartChunk(c) \/ SpillOver(c) \/ EndTick(c)
  \/ \E S \in SUBSET Messages :
       \/ CallbackSucceeds(c, S) \/ Count(c, S)
       \/ \E e \in Errors : CallbackFails(c, S, e) \/ CallbackFailsCounted(c, S, e)
       \/ \E s \in Settling : CountFailure(c, S, s)

Fault(c) ==
  \/ BalanceFails(c) \/ ChannelError(c) \/ Crash(c)
  \/ \E S \in SUBSET Messages, s \in Settling \cup {"counting"} : CountFails(c, S, s)

Call(c) ==
  \/ Boot(c) \/ Cork(c) \/ Uncork(c) \/ Purge(c)
  \/ \E purge \in BOOLEAN : Shutdown(c, purge)

Closing(c) == ShutdownPurge(c) \/ ShutdownClose(c) \/ Died(c)

Returns(c) == Redeliver(c) /\ UNCHANGED <<total, consumerVars, history>>
Published(m) == Publish(m) /\ UNCHANGED <<total, consumerVars, history>>

Next ==
  \/ \E c \in Consumers : Tick(c) \/ Fault(c) \/ Call(c) \/ Closing(c) \/ Returns(c)
  \/ \E m \in Messages : Published(m)
  \/ WindowEnds

Spec == Init /\ [][Next]_vars

\* The event loop of a process keeps running, and what it awaits answers;
\* the broker takes back what a closed channel held; the interval timer
\* fires.  Nothing makes the application call, publish or start a process.
Fairness ==
  /\ \A c \in Consumers : WF_vars(Tick(c)) /\ WF_vars(Closing(c)) /\ WF_vars(Returns(c))
  /\ WF_vars(WindowEnds)

FairSpec == Spec /\ Fairness

-----------------------------------------------------------------------------
(* Properties.                                                             *)

\* The quota consumer c may still use, as a set of numbered slots.
Slots == {s \in Consumers \X (1 .. MaxBatch) : s[2] <= Claim(s[1])}

\* What is counted and what running ticks may still count together never
\* exceed one quota per consumer: the read of the balance and the increments
\* of lines 342 and 429-475 are far apart, and between them every other
\* consumer may read the same balance.
QuotaBound == total + Cardinality(Slots) <= MaxBatch * Cardinality(Consumers)

\* The items every consumer still has to count, as numbered slots.
Owing == {s \in Consumers \X (1 .. MaxBatch) : s[2] <= Cardinality(Owed(s[1]))}

\* Every item whose callback used quota is counted, about to be counted, or
\* was lost with its process or its coordinator.
Accounted == delivered <= total + Cardinality(Owing) + lost

\* Between two resets, the items that used quota never exceed one quota per
\* consumer plus the items whose count was lost (README.md:4, weakened to
\* what the code guarantees).
RateBound == delivered <= MaxBatch * Cardinality(Consumers) + lost

\* The starts of consumers that are over: their channel has closed.
Ended ==
  {s \in Consumers \X (1 .. MaxBoots) :
     s[2] <= boots[s[1]] /\ (IsOpen(s[1]) => s[2] < boots[s[1]])}

\* Each start of a consumer loses the count of one quota at most, and only
\* when its channel closes or later: a tick that goes on after a fatal error
\* (lines 466-481), an uncork or a crash in that state loses no more.
LossBound == lost <= MaxBatch * Cardinality(Ended)

\* The rate limit itself, "not exceeded", by several instances (README.md:4)
\* or "even if the consumer process is restarted" (README.md:27): at most one
\* quota per window.
RateLimit == delivered <= MaxBatch

\* While its channel is open, a consumer holds unacknowledged exactly the
\* messages its current tick still has to settle: no path through a tick
\* forgets a message, and none acks or nacks one twice.
UnackedIsInFlight ==
  \A c \in Consumers : IsOpen(c) => Held(c) = Staged(c) \ In(c, "counting")

\* A corked consumer has no tick pending: cork clears the immediate, and a
\* tick that ends after cork, in the fatal error handler or by the
\* application, does not schedule the next.
CorkedIsUnscheduled == \A c \in Consumers : corked[c] => pc[c] # "scheduled"

\* From cork to uncork a consumer takes no more quota: a tick in progress
\* finishes what it had claimed, and one that reads its balance after cork
\* claims nothing.
CorkedTakesNoMore ==
  [][\A c \in Consumers : corked[c] /\ corked'[c] => Claim(c)' <= Claim(c)]_vars

\* With discarding off and errors that ask for re-enqueueing, no crash, no
\* closed channel and no failing coordinator makes a message leave the queue
\* without a callback that succeeded.
NothingDropped ==
  (Discard = {} /\ \A e \in Errors : e.reenqueue)
    => \A m \in Messages : place[m] # "dropped"

\* A message a consumer holds does not stay with it for ever: it is settled,
\* or its channel closes and it returns to the queue.
TakenIsSettled ==
  \A c \in Consumers, m \in Messages : place[m] = c ~> place[m] # c

\* Consumer c runs and neither the application nor a fault has stopped it.
Running(c) == Alive(c) /\ ~corked[c] /\ fatal[c] = "no" /\ closing[c] = "no"

\* As long as some consumer runs, every message on the queue is settled for
\* good, however the other consumers crash, die or are shut down, provided
\* failed items are not put back.
NoStarvation ==
  \A m \in Messages :
    place[m] = "ready" /\ (\E c \in Consumers : Running(c))
      ~> place[m] \in {"acked", "dropped"} \/ \A c \in Consumers : ~Running(c)

-----------------------------------------------------------------------------
(* Statements of the documentation that the code does not keep.            *)

\* "a looped event which is run back to back until corked (paused)", and
\* "Resume the BucketQueue by uncorking it": a consumer that is started and
\* not corked ticks again and again.
TicksUntilCorked ==
  \A c \in Consumers :
    Alive(c) /\ ~corked[c] ~> pc[c] \in TickSteps \/ corked[c] \/ ~Alive(c)

\* "This method should allow the process to exit gracefully": a process that
\* shuts down is not ended by a rejection nobody handles.
ShutdownIsGraceful ==
  \A c \in Consumers : closing[c] # "no" => pc[c] # "dead"
=============================================================================
