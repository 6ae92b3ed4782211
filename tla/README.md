# A TLA+ model of rabbitmqtobucketqueue

The program takes messages from a RabbitMQ queue and hands them to the
application at a limited rate: at most `maxBatch` items in every `interval`,
by one process or by several that share the count through a coordinator.  This
directory holds a model of it, the instances TLC checks, and theorems TLAPS
proves.  Line numbers without a file are those of
`src/RabbitMQToBucketQueue.ts`.

## The system

| Component | State | Operations | Module |
| --- | --- | --- | --- |
| Consumer, `src/RabbitMQToBucketQueue.ts` | `#corked`, `#immediate`, `#channel`, and what the `#tick` in progress holds | `initialize`, `cork`/`pause`, `uncork`/`resume`, `purge`, `shutdown`, `#tick`, `#handleFatalError` | `BucketQueue` |
| Coordinator contract and memory coordinator, `src/coordinators/memory.ts` | `#total` | `balance`, `increment`, `reset`, the interval timer | `CoordinatorStore` |
| RabbitMQ queue and channel (a service) | which message is where, whether a channel is open | get, ack, nack, close, redelivery | `RabbitBroker` (external) |
| Database and Redis coordinators | rows with `expires_at`, keys with a time to live | the same contract; the window slides | `SlidingBucket` |
| MQTT coordinator, `coordinators/mqtt.ts` | a `#store` per process, fed by retained messages; whether it is connected and ready | the same contract, `#onConnection`, `#onMessage`, `#onClose`, `#onError` | `MqttStore` |
| Lite coordination, `CoordinationClient`, `CoordinationServer`, `coordinators/lite.ts` | a `MemoryCoordinator` per queue in the server, the last balance heard in each client | coordinate, increment, reset, ping, broadcasts every 100 ms | `LiteCoordination` |
| Boot of both classes | `#connection`, `#channel`, the queue at the broker | `initialize`, `#doBoot`, `#getRabbitMQQueue`, `#handleFatalError` | `Startup` |
| Producer, `src/ToRabbitMQBucketQueue.ts` | `#booted`, `#channel` | `enqueue`, `shutdown` | `Producer` |
| Validation of the configuration | none | which configurations boot accepts | in `Startup` |
| Encryption of the lite messages | none | encrypt, decrypt with purpose and expiry | not modelled; an expired message is in `LiteCoordination` |
| `rabbitmq/Client.ts` | a connection | connect, close; nothing uses it | not modelled |
| `bin/` | none | start a server, run the tests: pure I/O | not modelled |

Consumers call the coordinator (`balance`, `increment`, `reset`, `shutdown`)
and the channel (`get`, `ack`, `nack`, `close`); the channel calls back with
`error`; the consumer calls the application (`onSpill`, `onItem`, the events)
and the application calls the consumer.  Consumers meet only in the broker and
in the coordinator's count.

What is hard: a tick is a chain of a dozen awaits, and at each of them another
process may read the same balance, the application may cork, purge or shut
down, the channel may close, the coordinator may fail, the window may end and
the process may die.  `PROJECT.json` lists these hazards by line.  Correctness
means, for the consumer: the quota of a window is not exceeded, or by no more
than can be stated; no message is lost or settled twice; cork stops the loop;
the queue drains.  For a coordinator: the balance counts what was incremented
since the window began.  For the lite and MQTT coordinators: every process
learns of an increment, and none is forgotten without a trace.  For boot: the
end of a channel is heard, and the queue is there before the first item.  For the
producer: the answers of `enqueue` tell which items are on the queue, in which
order.

## The modules

`RabbitBroker` holds `place` (where each message is: unpublished, ready, held
by a consumer, acked, dropped) and `channel`.  It is modelled from how the
class uses amqplib: a get returns some ready message or none, an ack or a nack
of a message the channel holds settles it, a closed channel's messages return
to the queue.  Order of delivery is left out; no property depends on it.

`CoordinatorStore` is the arithmetic of `memory.ts`, the class the lite server
keeps for each queue, and so the behaviour that every driver is meant to offer
to several processes.  One store is shared by all consumers; with a coordinator
private to its process (the memory driver in the consumer itself) an instance
with one consumer is the faithful one.  Reads and increments are single steps.

`BucketQueue` extends both and is the consumer.  One step is what a process
does between two awaits.

| Model | Code |
| --- | --- |
| `pc = "idle"`, `"scheduled"` | no `#immediate` pending, and one pending |
| `TickStart`, `ReadBalance` | 339-353; the condition of 348 is read in the step that reads the balance |
| `GetSingleMessage`, `GetFails` | 351-355, 516-522: `asked` counts the gets not yet answered |
| `pc` in `Phases`, `stage` got, parsed, valid | 356-382 deserializing, 383-416 validating; items of a phase finish in any order |
| `StartChunk`, stage running | 420-426, 455-462: the next chunk enters the callback |
| `CallbackSucceeds`, `Count` | ack at 427/463, then increment at 429/465 |
| `CallbackFails`, `CallbackFailsCounted`, `CountFailure` | 435-453, 471-488, with the different orders of count and `error` event |
| `CountFails`, `BalanceFails`, `ChannelError` | the ways into `#handleFatalError` (552-576), up to its await; `Died` is its end |
| `EndTick`, `AfterTick` | 494-514 |
| `Boot` | `#doBoot` 234-337 |
| `Cork`, `Uncork`, `Purge`, `Shutdown*` | 163-232; `pause` and `resume` are the same calls |
| `Exit` | the process ends: a crash, or a promise rejected with no handler, which ends a Node.js process |

With `onSpill` a unit of work is a chunk (`Units`), with `onItem` an item, and
the items of a chunk run concurrently.  `stage[c][m]` is what the tick of
consumer `c` still has to do with message `m`; it is the model's form of the
local variables of `#tick`.

`delivered` and `lost` are history, not program state: how many items used
quota since the window began, and how many of those no process will ever count
because the process died or the increment failed in between.  A window begins
when the interval timer fires or the coordinator is reset.  `Ended` is the
starts of consumers whose channel has closed, by a shutdown, a fault or an
exit; unlike `lost` it is not per window.

Details worth knowing:

* `amqplib` throws when a closed channel is used.  `ack`, `nack` and `get` on a
  closed channel are therefore rejections; where the code has no handler left,
  the model ends the process.  Calling `close` on a closed channel throws too,
  which is what the `try` of 556 expects; closing a closed connection is taken
  to be harmless.
* An `error` event without a listener throws at the `emit`.  `ErrorListener`
  says whether the application has one.
* `Boot` starts a process again only when the broker has taken back what the
  earlier channel held; the broker notices the dead connection first.
* `shutdown` may be called again once a call of it is over; two overlapping
  calls are left out.
* The options, the callback and the errors it throws are constants.  An error
  is a pair of flags, those of `ReEnquableError`; an ordinary error has neither.

Two constants name parts of the class that boot leaves unreachable.  No code
makes the first call of `#tick`, and `#deserializeItem` and `#validateItem` are
never assigned.  In the code as it is, `LoopStarts = FALSE` and `Hooks = {}`.
The run `Boot` uses that.  The other runs set `LoopStarts = TRUE`, and
`ItemHooks` sets `Hooks` to both phases, so that the written but unreachable
code is examined as well.

`Bucket` is the abstract specification of a consumer: without queue, channel,
callbacks or calls, only what it owes the coordinator.  Quota is taken when the
consumer holds none and owes no count, used, and then counted once or lost.
`BucketRefinement` says how `BucketQueue` implements it: `claim` is the gets
still awaited and the messages of the tick that have not used their quota,
`owed` the messages acknowledged or failed and not yet counted.

`SlidingBucket` is the database and the Redis coordinator with consumers that
keep `Bucket`'s discipline.  Time is a number of ticks; a slot stands for one
use of quota and is free again when the use is out of every window.

| Model | Code |
| --- | --- |
| `Read` | `#getBalance` of database.ts 78-99, one query, by the clock of the reader |
| `Keys`, `Mget` | `#getBalance` of redis.ts 81-94, with everything that may happen in between; a key that is gone makes the sum NaN, and a balance of NaN starts no get (consumer 348) |
| `Increment`, `Insert` | database.ts 38-47, where the expiry is computed before the INSERT arrives; redis.ts 52-56 in one step |
| `ResetEntries`, `ResetKeys`, `ResetDel` | database.ts 52-55, redis.ts 61-68 |
| `Use`, `GiveBack`, `IncrementFails` | the consumer 358-479 |
| `skew`, `Clock` | `DateTime.utc()` in the process that writes (43) or reads (79) |

`LiteCoordination` is the lite driver, its client and the server, whose counter
is a `CoordinatorStore`.  Messages travel in order on each link, in bounded
number; what a client emits while the link is down waits in socket.io's buffer
and is sent before the `connect` handler runs.

| Model | Code |
| --- | --- |
| `Connect` | `#onSocketConnect` (server 70-85), and the client's `connect` handler (51-58) |
| `HandleCoordinate`, `HandleIncrement`, `HandleReset`, `InvalidEvent` | `#onSocketEvent` (91-133) and the three methods below it |
| `OnInterval` | server 63-68; the `setImmediate` of 169 and 184 calls the same function |
| `WindowEnds` | the interval of the `MemoryCoordinator` |
| `Receive` | the client's `onAny` handlers (43-50, 70-78) |
| `Read`, `Spend`, `Purge` | lite.ts 41-64 with client 68-104; `waiting` is the await of 83 |
| `Disconnect`, `ServerRestarts` | faults; the server forgets its `Map`s |

`MqttStore` is the MQTT driver.  An entry is one increment of one item.
`inbox` is what the broker still sends a process, in any order; `Answer` is
what a read of the balance would be told.  `raced` is history: whether a reset
of this process overlapped with an entry that came in, or could not clear an
entry at the broker.  The callbacks of `publish` ignore their error, so a
publish that fails is an increment or a clearing of this process alone.

| Model | Code (mqtt.ts) |
| --- | --- |
| `Connects`, `Closes`, `ErrorEnds` | 208-239, 257-261, 263-265 |
| `Unsubscribes`, `Leaves` | 134-154, 155-160: `conn[c] = "leaving"` between the two |
| `Increment`, `Arrives`, `Confirmed` | 70-101, the broker, 103-107 |
| `Refused`, `IncrementUnsent` | 98-107 after a publish that the broker refuses, or that `end()` has made fail |
| `OnMessage`, `MakesReady` | 241-255, 39-44 |
| `ReadBalance`, `Answer` | 183-206 |
| `ResetStarts`, `Clears`, `ResetEnds` | 112-119, 120-127, 128 |
| `ClearRefused`, `ResetUnsent` | 120-128 after such a publish; 112-129 in one step after `end()` |

`Startup` is how an instance of either class comes up: the two classes have the
same code here but for the coordinator.  One step ends at each await of
`initialize`; each may fail.  `ChannelError` and `ConnectionError` run the
fatal error handler up to its first await.  The producer's has none; a
consumer's that is up awaits the shutdown of its coordinator (567-574), and
`Dies` is what follows, if that ever settles.  `death` is what the application
can have heard: nothing while `initialize` has not resolved (`"missed"`),
`"fatal"` before the await, `"died"` at the end.  While the coordinator is
still coming up the handler has none to shut down and runs through.

`Producer` extends `Startup` with `enqueue` and the broker's side of a channel:
`wire` is what was sent and not read, `answers` the confirms under way, `queue`
the items in the order the queue got them.  `fate[k][n]` is how far item `n` of
call `k` is; `Send`, `SerializerThrows` and `Confirmed` are what follows the
awaits of `#enqueueAndAwait` (83-116), and `Advance` is the loop of 66-68.

`Repairs` does for these two what `LoopStarts` and `Hooks` do for the consumer.
In the code as it is `Repairs = {}`: no configuration without `rmqChannel` is
accepted, `#booted` is never set, and `serializeItem` is never kept, so neither
the own channel nor `enqueue` can be reached.  The run takes all three as
mended, to examine the code behind them; the theorems hold for any `Repairs`.
`Requests[k]` says what call `k` of `enqueue` may be made with.

`Delivery` is the abstract specification of `enqueue`: without boot, channels,
confirms or serializers.  An item is held, sent once, then on the queue,
dropped or gone; its caller is told once, of an id, an error or a rejection; an
item is sent in its turn and arrives behind what has to precede it.  What an
answer means is in the guards: an id on a confirm channel says that the item is
queued or dropped, an error or the rejection of a sent item does not say that
it is not (`Fail`).  `DeliveryRefinement` reads `place` and `told` off the
state of `Producer`.

The MC modules give the instances.  The theorems are in `BucketQueueProofs`,
`CorkProofs`, `InFlightProofs`, `RefinementProofs`, `SlidingProofs`,
`LiteProofs`, `MqttProofs` and `ProducerProofs`.

## The runs

The first seven use `MCBucketQueue`.  Deadlock is checked in `Sliding`, `Lite`
and `LiteConfirm`, where something can always happen.  Elsewhere the system
really stops: processes and clients may be dead or ended for good, and calls,
entries and starts are used up.

| Run | Instance | Shows |
| --- | --- | --- |
| `SpillFaults` | 2 consumers, 2 messages, quota 2, chunks of 2, all errors, all faults | `QuotaBound`, `RateBound`: what several consumers keep of the quota; `UnackedIsInFlight`: what a consumer holds unacknowledged is exactly what its tick still works on; `ImplementsBucket` |
| `ItemHooks` | 1 consumer started up to twice, 3 messages, quota 2, chunks of 2, `onItem`, both hooks, all calls and faults | `RateBound`: one consumer keeps the quota but for the items whose count its ends lost; `Accounted`: no use of quota goes unrecorded; `LossBound`: closing a channel costs at most one quota of uncounted uses; `NothingDropped`: with discarding off nothing leaves the queue but by a success; `UnackedIsInFlight` item by item; `ImplementsBucket` |
| `Calls` | 2 consumers, 2 messages, all calls, no `error` listener | `CorkedIsUnscheduled`, `CorkedTakesNoMore`: what cork guarantees at any point of a tick |
| `Liveness` | 2 consumers, 2 messages, quota 1, cork, crashes and coordinator errors | `TakenIsSettled`, `NoStarvation` |
| `TwoConsumers` | 2 consumers, quota 1 | violates `RateLimit` (README.md:4) |
| `Boot` | `LoopStarts = FALSE` | violates `TicksUntilCorked` (contracts/RMQBQ.ts:215) |
| `Shutdown` | shutdown during a tick | violates `ShutdownIsGraceful` (207) |
| `Sliding` | 2 consumers, 3 slots, quota 1, intervals of 2 ticks, clocks up to 1 tick apart, both drivers, one fault | `WindowBound`: no interval, wherever it begins, has more than a quota of one consumer; `CountsAreSeen`: no read gives out what another has counted; `QuotaComesBack` |
| `Lite` | 2 clients, quota 1, one message under way each way of a link, two uses in a window, one fault | `UsesAreAccounted`: nothing is forgotten silently; `FaultlessIsCounted`: while no link broke and the server lived, every use made is counted or on its way; `NeverRefused`; `IncrementReturns`; `Converges`: everybody learns a balance that stays |
| `LiteConfirm` | 1 client, two messages under way | violates `ConfirmedIsCounted` (tests/coordinators/lite-coordinator.spec.ts:49-50) |
| `Mqtt` | 2 processes, 2 increments, quota 1, one fault, refusal or shutdown | `NothingIsMissed`: a connected process counts or is about to hear what the broker retains; `OwnIsCounted`; `ReadyOnceHeard`; `AnswersLeaveRoom`: no process is told of quota that a retained entry uses, unless it is about to hear of that entry, or a reset of its own overlapped or failed |
| `Producer` | 1 producer with 3 configurations and calls of 2 items (any flags) and 1 item (no flags), 1 consumer with its own channel (Redis) or a given one (memory), all repairs | `DeathIsHeard`: whoever comes up hears of the end of its channel, by 'fatal' at least, except a consumer whose connection breaks while its coordinator comes up; `OwnIsRouted` for boot; `ConfirmedIsHeld`, `OrderIsKept`, `RejectedStops`, `CallsSettle` and `ImplementsDelivery` for `enqueue` |

`TwoConsumers`, `Boot`, `Shutdown` and `LiteConfirm` check what a document or a
test says and the code does not do; the findings in `PROJECT.json` quote the
lines, and list further differences that need no run to be seen.

Bounds.  Two consumers are the least that can claim the same quota.  Two
messages with a quota of two make chunks of one and of two items, a full and a
partial fetch, and a claim left over; with three messages and a quota of two a
message waits for the next window.  With two consumers `MaxBoots = 1` starts
each once: a crash and the redelivery need no more, since the other takes over.
With one consumer `MaxBoots = 2` lets it come back.  `Calls` uses two of the
four kinds of errors; what a consumer does about cork does not depend on them.  Symmetry over messages, consumers and entries is used in safety runs only.
In `Sliding` three slots let a use be in its window, one be over but not yet
expired for everybody, and one be made.  In `Lite` one message each way is
under way besides what a connection adds (`Introduces`, the first balance):
an increment still meets a balance sent before it.  One fault lets a client come
back after the server has forgotten the queue.  In `Mqtt` the second increment
is the one that races with the first's echo, expiry or reset; `MaxFaults`
counts shutdowns and refused publishes as well as lost connections, errors and
crashes, and the theorems hold for any number of each.  In `Producer` a
call of two items has an order, and a second call can overtake it; the flags of
the second change nothing that those of the first do not show, so it has none.

Fairness (`FairSpec`).  The event loop of a live process keeps running and what
it awaits (the coordinator, the channel, the callbacks) answers, so `Tick` and
`Closing` are weakly fair for each consumer; the broker takes back what a
closed channel held; the interval timer fires.  Nothing is assumed of the
application, of publishers or of faults.  `NoStarvation` is stated for failed
items that are not put back: an item that always fails and is always put back
never settles.

In `Sliding` the ticks go on, the store answers and time passes; nobody has to
reset.  In `Lite` socket.io connects again and delivers what is on a link that
stays, the server works off what it got, its 100 ms timer fires, and ticks end;
broken links, restarts and the end of a window are not assumed.  In `Producer`
a serializer comes to an end, and the broker reads a channel and answers;
`CallsSettle` leaves out producers that lost their channel, because amqplib
need not call the callbacks that wait for a confirm then.

## The proofs

The first four proof modules prove, for every number of consumers and messages, every
quota and chunk size, every set of hooks, errors, faults and calls:

* `TypeCorrect`: `Spec => []TypeOK`.
* `ControlIsInvariant`: `Control`, the type invariant and the facts about the
  loop: gets are outstanding exactly while it fetches (`AskedInv`), messages
  are in a tick only while it works, and past the start of a callback only
  while it spills (`StagedInv`).
* `QuotaIsBounded`: `Spec => []QuotaBound`.
* `QuotaIsAccounted`: `Spec => []Accounted`.
* `RateIsBounded`: `Spec => []RateBound`.
* `LossIsBounded`: `Spec => []LossBound`, at most a quota lost for each end of a
  channel.
* `RestartsAreBounded`: what is used in a window is at most a quota for each
  consumer and one for each channel that has ended, whatever the faults.
* `OneKeepsTheLimit`: a consumer that is alone and whose channel never closed
  keeps `RateLimit`, the promise of the README that `TwoConsumers` violates.
* `CorkUnschedules`: `Spec => []CorkedIsUnscheduled` (`CorkProofs`).
* `CorkStopsClaims`: `Spec => CorkedTakesNoMore`, an action property.
* `UnackedIsSettledOnce`: `Spec => []UnackedIsInFlight` when a callback is
  configured (`InFlightProofs`).  Without one the theorem would be false: a
  tick then drops the messages it fetched (420-492), unsettled.
* `NothingIsDropped`: `Spec => []NothingDropped` (`InFlightProofs`).
* `ImplementsTheBucket`: `Spec => ImplementsBucket` (`RefinementProofs`).

The other four prove, for every number of processes, messages, entries, calls
and items, every quota and interval, and every bound on what is under way:

* `SlidingProofs`: `SlidingTypeCorrect`, `WindowIsBounded` (`WindowBound`) and
  `CountsAreRespected` (`CountsAreSeen`), for both drivers and any clocks.
* `LiteProofs`: `LiteTypeCorrect`, `NothingIsRefused` (`NeverRefused`),
  `UsesGetAccounted` (`UsesAreAccounted`) and `FaultlessGetsCounted`
  (`FaultlessIsCounted`).
* `MqttProofs`: `MqttTypeCorrect`, `NothingGetsMissed` (`NothingIsMissed`),
  `OwnGetsCounted` (`OwnIsCounted`), `ReadyWhenHeard` (`ReadyOnceHeard`),
  `RoomIsLeft` (`AnswersLeaveRoom`).
* `ProducerProofs`: `ProducerTypeCorrect`, `DeathGetsHeard` (`DeathIsHeard`),
  `OwnGetsRouted` (`OwnIsRouted`), `ConfirmedGetsHeld` (`ConfirmedIsHeld`),
  `OrderGetsKept` (`OrderIsKept`), `RejectedStaysStopped` (`RejectedStops`),
  `QueuedAtMostOnce` (no item is twice on the queue) and
  `ImplementsTheDelivery` (`ImplementsDelivery`), for any configurations and
  repairs.

The assumptions are those the modules name: finite sets of consumers
(clients, processes), messages, slots, entries and calls, a positive quota, chunk size and interval,
names that are told apart, and constants of the right type.

The argument for `QuotaBound`.  The claim of a consumer is the gets it still
awaits and the messages in its tick.  The sum of the claims over all consumers
is stated as the number of pairs (consumer, slot number) below each claim,
which needs no recursion; `SlotsSplit` takes one consumer's slots apart from
the others'.  The others have at most a quota each.  A consumer that reads a
balance of `MaxBatch - total` claims just as much, so the new sum is at most
`total + (MaxBatch - total) + MaxBatch * (n - 1)`.  Every other step of a tick
moves a claim to the total or drops it.  That a claim never exceeds a quota
(`ClaimInv`) and that a tick that reads the balance claims nothing yet
(`Control`) make it inductive: the invariant is `QuotaInv`.

The argument for `Accounted`.  What is owed (acknowledged or failed, not yet
counted) is counted over all consumers in the same way.  `AccountStep` reduces
a step to the consumer that takes it.  One path needs more: with `onSpill` a
failed increment ends the tick with everything in it, and what it loses is the
one chunk in hand.  Hence `UniformInv`: with `onSpill` all items past the start
of their callback are in the same stage.  The invariant is `AccountInv`.
`RateBound` follows, since what is owed is a part of what is claimed.

The argument for `LossBound`.  A count is lost only in a step that closes the
channel, or after it: a tick goes on when its channel has closed (466-481), and
may lose more.  So the invariant counts what is lost and what the ticks of
consumers without an open channel still hold (`Doomed`): together at most a
quota for each member of `Ended` (`LossBudget`).  The step that closes an open
channel adds a member, and a tick holds no more than a quota (`QuotaInv`).  On a
closed channel no message comes into a tick, so from then on what is lost was
in `Doomed` before.  `OpenInv`, that a consumer with an open channel has been
started, makes the member a new one.  `RestartsAreBounded` and
`OneKeepsTheLimit` follow with `RateBound`.

The other four use `Control`.  `CorkedIsUnscheduled` is inductive with it (a
failed count leaves `pc` where it is, which `StagedInv` says is the spilling
step).  `CorkedTakesNoMore` needs no invariant beyond it: `Keeps` says a step
asks for nothing and takes nothing into a tick, and the two steps that do are
the read of the balance, which a corked consumer does not take that way, and a
get, which trades one outstanding get for one message.  `UnackedIsInFlight` is
stated message by message (`Flight`); the restart of a process is where
`StagedInv` is needed.  `NothingDropped` is not inductive alone: `Undropped` adds
that no message is about to be discarded, and `Control` that a message in a
tick has one of the stages the loop gives it.

The argument for the refinement.  Each step of `BucketQueue` is one of a few
shapes of step on `claim` and `owed`: nothing changes, quota is taken from
nothing, given back, used, counted, lost, or everything of one consumer ends.
One lemma per shape shows the step of `Bucket`; `Control` and `UniformInv`
decide which shape each action has.

The argument for the sliding store.  A use in the window of its consumer has
not expired by that consumer's clock (`ExpiryInv`), so a consumer always sees
what it has counted itself, and a read leaves it no more than the quota minus
that.  With Redis the window may only shrink between KEYS and MGET, because a
reading consumer neither uses nor counts (`ReadingInv`); either all its keys
are there still, or the read yields nothing.  Another's entry may look expired
earlier by the difference of the clocks, which is the `Lag` in `CountsAreSeen`.

The argument for `NeverRefused`: until the server has a coordinator, no client
has heard of a quota, so none holds, uses or increments any (`QuietInv`), and a
server that lives does not lose it.

The argument for `UsesAreAccounted`.  The increments under way are counted as
the cardinality of a set, one member for each item of each message in each
client's box (`ItemsFrom`); it splits by client, and one lemma says what an
append, a removal and a lost link do to it.  With the types (`LiteShape`,
`Counters`) the account is inductive.  `FaultlessIsCounted` needs in addition
that nothing is gone without a fault (`UnfaultedInv`): an increment is thrown
away only by a server that does not know its queue, which the invariant of
`NeverRefused` excludes while the server lives.

The argument for the MQTT store.  What is still on its way to the broker is in
no store and no inbox (`ArrivedInv`), and what was refused is never retained, so an arrival reaches everybody connected;
whoever is not connected gets it with the next subscription.  What is stored
and retained during a reset that nothing raced with is about to be cleared
(`ResetInv`), so emptying the store forgets nothing that counts.
`AnswersLeaveRoom` follows: retained entries that are not in the inbox are in
the store, whose size the answer subtracts from the quota.

The argument for boot and the producer (`IInv`).  `LaunchInv`: what boot has
opened and who has heard of its end.  A connection is an instance's own only
where no channel was given, and only consumers await a coordinator; so an error
that nobody hears and that boot survives is one of a consumer's own connection
while its coordinator comes up.  `CallInv`: calls are made on instances
that came up, whose queue is declared if the channel is their own.  `TurnInv`:
with `keepOrder` exactly one item is under way.  `WireInv` and `AnswerInv`: an
item on the wire or answered is one that was sent and not settled, on the wire
or answered but not both.  `AfterInv` and `OrderInv`: what is on the queue and
on the wire is in order, and an item sent now comes behind all of a call that
had resolved, since those are no longer waiting.  The other parts say that what
is on the queue or dropped was sent.

The argument for `Delivery`.  `place` and `told` of an item are read off several
variables, so each step of `Producer` has to move one item and its answer as
`Delivery` allows, or leave both alone.  `IInv` keeps the places apart, with
`AsideInv`: what was dropped was sent, and is on no wire.  The end of a channel
becomes `Fail`: what was on the wire may be gone, and those who waited for a
confirm may be told an error.

Only model-checked: liveness, which is out of the prover's reach
(`TakenIsSettled`, `NoStarvation`, `QuotaComesBack`, `IncrementReturns`,
`Converges`, `CallsSettle`).  Every invariant and action property of a passing
run is stated by a theorem.  `ImplementsDelivery` and `ImplementsBucket` are
safety: the abstract specifications have no fairness.

## What the models assume of libraries

* amqplib: a call on a closed channel throws, `close` included; closing a
  channel or a connection delivers what was sent before, an error loses it; the
  callbacks that wait for a confirm on a closed channel are all told or none.
* RabbitMQ: items sent to the default exchange go to the queue or nowhere, are
  confirmed in any order, and may be refused.
* socket.io: a link delivers in order; a broken one loses what is under way;
  what is emitted meanwhile is sent before the `connect` handlers run.
* MQTT: the broker retains one message per topic and sends what it retains for
  each subscription; the session ends with its connection; a publish waits for
  a connection, is refused by the broker or confirmed after it has been passed
  on, and fails at once after `end()`, which waits for what is under way.
* Redis and the database execute each command or statement at once.

## Not modelled

The contents of messages, logging, time stamps, event payloads; the order in
which a consumer gets messages; the `drain` and `finish` events, which change
no state of the consumer.  A call of the application that never returns is not
excluded by the safety runs, and is excluded by fairness in `Liveness`.  A
shutdown of the coordinator that fails is reported as an `error` event and
changes nothing else.

Of the database driver: `declutter`, which nothing calls, and `prepare`,
`cleanup` and `prepared`, which are run by hand to set up the table.  Of the
lite coordination: ping and pong, authentication, and the client's `shutdown`,
which nothing calls.  Of the validation: the schemas of library options.  The
ciphers and encodings of the lite messages are stateless library calls.
`rabbitmq/Client.ts` is not used, and `bin/` is pure I/O.

An increment in `SlidingBucket` stands for any number of uses; in `MqttStore`
for one.  An expired retained message that the broker still delivers is ignored
by `#onMessage` and is modelled; whether the broker drops it is left open.  An
entry of `MqttStore` expires for every process at once: the clocks of MQTT
processes are taken to agree, while those of `SlidingBucket` may differ.

## Plan

Done: the consumer, its abstract bucket and the refinement; the sliding, lite
and MQTT coordinators; boot and the producer, its abstract delivery and the refinement; the theorems
above.

Left:

1. The consumer composed with `LiteCoordination` and `MqttStore`: a tick that
   meets a link that breaks between its balance and its increment, with the
   balance of another time.  `SlidingBucket` and `LiteCoordination` use the
   discipline of `Bucket` instead, which `BucketQueue` is proved to keep.
2. `prepare` and `cleanup` of the database by several processes at once.
