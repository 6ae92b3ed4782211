------------------------------ MODULE Producer ------------------------------
(***************************************************************************)
(* The producer of src/ToRabbitMQBucketQueue.ts: enqueue puts items on the *)
(* queue, one after the other (keepOrder) or all at once, and settles with *)
(* an id or an error for each.  It shares the start with the consumer (see *)
(* Startup).                                                               *)
(*                                                                         *)
(* A channel carries what was sent on it in order (wire) and brings back   *)
(* the broker's confirms in any order (answers).  Without the repair       *)
(* "booted" every call of enqueue and shutdown throws at its first line    *)
(* and changes nothing.                                                    *)
(***************************************************************************)
EXTENDS Startup, Sequences, FiniteSets

CONSTANTS
  Calls,    \* calls of enqueue
  Size,     \* Size[k]: how many items call k is given
  Requests  \* Requests[k]: the producers and flags call k may be made with

Flags == [by : Producers, keepOrder : BOOLEAN, rejectOnError : BOOLEAN]

ASSUME CallsAssumption ==
  /\ IsFiniteSet(Calls)
  /\ Size \in [Calls -> Nat \ {0}]
  /\ Requests \in [Calls -> SUBSET Flags]

VARIABLES
  call,     \* the producer and the flags call k was made with
  fate,     \* fate[k][n]: how far the n-th item of call k is
  wire,     \* what was sent on a producer's channel and not yet read
  queue,    \* the items the queue was given, in order
  dropped,  \* items that found no queue: the default exchange drops them
  answers,  \* confirms under way: <<item, whether the broker took it>>
  shut,     \* whether shutdown was called
  after     \* history: the calls of its producer that resolved before k

callVars == <<call, fate, wire, queue, dropped, answers, shut, after>>
vars == <<startVars, callVars>>

NoCall == [by |-> "nobody"]
Items == UNION {{k} \X (1 .. Size[k]) : k \in Calls}
Of(p) == {x \in Items : call[x[1]] # NoCall /\ call[x[1]].by = p}
Fates == {"waiting", "serializing", "sent", "id", "error", "rejected"}
FateOf(x) == fate[x[1]][x[2]]
Positions(k) == 1 .. Size[k]

\* What the promise of call k has come to: Promise.all and the loop reject
\* with the first item that does.
Rejected(k) == \E n \in Positions(k) : fate[k][n] = "rejected"
Resolved(k) == \A n \in Positions(k) : fate[k][n] \in {"id", "error"}

\* A channel confirms if it was given as a confirm channel: #getRabbitMQQueue
\* makes one for the type "confirmChannel", which validation does not accept.
Confirms(p) ==
  \/ config[p].channel = "confirmChannel"
  \/ config[p].channel = "none" /\ config[p].queueType = "confirmChannel"

ProducerTypeOK ==
  /\ StartupTypeOK
  /\ call \in [Calls -> Flags \cup {NoCall}]
  /\ fate = [k \in Calls |-> fate[k]]
  /\ \A k \in Calls : fate[k] \in [Positions(k) -> Fates]
  /\ wire \in [Producers -> Seq(Items)]
  /\ queue \in Seq(Items)
  /\ dropped \subseteq Items
  /\ answers \subseteq Items \X BOOLEAN
  /\ shut \in [Producers -> BOOLEAN]
  /\ after \in [Calls -> SUBSET Calls]

Init ==
  /\ StartupInit
  /\ call = [k \in Calls |-> NoCall]
  /\ fate = [k \in Calls |-> [n \in Positions(k) |-> "waiting"]]
  /\ wire = [p \in Producers |-> <<>>]
  /\ queue = <<>>
  /\ dropped = {}
  /\ answers = {}
  /\ shut = [p \in Producers |-> FALSE]
  /\ after = [k \in Calls |-> {}]

-----------------------------------------------------------------------------
(* enqueue and #enqueueAndAwait.                                           *)

\* Mutant: the loop goes on after an item that rejected.
AdvanceAnyway(f) ==
  [k \in Calls |-> [n \in Positions(k) |->
     IF /\ f[k][n] = "waiting" /\ n > 1 /\ call[k] # NoCall
        /\ f[k][n - 1] \in {"id", "error", "rejected"}
       THEN "serializing" ELSE f[k][n]]]

\* With keepOrder the loop begins the next item when one has resolved.
Advance(f) ==
  [k \in Calls |-> [n \in Positions(k) |->
     IF /\ f[k][n] = "waiting" /\ n > 1 /\ call[k] # NoCall
        /\ f[k][n - 1] \in {"id", "error"}
       THEN "serializing" ELSE f[k][n]]]

Settle(x, o) == fate' = Advance([fate EXCEPT ![x[1]][x[2]] = o])

\* Mutant: keepOrder ignored, every item begins at once.
BeginsAll(g, n) == TRUE

\* The items a call begins with.
Begins(g, n) == ~g.keepOrder \/ n = 1

Enqueue(k, g) ==
  /\ "booted" \in Repairs
  /\ call[k] = NoCall
  /\ boot[g.by] = "up"
  /\ call' = [call EXCEPT ![k] = g]
  /\ fate' = [fate EXCEPT ![k] = [n \in Positions(k) |->
                IF Begins(g, n) THEN "serializing" ELSE "waiting"]]
  /\ after' = [after EXCEPT ![k] =
                 {l \in Calls : Resolved(l) /\ call[l].by = g.by}]
  /\ UNCHANGED <<startVars, wire, queue, dropped, answers, shut>>

\* #serializeItem is over.  The default one comes to an end for the items of
\* a call in their order; a configured one may take any time.
Serialized(k, n) ==
  /\ fate[k][n] = "serializing"
  /\ boot[call[k].by] # "exited"
  /\ \/ "serializer" \in Repairs
     \/ \A m \in Positions(k) : m < n => fate[k][m] # "serializing"
  /\ UNCHANGED <<startVars, call, queue, dropped, answers, shut, after>>

\* sendToQueue; on a closed channel it throws inside the new promise.
Send(k, n) ==
  LET p == call[k].by IN
  /\ Serialized(k, n)
  /\ \/ /\ chan[p] = "open"
        /\ wire' = [wire EXCEPT ![p] = Append(@, <<k, n>>)]
        /\ Settle(<<k, n>>, IF Confirms(p) THEN "sent" ELSE "id")
     \/ /\ chan[p] # "open"
        /\ Settle(<<k, n>>, "rejected")
        /\ UNCHANGED wire

SerializerThrows(k, n) ==
  /\ Serialized(k, n)
  /\ Settle(<<k, n>>, "rejected")
  /\ UNCHANGED wire

\* Mutant: a callback that resolves with nothing at all.
TellsUndefined(x) == "undefined"

\* Mutant: a callback that takes an error for a confirmation.
TellsNoError(x) == "id"

\* Mutant: an error that is not to reject settles nothing.
TellsNothing(x) ==
  IF call[x[1]].rejectOnError THEN "rejected" ELSE "sent"

\* Mutant: an item is sent again after an error, though it may be queued.
SendsAgain(x) ==
  IF call[x[1]].rejectOnError THEN "rejected" ELSE "serializing"

\* What the callback makes of an error.
ErrorFate(x) == IF call[x[1]].rejectOnError THEN "rejected" ELSE "error"

Confirmed(x, took) ==
  /\ <<x, took>> \in answers
  /\ answers' = answers \ {<<x, took>>}
  /\ Settle(x, IF took THEN "id" ELSE ErrorFate(x))
  /\ UNCHANGED <<startVars, call, wire, queue, dropped, shut, after>>

-----------------------------------------------------------------------------
(* The broker and the end of a channel.                                    *)

\* The broker reads the next item of p's channel: it goes to the queue if
\* there is one and it takes it.  Items without a queue are confirmed too.
Route(p) ==
  /\ wire[p] # <<>>
  /\ LET x == Head(wire[p])
         Answer(took) ==
           answers' = IF Confirms(p) /\ chan[p] = "open"
                        THEN answers \cup {<<x, took>>} ELSE answers
     IN  \/ /\ declared
            /\ queue' = Append(queue, x)
            /\ Answer(TRUE)
            /\ UNCHANGED dropped
         \/ /\ declared
            /\ Answer(FALSE)
            /\ UNCHANGED <<queue, dropped>>
         \/ /\ ~declared
            /\ dropped' = dropped \cup {x}
            /\ Answer(TRUE)
            /\ UNCHANGED queue
  /\ wire' = [wire EXCEPT ![p] = Tail(@)]
  /\ UNCHANGED <<startVars, call, fate, shut, after>>

\* p's channel is gone: no confirm comes any more.  The callbacks that wait
\* for one are all called with an error, or none is.
LosesChannel(p) ==
  /\ answers' = {a \in answers : a[1] \notin Of(p)}
  /\ \/ UNCHANGED fate
     \/ fate' = Advance([k \in Calls |-> [n \in Positions(k) |->
                  IF <<k, n>> \in Of(p) /\ fate[k][n] = "sent"
                    THEN ErrorFate(<<k, n>>) ELSE fate[k][n]]])
  /\ UNCHANGED <<call, queue, dropped, after>>

\* shutdown.  What was sent before reaches the broker, for the channel closes
\* in order.
Shutdown(p) ==
  /\ "booted" \in Repairs
  /\ boot[p] = "up"
  /\ ~shut[p]
  /\ shut' = [shut EXCEPT ![p] = TRUE]
  /\ chan' = Shut(chan, p)
  /\ conn' = Shut(conn, p)
  /\ LosesChannel(p)
  /\ UNCHANGED <<boot, config, death, declared, wire>>

\* The application declares the queue.
Declare ==
  /\ ~declared
  /\ declared' = TRUE
  /\ UNCHANGED <<boot, config, conn, chan, death, callVars>>

\* An error of the channel or of the connection loses what is on the wire.
Fails(i) ==
  /\ ChannelError(i) \/ ConnectionError(i)
  /\ \/ /\ i \in Producers
        /\ wire' = [wire EXCEPT ![i] = <<>>]
        /\ LosesChannel(i)
        /\ UNCHANGED shut
     \/ /\ i \in Consumers
        /\ UNCHANGED callVars

Next ==
  \/ StartupNext /\ UNCHANGED callVars
  \/ \E i \in Instances : Fails(i)
  \/ Declare
  \/ \E k \in Calls : \E g \in Requests[k] : Enqueue(k, g)
  \/ \E k \in Calls : \E n \in Positions(k) :
       Send(k, n) \/ SerializerThrows(k, n)
  \/ \E x \in Items, took \in BOOLEAN : Confirmed(x, took)
  \/ \E p \in Producers : Route(p) \/ Shutdown(p)

\* A serializer comes to an end, and the broker reads a channel and answers.
Fairness ==
  /\ WF_vars(\E k \in Calls : \E n \in Positions(k) :
               Send(k, n) \/ SerializerThrows(k, n))
  /\ WF_vars(\E x \in Items, took \in BOOLEAN : Confirmed(x, took))
  /\ WF_vars(\E p \in Producers : Route(p))

Spec == Init /\ [][Next]_vars
FairSpec == Spec /\ Fairness

-----------------------------------------------------------------------------
(* Properties.                                                             *)

\* An instance that came up with an open channel knows when that channel is
\* closed: a producer has reported 'died', a consumer 'fatal' at least, or
\* shutdown closed it.  The only death that nobody hears is that of a consumer
\* whose own connection breaks while its coordinator is awaited
\* (RabbitMQToBucketQueue.ts:284-336, 552-576).
DeathIsHeard ==
  \A i \in Instances :
    boot[i] = "up" /\ chan[i] = "closed" =>
      \/ death[i] = "died"
      \/ i \in Consumers /\ death[i] = "fatal"
      \/ config[i].channel # "none" /\ config[i].stale
      \/ i \in Producers /\ shut[i]
      \/ /\ death[i] = "missed"
         /\ i \in Consumers
         /\ config[i].channel = "none"

\* An item of a producer that opened its own channel finds the queue there:
\* #getRabbitMQQueue has declared it before initialize resolves.
OwnIsRouted ==
  \A x \in dropped : config[call[x[1]].by].channel # "none"

\* The id of an item enqueued on a confirm channel stands for an item that
\* the broker has put on the queue, unless there was no queue.
ConfirmedIsHeld ==
  \A p \in Producers : Confirms(p) =>
    \A x \in Of(p) : FateOf(x) = "id" =>
      x \in dropped \/ \E i \in DOMAIN queue : queue[i] = x

\* The items of a call with keepOrder are on the queue in the order given,
\* and those of a later call behind those of one that had resolved.
OrderIsKept ==
  \A i, j \in DOMAIN queue : i < j =>
    LET x == queue[i]
        y == queue[j]
    IN  /\ x[1] = y[1] /\ call[x[1]].keepOrder => x[2] < y[2]
        /\ y[1] \notin after[x[1]]

\* A call with keepOrder that has rejected sends nothing more: its caller may
\* enqueue the rest again without any of it being there twice.
RejectedStops ==
  [][\A k \in Calls :
       call[k] # NoCall /\ call[k].keepOrder /\ Rejected(k)
         => fate'[k] = fate[k]]_vars

\* A call of enqueue settles, unless its producer loses the channel.
CallsSettle ==
  \A k \in Calls :
    call[k] # NoCall ~>
      (Resolved(k) \/ Rejected(k) \/ \E p \in Producers :
         call[k] # NoCall /\ call[k].by = p /\ chan[p] # "open")
=============================================================================
