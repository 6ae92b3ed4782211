---------------------------- MODULE RabbitBroker ----------------------------
(***************************************************************************)
(* The RabbitMQ queue as the consumers of src/RabbitMQToBucketQueue.ts use *)
(* it.  The broker is not part of the repository: what is modelled is what *)
(* the class relies on when it calls channel.get, channel.ack,             *)
(* channel.nack and channel.close.                                         *)
(*                                                                         *)
(* A message is in one place at a time.  Delivery order is abstracted: a   *)
(* get may return any ready message.                                       *)
(***************************************************************************)
EXTENDS Naturals, FiniteSets

CONSTANTS
  Consumers,  \* the processes that run a RabbitMQToBucketQueue on the queue
  Messages    \* the messages publishers may put on the queue

\* Where a message is while no consumer holds it unacknowledged.
Places == {"unpublished", "ready", "acked", "dropped"}

ASSUME ConsumersAssumption == /\ IsFiniteSet(Consumers)
                              /\ Consumers \cap Places = {}
ASSUME MessagesAssumption == IsFiniteSet(Messages)

VARIABLES
  place,   \* place[m]: one of Places, or the consumer that holds m unacked
  channel  \* channel[c]: "open" or "closed"

brokerVars == <<place, channel>>

BrokerTypeOK ==
  /\ place \in [Messages -> Places \cup Consumers]
  /\ channel \in [Consumers -> {"open", "closed"}]

BrokerInit ==
  /\ place = [m \in Messages |-> "unpublished"]
  /\ channel = [c \in Consumers |-> "closed"]

Ready == {m \in Messages : place[m] = "ready"}
Held(c) == {m \in Messages : place[m] = c}
IsOpen(c) == channel[c] = "open"

\* Mutant: the flag allUpTo set, with which one tag settles all before it.
SettleUpTo(c, S, p) ==
  place' = [m \in Messages |->
              IF S \cap Held(c) # {} /\ m \in Held(c) THEN p ELSE place[m]]

\* The broker settles the messages of S that c's channel holds: a delivery
\* tag the channel does not hold names no message.
Settle(c, S, p) ==
  place' = [m \in Messages |-> IF m \in S \cap Held(c) THEN p ELSE place[m]]

Publish(m) ==
  /\ place[m] = "unpublished"
  /\ place' = [place EXCEPT ![m] = "ready"]
  /\ UNCHANGED channel

Deliver(c, m) ==
  /\ place[m] = "ready"
  /\ place' = [place EXCEPT ![m] = c]

\* Messages a channel held when it closed return to the queue.
Redeliver(c) ==
  /\ ~IsOpen(c)
  /\ Held(c) # {}
  /\ Settle(c, Messages, "ready")
  /\ UNCHANGED channel
=============================================================================
