------------------------- MODULE DeliveryRefinement -------------------------
(***************************************************************************)
(* The producer keeps what Delivery says of enqueue.                       *)
(***************************************************************************)
EXTENDS Producer

Unsent == {"waiting", "serializing"}

OnWire(x, p) == \E i \in DOMAIN wire[p] : wire[p][i] = x
OnQueue(x) == \E i \in DOMAIN queue : queue[i] = x

PlaceOf(x) ==
  IF FateOf(x) \in Unsent THEN "held"
  ELSE IF OnQueue(x) THEN "queued"
  ELSE IF x \in dropped THEN "dropped"
  ELSE IF \E p \in Producers : OnWire(x, p) THEN "sent"
  ELSE "gone"

ToldOf(x) == IF FateOf(x) \in Unsent \cup {"sent"} THEN "open" ELSE FateOf(x)

\* The calls that were made on a confirm channel.
Confirming == {k \in Calls : call[k] # NoCall /\ Confirms(call[k].by)}

D == INSTANCE Delivery WITH
       confirming <- Confirming,
       place <- [x \in Items |-> PlaceOf(x)],
       told <- [x \in Items |-> ToldOf(x)]

\* Whatever channels, confirms and serializers do, enqueue sends an item at
\* most once and in its turn, it is on the queue at most once and behind what
\* has to precede it, and its caller is told once, of an id on a confirm
\* channel only when the item is queued or dropped (54-116).
ImplementsDelivery == D!DeliverySpec
=============================================================================
