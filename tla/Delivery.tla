------------------------------ MODULE Delivery ------------------------------
(***************************************************************************)
(* What enqueue owes its callers, without boot, channels, confirms or      *)
(* serializers.  An item is held by its producer, sent once, and then on   *)
(* the queue, dropped for want of one, or gone.  Its caller is told once   *)
(* what became of it: an id, an error, or a rejection.  Producer           *)
(* implements this module (DeliveryRefinement).                            *)
(***************************************************************************)
EXTENDS Naturals, Sequences

CONSTANTS
  Producers,
  Calls,   \* calls of enqueue
  Items,   \* their items: pairs of a call and a position
  Flags,   \* the producer and the flags a call may be made with
  NoCall

VARIABLES
  call,        \* what call k was made with
  confirming,  \* the calls made on a confirm channel
  after,       \* after[k]: the calls that had resolved when k was made
  place,       \* where each item is
  told,        \* what its caller has been told of it: "open", nothing yet
  queue        \* the items on the queue, in order

deliveryVars == <<call, confirming, after, place, told, queue>>

Done == {"id", "error"}
ItemsOf(k) == {x \in Items : x[1] = k}

DeliveryInit ==
  /\ call = [k \in Calls |-> NoCall]
  /\ confirming = {}
  /\ after = [k \in Calls |-> {}]
  /\ place = [x \in Items |-> "held"]
  /\ told = [x \in Items |-> "open"]
  /\ queue = <<>>

Enqueue(k, g) ==
  /\ call[k] = NoCall
  /\ call' = [call EXCEPT ![k] = g]
  /\ confirming' \in {confirming, confirming \cup {k}}
  /\ after' = [after EXCEPT ![k] =
                 {l \in Calls : call[l].by = g.by /\ \A x \in ItemsOf(l) : told[x] \in Done}]
  /\ UNCHANGED <<place, told, queue>>

\* With keepOrder an item waits until the caller could be told of all before.
InTurn(x) ==
  /\ call[x[1]] # NoCall
  /\ call[x[1]].keepOrder =>
       \A y \in ItemsOf(x[1]) : y[2] < x[2] => told[y] \in Done

\* Without confirms, the id stands for no more than having been sent.
Send(x) ==
  /\ place[x] = "held" /\ told[x] = "open"
  /\ InTurn(x)
  /\ UNCHANGED <<call, after, queue, confirming>>
  /\ place' = [place EXCEPT ![x] = "sent"]
  /\ told' = IF x[1] \in confirming THEN told ELSE [told EXCEPT ![x] = "id"]

\* An item that cannot be sent never reaches the queue.
Refuse(x) ==
  /\ place[x] = "held" /\ told[x] = "open"
  /\ InTurn(x)
  /\ UNCHANGED <<call, after, queue, confirming>>
  /\ place' = [place EXCEPT ![x] = "gone"]
  /\ told' = [told EXCEPT ![x] = "rejected"]

\* y has to be on the queue before x, if it gets there.
Precedes(y, x) ==
  \/ y[1] = x[1] /\ call[x[1]].keepOrder /\ y[2] < x[2]
  \/ y[1] \in after[x[1]]

Arrive(x) ==
  /\ place[x] = "sent"
  /\ \A y \in Items \ {x} : Precedes(y, x) => place[y] # "sent"
  /\ queue' = Append(queue, x)
  /\ place' = [place EXCEPT ![x] = "queued"]
  /\ UNCHANGED <<call, after, confirming, told>>

Drop(x) ==
  /\ place[x] = "sent"
  /\ UNCHANGED <<call, after, queue, confirming, told>>
  /\ place' = [place EXCEPT ![x] = "dropped"]

Confirm(x) ==
  /\ x[1] \in confirming
  /\ told[x] = "open"
  /\ place[x] \in {"queued", "dropped"}
  /\ UNCHANGED <<call, after, queue, confirming, place>>
  /\ told' = [told EXCEPT ![x] = "id"]

\* Some items of p get lost, and some of those it had sent are given up,
\* wherever they are: an error does not say that an item is not queued.
Fail(p) ==
  /\ UNCHANGED <<call, after, queue, confirming>>
  /\ \E L \in SUBSET {x \in Items : place[x] = "sent" /\ call[x[1]].by = p} :
       place' = [x \in Items |-> IF x \in L THEN "gone" ELSE place[x]]
  /\ \E G \in SUBSET {x \in Items : /\ place[x] # "held" /\ told[x] = "open"
                                    /\ call[x[1]].by = p} :
       told' = [x \in Items |->
                 IF x \notin G THEN told[x]
                 ELSE IF call[x[1]].rejectOnError THEN "rejected" ELSE "error"]

DeliveryNext ==
  \/ \E p \in Producers : Fail(p)
  \/ \E x \in Items : Send(x) \/ Refuse(x) \/ Arrive(x) \/ Drop(x) \/ Confirm(x)
  \/ \E k \in Calls, g \in Flags : Enqueue(k, g)

DeliverySpec == DeliveryInit /\ [][DeliveryNext]_deliveryVars
=============================================================================
