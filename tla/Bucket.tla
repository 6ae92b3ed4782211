------------------------------- MODULE Bucket -------------------------------
(***************************************************************************)
(* What a consumer owes the coordinator it shares, without queue, channel, *)
(* callbacks or calls: quota is taken when the consumer holds none, used   *)
(* by handing items to the application, and counted after that.  A use is  *)
(* counted once, or lost with the process or the coordinator; it is never  *)
(* counted before it is made, and never twice.  BucketQueue implements     *)
(* this module (BucketRefinement).                                         *)
(***************************************************************************)
EXTENDS CoordinatorStore, FiniteSets

CONSTANTS
  Consumers,  \* the processes that share the coordinator
  Items       \* the items they hand to the application

VARIABLES
  claim,      \* claim[c]: quota consumer c has taken and not used
  owed,       \* owed[c]: items that used quota and are still to be counted
  delivered,  \* items that used quota since the window began
  lost        \* those of them that will never be counted

bucketVars == <<total, claim, owed, delivered, lost>>

BucketInit ==
  /\ StoreInit
  /\ claim = [c \in Consumers |-> 0]
  /\ owed = [c \in Consumers |-> {}]
  /\ delivered = 0
  /\ lost = 0

\* Only a consumer that has used up or given back its last claim, and has
\* counted all it used, takes quota again: all that is left.
Take(c) ==
  /\ claim[c] = 0
  /\ owed[c] = {}
  /\ claim' = [claim EXCEPT ![c] = Balance]
  /\ UNCHANGED <<total, owed, delivered, lost>>

\* Gets that find no message, and items that fail without counting.
GiveBack(c) ==
  /\ UNCHANGED <<total, owed, delivered, lost>>
  /\ \E n \in 0 .. claim[c] : claim' = [claim EXCEPT ![c] = n]

Use(c) ==
  /\ UNCHANGED <<total, lost>>
  /\ \E S \in SUBSET (Items \ owed[c]) :
       /\ Cardinality(S) <= claim[c]
       /\ claim' = [claim EXCEPT ![c] = @ - Cardinality(S)]
       /\ owed' = [owed EXCEPT ![c] = @ \cup S]
       /\ delivered' = delivered + Cardinality(S)

CountUses(c) ==
  /\ UNCHANGED <<claim, delivered, lost>>
  /\ \E S \in SUBSET owed[c] :
       /\ Increment(Cardinality(S))
       /\ owed' = [owed EXCEPT ![c] = @ \ S]

\* The coordinator fails to count some items.
LoseUses(c) ==
  /\ UNCHANGED <<total, claim, delivered>>
  /\ \E S \in SUBSET owed[c] :
       /\ owed' = [owed EXCEPT ![c] = @ \ S]
       /\ lost' = lost + Cardinality(S)

\* The consumer's work ends.  It may just have used n of its claim or
\* counted S, and it counts nothing after that.
Stop(c) ==
  /\ claim' = [claim EXCEPT ![c] = 0]
  /\ owed' = [owed EXCEPT ![c] = {}]
  /\ \E n \in 0 .. claim[c], S \in SUBSET owed[c] :
       /\ Increment(Cardinality(S))
       /\ delivered' = delivered + n
       /\ lost' = lost + n + Cardinality(owed[c] \ S)

\* The window ends while consumers hold claims and owe counts.
Renew ==
  /\ ResetTotal
  /\ delivered' = 0
  /\ lost' = 0
  /\ UNCHANGED <<claim, owed>>

BucketNext ==
  \/ \E c \in Consumers :
       Take(c) \/ GiveBack(c) \/ Use(c) \/ CountUses(c) \/ LoseUses(c) \/ Stop(c)
  \/ Renew

BucketSpec == BucketInit /\ [][BucketNext]_bucketVars
=============================================================================
