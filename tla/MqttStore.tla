------------------------------ MODULE MqttStore ------------------------------
(***************************************************************************)
(* The MQTT coordinator, src/coordinators/mqtt.ts: every process keeps its *)
(* own copy of the increments that have not expired, and learns those of   *)
(* the others from messages that the broker retains, one topic for each.   *)
(*                                                                         *)
(* An entry is one increment of one item.  The broker and mqtt.js are      *)
(* external: quality of service 2, a session that ends with its            *)
(* connection, publishes that wait for a reconnection, and retained        *)
(* messages for whoever subscribes.  A balance needs no step of its own to *)
(* be read: Answer is what a process would be told.                        *)
(***************************************************************************)
EXTENDS Integers, FiniteSets

CONSTANTS
  Consumers,  \* the processes
  Entries,    \* the increments, each with its uuid (a bound on how many)
  MaxBatch,   \* the quota of any interval
  MaxFaults   \* bound: lost connections, refusals, errors, crashes, shutdowns

ASSUME MqttAssumption ==
  /\ IsFiniteSet(Entries)
  /\ {"cleared", "nobody"} \cap (Entries \cup Consumers) = {}
  /\ MaxBatch \in Nat \ {0}
  /\ MaxFaults \in Nat

VARIABLES
  conn,       \* conn[c]: "connecting", "up", "down", "leaving" while shutdown
              \* awaits end(), or "ended" for good
  ready,      \* ready[c]: what became of #connPromise
  store,      \* store[c]: the entries in #store
  inbox,      \* inbox[c]: messages that the broker sends to c
  doomed,     \* doomed[c]: entries that c's reset is still to clear
  resetting,  \* resetting[c]: whether a reset of c is under way
  phase,      \* phase[e]: how far the publishing of e has come
  by,         \* by[e]: the process that publishes e
  old,        \* old[e]: whether e has expired
  retained,   \* entries that the broker retains
  raced,      \* history: whether a reset of c overlapped with an entry that
              \* came in, or could not clear one at the broker
  faults      \* how many of these so far

replicas == <<conn, ready, store, inbox>>
resets == <<doomed, resetting, raced>>
published == <<phase, by, old>>
mqttVars == <<replicas, resets, published, retained, faults>>

\* sent: on its way to the broker; held: there, the confirmation on its way;
\* kept: confirmed, refused, or its process died since; lost: never arrived.
EntryPhases == {"free", "sent", "held", "kept", "lost"}
Messages == Entries \cup {"cleared"}

Unexpired(S) == {e \in S : ~old[e]}
Linked(c) == conn[c] \in {"up", "leaving"}

\* Mutant: without the lower bound.
AnswerUnclamped(c) ==
  IF ready[c] # "resolved" THEN 0 ELSE MaxBatch - Cardinality(Unexpired(store[c]))
\* #getBalance of a connected client: 0 while nobody knows better.
Answer(c) ==
  IF ready[c] # "resolved" \/ Cardinality(Unexpired(store[c])) >= MaxBatch
    THEN 0
    ELSE MaxBatch - Cardinality(Unexpired(store[c]))

MqttTypeOK ==
  /\ conn \in [Consumers -> {"connecting", "up", "down", "leaving", "ended"}]
  /\ ready \in [Consumers -> {"pending", "resolved", "rejected"}]
  /\ store \in [Consumers -> SUBSET Entries]
  /\ inbox \in [Consumers -> SUBSET Messages]
  /\ doomed \in [Consumers -> SUBSET Entries]
  /\ resetting \in [Consumers -> BOOLEAN]
  /\ raced \in [Consumers -> BOOLEAN]
  /\ phase \in [Entries -> EntryPhases]
  /\ by \in [Entries -> Consumers \cup {"nobody"}]
  /\ old \in [Entries -> BOOLEAN]
  /\ retained \in SUBSET Entries
  /\ faults \in 0 .. MaxFaults
  /\ \A c \in Consumers : Answer(c) \in 0 .. MaxBatch

MqttInit ==
  /\ conn = [c \in Consumers |-> "connecting"]
  /\ ready = [c \in Consumers |-> "pending"]
  /\ store = [c \in Consumers |-> {}]
  /\ inbox = [c \in Consumers |-> {}]
  /\ doomed = [c \in Consumers |-> {}]
  /\ resetting = [c \in Consumers |-> FALSE]
  /\ raced = [c \in Consumers |-> FALSE]
  /\ phase = [e \in Entries |-> "free"]
  /\ by = [e \in Entries |-> "nobody"]
  /\ old = [e \in Entries |-> FALSE]
  /\ retained = {}
  /\ faults = 0

-----------------------------------------------------------------------------
(* Connections.                                                            *)

\* Mutant: no new subscription when an old session might be resumed.
SubscribesOnce(c) == conn[c] = "connecting"
\* Whether #onConnection subscribes: it compares connack itself, and not its
\* type, with 'object', so it always does.
Subscribes(c) == TRUE

\* #onConnection.  The broker answers the subscription with what it retains.
Connects(c) ==
  /\ conn[c] \in {"connecting", "down"}
  /\ conn' = [conn EXCEPT ![c] = "up"]
  /\ inbox' = [inbox EXCEPT ![c] = IF Subscribes(c) THEN retained ELSE {}]
  /\ UNCHANGED <<ready, store, resets, published, retained, faults>>

Fault == faults < MaxFaults /\ faults' = faults + 1

\* #onClose.  mqtt.js connects again, unless end() was called.
Closes(c) ==
  /\ Fault
  /\ Linked(c)
  /\ conn' = [conn EXCEPT ![c] = IF @ = "up" THEN "down" ELSE "ended"]
  /\ inbox' = [inbox EXCEPT ![c] = {}]
  /\ UNCHANGED <<ready, store, resets, published, retained>>

Ends(c) ==
  /\ conn' = [conn EXCEPT ![c] = "ended"]
  /\ inbox' = [inbox EXCEPT ![c] = {}]

\* #onError ends the client for good; #connPromise rejects if it is the
\* first thing to happen.
ErrorEnds(c) ==
  /\ Fault
  /\ conn[c] # "ended"
  /\ Ends(c)
  /\ ready' = [ready EXCEPT ![c] = IF @ = "pending" THEN "rejected" ELSE @]
  /\ UNCHANGED <<store, resets, published, retained>>

\* shutdown, its first await: unsubscribe needs the connection.  A message
\* that has not come by then is taken as one that does not.
Unsubscribes(c) ==
  /\ Fault
  /\ conn[c] = "up"
  /\ conn' = [conn EXCEPT ![c] = "leaving"]
  /\ inbox' = [inbox EXCEPT ![c] = {}]
  /\ UNCHANGED <<ready, store, resets, published, retained>>

\* Its second await: end() waits for what is being published.
Leaves(c) ==
  /\ conn[c] = "leaving"
  /\ doomed[c] = {}
  /\ \A e \in Entries : by[e] = c => phase[e] \notin {"sent", "held"}
  /\ Ends(c)
  /\ UNCHANGED <<ready, store, resets, published, retained, faults>>

\* The process dies and is started again, with a client and a store anew.
Crash(c) ==
  /\ Fault
  /\ conn' = [conn EXCEPT ![c] = "connecting"]
  /\ ready' = [ready EXCEPT ![c] = "pending"]
  /\ store' = [store EXCEPT ![c] = {}]
  /\ inbox' = [inbox EXCEPT ![c] = {}]
  /\ doomed' = [doomed EXCEPT ![c] = {}]
  /\ resetting' = [resetting EXCEPT ![c] = FALSE]
  /\ raced' = [raced EXCEPT ![c] = FALSE]
  /\ phase' = [e \in Entries |->
                 IF by[e] # c THEN phase[e]
                 ELSE IF phase[e] = "sent" THEN "lost" ELSE "kept"]
  /\ by' = [e \in Entries |-> IF by[e] = c THEN "nobody" ELSE by[e]]
  /\ UNCHANGED <<old, retained>>

-----------------------------------------------------------------------------
(* increment.                                                              *)

\* The broker passes a message on to everybody connected.  That of a cleared
\* topic tells only those something who are not ready.
Broadcast(m) ==
  inbox' = [d \in Consumers |->
              IF conn[d] = "up" /\ (m \in Entries \/ ready[d] = "pending")
                THEN inbox[d] \cup {m} ELSE inbox[d]]

\* Up to the publish; a client that is not connected throws instead.
Increment(c, e) ==
  /\ conn[c] = "up"
  /\ phase[e] = "free"
  /\ phase' = [phase EXCEPT ![e] = "sent"]
  /\ by' = [by EXCEPT ![e] = c]
  /\ UNCHANGED <<replicas, resets, old, retained, faults>>

\* The publish reaches the broker.
Arrives(e) ==
  /\ phase[e] = "sent"
  /\ Linked(by[e])
  /\ phase' = [phase EXCEPT ![e] = "held"]
  /\ retained' = retained \cup {e}
  /\ Broadcast(e)
  /\ UNCHANGED <<conn, ready, store, resets, by, old, faults>>

\* Mutant: an increment that relies on the echo of its own message.
StoresNothing(e) == UNCHANGED store
\* What follows the await of the publish.
StoresOwn(e) == store' = [store EXCEPT ![by[e]] = @ \cup {e}]

Confirmed(e) ==
  /\ phase[e] = "held"
  /\ Linked(by[e])
  /\ phase' = [phase EXCEPT ![e] = "kept"]
  /\ StoresOwn(e)
  /\ raced' = [raced EXCEPT ![by[e]] = @ \/ resetting[by[e]]]
  /\ UNCHANGED <<conn, ready, inbox, doomed, resetting, by, old, retained, faults>>

\* The broker refuses the publish.  Its callback ignores the error, so the
\* entry is stored, though nobody else hears of it.
Refused(e) ==
  /\ Fault
  /\ phase[e] = "sent"
  /\ Linked(by[e])
  /\ phase' = [phase EXCEPT ![e] = "kept"]
  /\ StoresOwn(e)
  /\ UNCHANGED <<conn, ready, inbox, resets, by, old, retained>>

\* After end() mqtt.js fails a publish at once, and the same follows.
IncrementUnsent(c, e) ==
  /\ conn[c] = "leaving"
  /\ phase[e] = "free"
  /\ phase' = [phase EXCEPT ![e] = "kept"]
  /\ by' = [by EXCEPT ![e] = c]
  /\ store' = [store EXCEPT ![c] = @ \cup {e}]
  /\ UNCHANGED <<conn, ready, inbox, resets, old, retained, faults>>

Expires(e) ==
  /\ phase[e] \notin {"free", "lost"}
  /\ ~old[e]
  /\ old' = [old EXCEPT ![e] = TRUE]
  /\ UNCHANGED <<replicas, resets, phase, by, retained, faults>>

-----------------------------------------------------------------------------
(* Messages and reads.                                                     *)

\* Mutant: ready only with an entry that counts.
ReadyWhenCounting(c, m) == m \in Unexpired(Entries)
\* Which messages make the client ready: any.
MakesReady(c, m) == TRUE

\* #onMessage.  The empty payload of a cleared topic is no JSON and ignored.
OnMessage(c, m) ==
  /\ conn[c] = "up"
  /\ m \in inbox[c]
  /\ inbox' = [inbox EXCEPT ![c] = @ \ {m}]
  /\ store' = [store EXCEPT ![c] = @ \cup Unexpired({m} \cap Entries)]
  /\ raced' = [raced EXCEPT ![c] = @ \/ (resetting[c] /\ m \in Entries)]
  /\ ready' = [ready EXCEPT ![c] =
                 IF @ = "pending" /\ MakesReady(c, m) THEN "resolved" ELSE @]
  /\ UNCHANGED <<conn, doomed, resetting, published, retained, faults>>

\* A read deletes what has expired.
ReadBalance(c) ==
  /\ Linked(c)
  /\ ready[c] = "resolved"
  /\ store' = [store EXCEPT ![c] = Unexpired(@)]
  /\ UNCHANGED <<conn, ready, inbox, resets, published, retained, faults>>

-----------------------------------------------------------------------------
(* reset: an empty retained message for each key, then the store is empty. *)

Topics(c) == store[c]

\* With nothing stored it is over before anything else can happen.
ResetStarts(c) ==
  /\ conn[c] \notin {"leaving", "ended"}
  /\ ~resetting[c]
  /\ Topics(c) # {}
  /\ resetting' = [resetting EXCEPT ![c] = TRUE]
  /\ doomed' = [doomed EXCEPT ![c] = Topics(c)]
  /\ UNCHANGED <<replicas, raced, published, retained, faults>>

Clears(c, e) ==
  /\ Linked(c)
  /\ e \in doomed[c]
  /\ doomed' = [doomed EXCEPT ![c] = @ \ {e}]
  /\ retained' = retained \ {e}
  /\ Broadcast("cleared")
  /\ UNCHANGED <<conn, ready, store, resetting, raced, published, faults>>

\* The broker refuses to clear e: an error of the callback is ignored here,
\* too, and the store forgets what the broker retains.
ClearRefused(c, e) ==
  /\ Fault
  /\ Linked(c)
  /\ e \in doomed[c]
  /\ doomed' = [doomed EXCEPT ![c] = @ \ {e}]
  /\ raced' = [raced EXCEPT ![c] = TRUE]
  /\ UNCHANGED <<replicas, resetting, published, retained>>

\* A reset after end(): every publish fails at once.
ResetUnsent(c) ==
  /\ conn[c] \in {"leaving", "ended"}
  /\ store' = [store EXCEPT ![c] = {}]
  /\ raced' = [raced EXCEPT ![c] = @ \/ Topics(c) # {}]
  /\ UNCHANGED <<conn, ready, inbox, doomed, resetting, published, retained, faults>>

ResetEnds(c) ==
  /\ resetting[c]
  /\ doomed[c] = {}
  /\ resetting' = [resetting EXCEPT ![c] = FALSE]
  /\ store' = [store EXCEPT ![c] = {}]
  /\ UNCHANGED <<conn, ready, inbox, doomed, raced, published, retained, faults>>

-----------------------------------------------------------------------------

MqttNext ==
  \/ \E c \in Consumers :
       \/ Connects(c) \/ Closes(c) \/ ErrorEnds(c) \/ Crash(c)
       \/ Unsubscribes(c) \/ Leaves(c)
       \/ ReadBalance(c) \/ ResetStarts(c) \/ ResetUnsent(c) \/ ResetEnds(c)
       \/ \E e \in Entries :
            \/ Increment(c, e) \/ IncrementUnsent(c, e)
            \/ Clears(c, e) \/ ClearRefused(c, e)
       \/ \E m \in Messages : OnMessage(c, m)
  \/ \E e \in Entries : Arrives(e) \/ Confirmed(e) \/ Refused(e) \/ Expires(e)

MqttSpec == MqttInit /\ [][MqttNext]_mqttVars

-----------------------------------------------------------------------------
(* Properties.                                                             *)

\* A connected process counts every entry that the broker retains and that
\* has not expired, or has it on its way, whatever connections broke and
\* processes restarted; only its own reset can make it miss some, when it
\* overlapped with an increment or failed in part (mqtt.ts:112-129, 220-251).
NothingIsMissed ==
  \A c \in Consumers :
    conn[c] = "up" /\ ~raced[c] => Unexpired(retained) \subseteq store[c] \cup inbox[c]

\* After an increment a process counts its own entry, whether or not the echo
\* has come, while the broker retains it
\* (tests/coordinators/mqtt-coordinator.spec.ts:72-73).
OwnIsCounted ==
  \A e \in Unexpired(retained) :
    phase[e] = "kept" /\ by[e] # "nobody" /\ ~raced[by[e]] => e \in store[by[e]]

\* A connected process that is not ready has heard nothing yet: the broker
\* retains nothing, or it is on its way, expired or not (mqtt.ts:39-44).
ReadyOnceHeard ==
  \A c \in Consumers :
    conn[c] = "up" /\ ready[c] = "pending" /\ retained # {} => inbox[c] # {}

\* The quota a connected process is told of leaves room for every unexpired
\* entry that the broker retains, but those whose message is on its way to it
\* or that its own reset forgot (mqtt.ts:183-205).
AnswersLeaveRoom ==
  \A c \in Consumers :
    conn[c] = "up" /\ ~raced[c] /\ Answer(c) > 0
      => Answer(c) + Cardinality(Unexpired(retained) \ inbox[c]) <= MaxBatch
=============================================================================
