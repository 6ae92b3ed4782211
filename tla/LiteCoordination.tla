-------------------------- MODULE LiteCoordination --------------------------
(***************************************************************************)
(* The lite coordinator: src/coordinators/lite.ts, the socket.io client it *)
(* wraps (src/CoordinationClient.ts) and the server that keeps the counter *)
(* of a queue (src/CoordinationServer.ts), a CoordinatorStore in memory.   *)
(*                                                                         *)
(* A client keeps the last balance it was told and answers reads from it.  *)
(* Increments travel one way, balances the other, in order on each link;   *)
(* what a client emits while its link is down waits in socket.io's buffer  *)
(* and is sent before the 'connect' handler runs.  A link that breaks      *)
(* loses what is under way on it.  The server forgets everything when it   *)
(* restarts.  Authentication, encryption (but for the expiry of a message),*)
(* ping and pong change no state here and are left out.                    *)
(***************************************************************************)
EXTENDS CoordinatorStore, Sequences, FiniteSets

CONSTANTS
  Consumers,    \* the processes, one client each
  MaxInFlight,  \* bound: messages under way in one direction of a link
  MaxUses,      \* bound: items used in one window
  MaxFaults     \* bound: broken links, restarts and expired messages

ASSUME LiteAssumption ==
  /\ IsFiniteSet(Consumers)
  /\ MaxInFlight \in Nat \ {0}
  /\ MaxUses \in Nat
  /\ MaxFaults \in Nat

VARIABLES
  known,      \* whether the server has a coordinator for the queue
  link,       \* link[c]: never connected ("new"), "up" or "down"
  outbox,     \* outbox[c]: what c emitted and the server has not handled
  inbox,      \* inbox[c]: balances sent to c that it has not handled
  cached,     \* cached[c]: #balance of the coordinator
  waiting,    \* waiting[c]: c awaits the confirmation of an increment
  claim,      \* claim[c]: quota taken and not used
  used,       \* history: items used since the window began
  gone,       \* history: those whose increment or count got lost
  refused,    \* history: increments refused, as for an unknown queue
  restarted,  \* history: whether the server was restarted
  faults      \* bound on the faults so far

server == <<total, known>>
links == <<link, outbox, inbox>>
clients == <<cached, waiting, claim>>
liteHistory == <<used, gone, refused, restarted>>
liteVars == <<server, links, clients, liteHistory, faults>>

Coordination == [kind |-> "coordinate", by |-> 0]
Incrementing(n) == [kind |-> "increment", by |-> n]
Resetting == [kind |-> "reset", by |-> 0]

Emitted == {Coordination, Resetting} \cup {Incrementing(n) : n \in 1 .. MaxBatch}

LiteTypeOK ==
  /\ StoreTypeOK
  /\ known \in BOOLEAN
  /\ link \in [Consumers -> {"new", "up", "down"}]
  /\ outbox \in [Consumers -> Seq(Emitted)]
  /\ inbox \in [Consumers -> Seq(0 .. MaxBatch)]
  /\ cached \in [Consumers -> 0 .. MaxBatch]
  /\ waiting \in [Consumers -> BOOLEAN]
  /\ claim \in [Consumers -> 0 .. MaxBatch]
  /\ used \in Nat /\ gone \in Nat /\ refused \in Nat /\ faults \in Nat
  /\ restarted \in BOOLEAN

LiteInit ==
  /\ StoreInit
  /\ known = FALSE
  /\ link = [c \in Consumers |-> "new"]
  /\ outbox = [c \in Consumers |-> <<>>]
  /\ inbox = [c \in Consumers |-> <<>>]
  /\ cached = [c \in Consumers |-> 0]
  /\ waiting = [c \in Consumers |-> FALSE]
  /\ claim = [c \in Consumers |-> 0]
  /\ used = 0 /\ gone = 0 /\ refused = 0 /\ faults = 0
  /\ restarted = FALSE

Up == {c \in Consumers : link[c] = "up"}

\* The items of the increments in a sequence of emitted messages, numbered
\* within their message.
ItemsIn(s) == {x \in (DOMAIN s) \X (1 .. MaxBatch) : x[2] <= s[x[1]].by}

\* How many are on their way from the clients of C.
ItemsFrom(C) == Cardinality(UNION {{c} \X ItemsIn(outbox[c]) : c \in C})

-----------------------------------------------------------------------------
(* The links.                                                              *)

\* Mutant: a client that introduces the queue on its first connection only.
IntroducesOnce(c) == IF link[c] = "new" THEN <<Coordination>> ELSE <<>>
\* What the 'connect' handler emits, after the buffer was sent.
Introduces(c) == <<Coordination>>

\* The server registers the socket and sends it the balance it knows.
Connect(c) ==
  /\ link[c] # "up"
  /\ link' = [link EXCEPT ![c] = "up"]
  /\ outbox' = [outbox EXCEPT ![c] = @ \o Introduces(c)]
  /\ inbox' = [inbox EXCEPT ![c] = IF known THEN <<Balance>> ELSE <<>>]
  /\ UNCHANGED <<server, clients, liteHistory, faults>>

\* The links of C break, and lose what is under way.
Break(C) ==
  /\ link' = [c \in Consumers |-> IF c \in C THEN "down" ELSE link[c]]
  /\ outbox' = [c \in Consumers |-> IF c \in C THEN <<>> ELSE outbox[c]]
  /\ inbox' = [c \in Consumers |-> IF c \in C THEN <<>> ELSE inbox[c]]

\* Mutant: a queue forgotten with the last socket, as an idle one.
ForgetsIdle(c) ==
  IF Up = {c} THEN known' = FALSE /\ ResetTotal ELSE UNCHANGED server
\* #onSocketDisconnect deletes the socket, and nothing else.
OnSocketDisconnect(c) == UNCHANGED server

Disconnect(c) ==
  /\ faults < MaxFaults
  /\ faults' = faults + 1
  /\ link[c] = "up"
  /\ Break({c})
  /\ OnSocketDisconnect(c)
  /\ gone' = gone + ItemsFrom({c})
  /\ UNCHANGED <<clients, used, refused, restarted>>

ServerRestarts ==
  /\ faults < MaxFaults
  /\ faults' = faults + 1
  /\ Break(Up)
  /\ known' = FALSE
  /\ ResetTotal
  /\ gone' = gone + total + ItemsFrom(Up)
  /\ restarted' = TRUE
  /\ UNCHANGED <<clients, used, refused>>

-----------------------------------------------------------------------------
(* The server.                                                             *)

Handles(c, k) ==
  /\ link[c] = "up"
  /\ outbox[c] # <<>>
  /\ Head(outbox[c]).kind = k
  /\ outbox' = [outbox EXCEPT ![c] = Tail(@)]
  /\ UNCHANGED <<link, inbox, clients, restarted, faults>>

\* Mutant: a second client's 'coordinate' starts the count anew.
InitializeAnew == known' = TRUE /\ ResetTotal
\* #initializeNewCoordinator: the first 'coordinate' counts.
InitializeNewCoordinator == known' = TRUE /\ UNCHANGED total

HandleCoordinate(c) ==
  /\ Handles(c, "coordinate")
  /\ InitializeNewCoordinator
  /\ UNCHANGED <<used, gone, refused>>

\* #incrementBalance; for an unknown queue the sender gets an 'error' event,
\* which it only prints.
HandleIncrement(c) ==
  LET n == Head(outbox[c]).by
  IN  /\ Handles(c, "increment")
      /\ IF known THEN Increment(n) /\ UNCHANGED <<gone, refused>>
                  ELSE /\ gone' = gone + n /\ refused' = refused + 1
                       /\ UNCHANGED total
      /\ UNCHANGED <<known, used>>

\* #onSocketEvent cannot read a message that is past its validity (1000
\* seconds), like one that waited in the buffer for a long time; the sender
\* gets an 'error' event.  'coordinate' is sent at once.
InvalidEvent(c) ==
  /\ faults < MaxFaults
  /\ faults' = faults + 1
  /\ link[c] = "up"
  /\ outbox[c] # <<>>
  /\ Head(outbox[c]).kind # "coordinate"
  /\ outbox' = [outbox EXCEPT ![c] = Tail(@)]
  /\ gone' = gone + Head(outbox[c]).by
  /\ UNCHANGED <<server, link, inbox, clients, used, refused, restarted>>

\* A new window: nothing is used, and nothing lost of it.
NewWindow == ResetTotal /\ used' = 0 /\ gone' = 0

\* #resetBalance.
HandleReset(c) ==
  /\ Handles(c, "reset")
  /\ IF known THEN NewWindow ELSE UNCHANGED <<total, used, gone>>
  /\ UNCHANGED <<known, refused>>

WindowEnds ==
  /\ known
  /\ NewWindow
  /\ UNCHANGED <<known, links, clients, refused, restarted, faults>>

\* #onInterval, every 100 ms.  The setImmediate of the first increment calls
\* the same function, once, and adds no behaviour: the timer may fire then.
OnInterval ==
  /\ known
  /\ \A c \in Up : Len(inbox[c]) < MaxInFlight
  /\ inbox' = [c \in Consumers |-> IF c \in Up THEN Append(inbox[c], Balance) ELSE inbox[c]]
  /\ UNCHANGED <<server, link, outbox, clients, liteHistory, faults>>

-----------------------------------------------------------------------------
(* The client and its consumer.                                            *)

\* Mutant: balances heard by the listener of a pending increment only.
OnBalanceWaiting(c) == IF waiting[c] THEN Head(inbox[c]) ELSE cached[c]
\* What the callback of lite.ts keeps of a broadcast.
OnBalance(c) == Head(inbox[c])

\* Any balance confirms every pending increment: each has added a listener.
Receive(c) ==
  /\ link[c] = "up"
  /\ inbox[c] # <<>>
  /\ inbox' = [inbox EXCEPT ![c] = Tail(@)]
  /\ cached' = [cached EXCEPT ![c] = OnBalance(c)]
  /\ waiting' = [waiting EXCEPT ![c] = FALSE]
  /\ UNCHANGED <<server, link, outbox, claim, liteHistory, faults>>

\* A tick reads the cached balance, whatever the state of the link.
Read(c) ==
  /\ claim[c] = 0
  /\ ~waiting[c]
  /\ cached[c] > 0
  /\ claim' = [claim EXCEPT ![c] = cached[c]]
  /\ UNCHANGED <<server, links, cached, waiting, liteHistory, faults>>

\* It uses some of it and emits the increment.
Spend(c) ==
  /\ Len(outbox[c]) < MaxInFlight
  /\ \E n \in 1 .. claim[c] :
       /\ used + n <= MaxUses
       /\ used' = used + n
       /\ claim' = [claim EXCEPT ![c] = @ - n]
       /\ outbox' = [outbox EXCEPT ![c] = Append(@, Incrementing(n))]
  /\ waiting' = [waiting EXCEPT ![c] = TRUE]
  /\ UNCHANGED <<server, link, inbox, cached, gone, refused, restarted, faults>>

GiveBack(c) ==
  /\ claim[c] > 0
  /\ claim' = [claim EXCEPT ![c] = 0]
  /\ UNCHANGED <<server, links, cached, waiting, liteHistory, faults>>

\* purge.  Its own wait for any balance holds up nobody but its caller.
Purge(c) ==
  /\ link[c] # "new"
  /\ Len(outbox[c]) < MaxInFlight
  /\ outbox' = [outbox EXCEPT ![c] = Append(@, Resetting)]
  /\ UNCHANGED <<server, link, inbox, clients, liteHistory, faults>>

-----------------------------------------------------------------------------

Serve(c) == HandleCoordinate(c) \/ HandleIncrement(c) \/ HandleReset(c)
Tick(c) == Read(c) \/ Spend(c) \/ GiveBack(c)

LiteNext ==
  \/ \E c \in Consumers :
       \/ Connect(c) \/ Disconnect(c) \/ Serve(c) \/ InvalidEvent(c)
       \/ Receive(c) \/ Tick(c) \/ Purge(c)
  \/ ServerRestarts \/ WindowEnds \/ OnInterval

\* socket.io reconnects and delivers, the server's timer fires, a tick ends.
LiteSpec ==
  /\ LiteInit
  /\ [][LiteNext]_liteVars
  /\ \A c \in Consumers :
       /\ WF_liteVars(Connect(c)) /\ WF_liteVars(Serve(c))
       /\ WF_liteVars(Receive(c)) /\ WF_liteVars(Tick(c))
  /\ WF_liteVars(OnInterval)

-----------------------------------------------------------------------------
(* Properties.                                                             *)

\* Every use since the window began is counted, on its way to the server, or
\* lost with a link, the server or an expired message: buffers, reconnections
\* and the windows of several clients drop nothing silently
\* (CoordinationClient.ts:68-85).
UsesAreAccounted == used <= total + ItemsFrom(Consumers) + gone

\* As long as no link breaks, no message expires and the server lives, every
\* use is counted or on its way: what is refused or cleared with a second
\* 'coordinate' would be neither (CoordinationServer.ts:149-171).
FaultlessIsCounted == faults = 0 => used <= total + ItemsFrom(Consumers)

\* As long as the server lives, no increment finds its queue unknown, in
\* whatever order clients connect, buffer and break (CoordinationServer.ts:165).
NeverRefused == ~restarted => refused = 0

\* An increment is not awaited for ever, also when the server restarted in
\* between and has to learn of the queue first (CoordinationClient.ts:83).
IncrementReturns == \A c \in Consumers : waiting[c] ~> ~waiting[c]

\* When the counter comes to rest, every client learns its balance
\* (CoordinationServer.ts:63-68).
Converges ==
  \A b \in 0 .. MaxBatch :
    <>[](known /\ Balance = b) => \A c \in Consumers : <>[](cached[c] = b)

\* Once its increment is confirmed, a client's items are counted: nothing of
\* it is on its way (tests/coordinators/lite-coordinator.spec.ts:49-50).
ConfirmedIsCounted ==
  \A c \in Consumers : ~waiting[c] => ItemsFrom({c}) = 0
=============================================================================
