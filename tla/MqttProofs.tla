----------------------------- MODULE MqttProofs -----------------------------
(***************************************************************************)
(* Theorems about MqttStore, for any number of processes and increments.   *)
(***************************************************************************)
EXTENDS MqttStore, FiniteSetTheorems, TLAPS

\* MqttTypeOK without what a read answers.
MqttShape ==
  /\ conn \in [Consumers -> {"connecting", "up", "down", "leaving", "ended"}]
  /\ ready \in [Consumers -> {"pending", "resolved", "rejected"}]
  /\ store \in [Consumers -> SUBSET Entries]
  /\ inbox \in [Consumers -> SUBSET Messages]
  /\ doomed \in [Consumers -> SUBSET Entries]
  /\ resetting \in [Consumers -> BOOLEAN]
  /\ raced \in [Consumers -> BOOLEAN]
  /\ phase \in [Entries -> EntryPhases]
  /\ by \in [Entries -> Consumers \cup {"nobody"}]
  /\ old \in [Entries -> BOOLEAN]
  /\ retained \in SUBSET Entries
  /\ faults \in 0 .. MaxFaults

\* What is being published has its process; what is stored, on its way or
\* retained is published no more.
PublisherInv == \A e \in Entries : phase[e] \in {"sent", "held"} => by[e] \in Consumers
ArrivedInv ==
  \A e \in Entries :
    phase[e] \in {"free", "sent"}
      => /\ e \notin retained
         /\ \A c \in Consumers : e \notin store[c] /\ e \notin inbox[c]

\* During a reset that took in nothing new, what is stored and retained is
\* still to be cleared.
ResetInv ==
  \A c \in Consumers :
    resetting[c] /\ ~raced[c] => store[c] \cap retained \subseteq doomed[c]

MqttInv ==
  /\ MqttShape /\ PublisherInv /\ ArrivedInv /\ ResetInv
  /\ NothingIsMissed /\ OwnIsCounted /\ ReadyOnceHeard

-----------------------------------------------------------------------------

LEMMA Distinct == "cleared" \notin Entries /\ "nobody" \notin Consumers
BY MqttAssumption

\* The types.
LEMMA ShapeStep ==
  ASSUME MqttShape, PublisherInv, [MqttNext]_mqttVars
  PROVE  MqttShape'
<1> USE MqttAssumption
    DEF MqttShape, PublisherInv, replicas, resets, published, EntryPhases,
        Messages, Fault, Ends, Broadcast, Unexpired, Linked
<1>1. ASSUME NEW c \in Consumers, Connects(c) PROVE MqttShape'
  BY <1>1 DEF Connects
<1>2. ASSUME NEW c \in Consumers, Closes(c) PROVE MqttShape'
  BY <1>2 DEF Closes
<1>3. ASSUME NEW c \in Consumers, ErrorEnds(c) PROVE MqttShape'
  BY <1>3 DEF ErrorEnds
<1>4. ASSUME NEW c \in Consumers, Unsubscribes(c) \/ Leaves(c) PROVE MqttShape'
  BY <1>4 DEF Unsubscribes, Leaves
<1>5. ASSUME NEW c \in Consumers, Crash(c) PROVE MqttShape'
  BY <1>5 DEF Crash
<1>6. ASSUME NEW c \in Consumers, NEW m \in Messages, OnMessage(c, m)
      PROVE  MqttShape'
  BY <1>6 DEF OnMessage
<1>7. ASSUME NEW c \in Consumers, ReadBalance(c) PROVE MqttShape'
  BY <1>7 DEF ReadBalance
<1>8. ASSUME NEW c \in Consumers, ResetStarts(c) PROVE MqttShape'
  BY <1>8 DEF ResetStarts, Topics
<1>9. ASSUME NEW c \in Consumers, ResetEnds(c) \/ ResetUnsent(c)
      PROVE  MqttShape'
  <2>1. CASE ResetEnds(c)
    BY <2>1 DEF ResetEnds
  <2>2. CASE ResetUnsent(c)
    BY <2>2 DEF ResetUnsent, Topics
  <2> QED
    BY <1>9, <2>1, <2>2
<1>10. ASSUME NEW c \in Consumers, NEW e \in Entries,
              Increment(c, e) \/ IncrementUnsent(c, e)
       PROVE  MqttShape'
  BY <1>10 DEF Increment, IncrementUnsent
<1>11. ASSUME NEW c \in Consumers, NEW e \in Entries,
              Clears(c, e) \/ ClearRefused(c, e)
       PROVE  MqttShape'
  <2>1. CASE Clears(c, e)
    BY <2>1 DEF Clears
  <2>2. CASE ClearRefused(c, e)
    BY <2>2 DEF ClearRefused
  <2> QED
    BY <1>11, <2>1, <2>2
<1>12. ASSUME NEW e \in Entries, Arrives(e) PROVE MqttShape'
  BY <1>12 DEF Arrives
<1>13. ASSUME NEW e \in Entries, Confirmed(e) \/ Refused(e) PROVE MqttShape'
  BY <1>13 DEF Confirmed, Refused, StoresOwn
<1>14. ASSUME NEW e \in Entries, Expires(e) PROVE MqttShape'
  BY <1>14 DEF Expires
<1>15. CASE UNCHANGED mqttVars
  BY <1>15 DEF mqttVars
<1> QED
  BY <1>1, <1>2, <1>3, <1>4, <1>5, <1>6, <1>7, <1>8, <1>9, <1>10, <1>11, <1>12,
     <1>13, <1>14, <1>15 DEF MqttNext

-----------------------------------------------------------------------------
(* One lemma per conjunct: what the processes do, then what the entries do. *)

LEMMA PublisherStep ==
  ASSUME MqttInv, [MqttNext]_mqttVars
  PROVE  PublisherInv'
<1> USE Distinct DEF MqttInv, MqttShape, PublisherInv, replicas, resets, published
<1>1. CASE UNCHANGED <<phase, by>>
  BY <1>1
<1>2. ASSUME NEW c \in Consumers, Crash(c) PROVE PublisherInv'
  BY <1>2 DEF Crash
<1>3. ASSUME NEW c \in Consumers, NEW e \in Entries,
             Increment(c, e) \/ IncrementUnsent(c, e)
      PROVE  PublisherInv'
  BY <1>3 DEF Increment, IncrementUnsent
<1>4. ASSUME NEW e \in Entries, Arrives(e) \/ Confirmed(e) \/ Refused(e)
      PROVE  PublisherInv'
  BY <1>4 DEF Arrives, Confirmed, Refused
<1> QED
  BY <1>1, <1>2, <1>3, <1>4
     DEF MqttNext, Connects, Closes, ErrorEnds, Unsubscribes, Leaves, OnMessage,
         ReadBalance, ResetStarts, ResetUnsent, ResetEnds, Clears, ClearRefused,
         Expires, mqttVars

LEMMA ArrivedStep ==
  ASSUME MqttInv, [MqttNext]_mqttVars
  PROVE  ArrivedInv'
<1> USE Distinct
    DEF MqttInv, MqttShape, ArrivedInv, replicas, resets, published, Broadcast,
        Unexpired, Ends, Messages
<1>1. CASE UNCHANGED <<store, inbox, phase, retained>>
  BY <1>1
<1>2. ASSUME NEW c \in Consumers, Connects(c) PROVE ArrivedInv'
  BY <1>2 DEF Connects, Subscribes
<1>3. ASSUME NEW c \in Consumers,
             Closes(c) \/ ErrorEnds(c) \/ Unsubscribes(c) \/ Leaves(c)
      PROVE  ArrivedInv'
  BY <1>3 DEF Closes, ErrorEnds, Unsubscribes, Leaves
<1>4. ASSUME NEW c \in Consumers, Crash(c) PROVE ArrivedInv'
  BY <1>4 DEF Crash, MqttShape, EntryPhases
<1>5. ASSUME NEW c \in Consumers, NEW m \in Messages, OnMessage(c, m)
      PROVE  ArrivedInv'
  BY <1>5 DEF OnMessage
<1>6. ASSUME NEW c \in Consumers, ReadBalance(c) \/ ResetEnds(c) \/ ResetUnsent(c)
      PROVE  ArrivedInv'
  BY <1>6 DEF ReadBalance, ResetEnds, ResetUnsent
<1>7. ASSUME NEW c \in Consumers, NEW e \in Entries,
             Increment(c, e) \/ IncrementUnsent(c, e)
      PROVE  ArrivedInv'
  BY <1>7 DEF Increment, IncrementUnsent
<1>8. ASSUME NEW c \in Consumers, NEW e \in Entries, Clears(c, e)
      PROVE  ArrivedInv'
  BY <1>8 DEF Clears
<1>9. ASSUME NEW e \in Entries, Arrives(e) PROVE ArrivedInv'
  BY <1>9 DEF Arrives
<1>10. ASSUME NEW e \in Entries, Confirmed(e) \/ Refused(e) PROVE ArrivedInv'
  BY <1>10 DEF Confirmed, Refused, StoresOwn
<1> QED
  BY <1>1, <1>2, <1>3, <1>4, <1>5, <1>6, <1>7, <1>8, <1>9, <1>10
     DEF MqttNext, ResetStarts, ClearRefused, Expires, mqttVars

LEMMA ResetStep ==
  ASSUME MqttInv, [MqttNext]_mqttVars
  PROVE  ResetInv'
<1> USE Distinct
    DEF MqttInv, MqttShape, ResetInv, replicas, resets, published, Unexpired
<1>1. CASE UNCHANGED <<store, retained, doomed, resetting, raced>>
  BY <1>1
<1>2. ASSUME NEW c \in Consumers, Crash(c) PROVE ResetInv'
  BY <1>2 DEF Crash
<1>3. ASSUME NEW c \in Consumers, NEW m \in Messages, OnMessage(c, m)
      PROVE  ResetInv'
  BY <1>3 DEF OnMessage, Messages
<1>4. ASSUME NEW c \in Consumers, ReadBalance(c) PROVE ResetInv'
  BY <1>4 DEF ReadBalance
<1>5. ASSUME NEW c \in Consumers, ResetStarts(c) PROVE ResetInv'
  BY <1>5 DEF ResetStarts, Topics
<1>6. ASSUME NEW c \in Consumers, ResetEnds(c) \/ ResetUnsent(c) PROVE ResetInv'
  BY <1>6 DEF ResetEnds, ResetUnsent
<1>7. ASSUME NEW c \in Consumers, NEW e \in Entries, Clears(c, e) \/ ClearRefused(c, e)
      PROVE  ResetInv'
  BY <1>7 DEF Clears, ClearRefused
<1>8. ASSUME NEW e \in Entries, Arrives(e) PROVE ResetInv'
  BY <1>8 DEF Arrives, ArrivedInv
<1>9. ASSUME NEW e \in Entries, Confirmed(e) PROVE ResetInv'
  BY <1>9 DEF Confirmed, StoresOwn, PublisherInv
<1>10. ASSUME NEW e \in Entries, Refused(e) PROVE ResetInv'
  BY <1>10 DEF Refused, StoresOwn, PublisherInv, ArrivedInv
<1>11. ASSUME NEW c \in Consumers, NEW e \in Entries, IncrementUnsent(c, e)
       PROVE  ResetInv'
  BY <1>11 DEF IncrementUnsent, ArrivedInv
<1> QED
  BY <1>1, <1>2, <1>3, <1>4, <1>5, <1>6, <1>7, <1>8, <1>9, <1>10, <1>11
     DEF MqttNext, Connects, Closes, ErrorEnds, Unsubscribes, Leaves,
         Increment, Expires, mqttVars

LEMMA MissedStep ==
  ASSUME MqttInv, [MqttNext]_mqttVars
  PROVE  NothingIsMissed'
<1> USE Distinct
    DEF MqttInv, MqttShape, NothingIsMissed, replicas, resets, published,
        Unexpired, Broadcast, Ends
<1>1. CASE UNCHANGED <<conn, store, inbox, raced, old, retained>>
  BY <1>1
<1>2. ASSUME NEW c \in Consumers, Connects(c) PROVE NothingIsMissed'
  BY <1>2 DEF Connects, Subscribes
<1>3. ASSUME NEW c \in Consumers,
             Closes(c) \/ ErrorEnds(c) \/ Unsubscribes(c) \/ Leaves(c)
      PROVE  NothingIsMissed'
  BY <1>3 DEF Closes, ErrorEnds, Unsubscribes, Leaves
<1>4. ASSUME NEW c \in Consumers, Crash(c) PROVE NothingIsMissed'
  BY <1>4 DEF Crash
<1>5. ASSUME NEW c \in Consumers, NEW m \in Messages, OnMessage(c, m)
      PROVE  NothingIsMissed'
  BY <1>5 DEF OnMessage, Messages
<1>6. ASSUME NEW c \in Consumers, ReadBalance(c) PROVE NothingIsMissed'
  BY <1>6 DEF ReadBalance
<1>7. ASSUME NEW c \in Consumers, ResetEnds(c) \/ ResetUnsent(c)
      PROVE  NothingIsMissed'
  BY <1>7 DEF ResetEnds, ResetUnsent, ResetInv
<1>8. ASSUME NEW c \in Consumers, NEW e \in Entries, Clears(c, e) \/ ClearRefused(c, e)
      PROVE  NothingIsMissed'
  BY <1>8 DEF Clears, ClearRefused
<1>9. ASSUME NEW e \in Entries, Arrives(e) PROVE NothingIsMissed'
  BY <1>9 DEF Arrives
<1>10. ASSUME NEW e \in Entries, Confirmed(e) \/ Refused(e)
       PROVE  NothingIsMissed'
  BY <1>10 DEF Confirmed, Refused, StoresOwn
<1>11. ASSUME NEW e \in Entries, Expires(e) PROVE NothingIsMissed'
  BY <1>11 DEF Expires
<1>12. ASSUME NEW c \in Consumers, NEW e \in Entries, IncrementUnsent(c, e)
       PROVE  NothingIsMissed'
  BY <1>12 DEF IncrementUnsent
<1> QED
  BY <1>1, <1>2, <1>3, <1>4, <1>5, <1>6, <1>7, <1>8, <1>9, <1>10, <1>11,
     <1>12
     DEF MqttNext, Increment, ResetStarts, mqttVars

LEMMA OwnStep ==
  ASSUME MqttInv, [MqttNext]_mqttVars
  PROVE  OwnIsCounted'
<1> USE Distinct
    DEF MqttInv, MqttShape, OwnIsCounted, replicas, resets, published, Unexpired
<1>1. CASE UNCHANGED <<store, raced, phase, by, old, retained>>
  BY <1>1
<1>2. ASSUME NEW c \in Consumers, Crash(c) PROVE OwnIsCounted'
  BY <1>2 DEF Crash
<1>3. ASSUME NEW c \in Consumers, NEW m \in Messages, OnMessage(c, m)
      PROVE  OwnIsCounted'
  BY <1>3 DEF OnMessage
<1>4. ASSUME NEW c \in Consumers, ReadBalance(c) PROVE OwnIsCounted'
  BY <1>4 DEF ReadBalance
<1>5. ASSUME NEW c \in Consumers, ResetEnds(c) \/ ResetUnsent(c)
      PROVE  OwnIsCounted'
  <2>1. CASE ResetEnds(c)
    BY <2>1 DEF ResetEnds, ResetInv
  <2>2. CASE ResetUnsent(c)
    <3>1. /\ UNCHANGED <<phase, by, old, retained>>
          /\ \A d \in Consumers : store'[d] = IF d = c THEN {} ELSE store[d]
          /\ \A d \in Consumers :
               raced'[d] = IF d = c THEN raced[c] \/ store[c] # {} ELSE raced[d]
      BY <2>2 DEF ResetUnsent, Topics
    <3> QED
      BY <3>1
  <2> QED
    BY <1>5, <2>1, <2>2
<1>6. ASSUME NEW c \in Consumers, NEW e \in Entries, Clears(c, e) \/ ClearRefused(c, e)
      PROVE  OwnIsCounted'
  BY <1>6 DEF Clears, ClearRefused
<1>7. ASSUME NEW c \in Consumers, NEW e \in Entries,
             Increment(c, e) \/ IncrementUnsent(c, e)
      PROVE  OwnIsCounted'
  BY <1>7 DEF Increment, IncrementUnsent
<1>8. ASSUME NEW e \in Entries, Arrives(e) PROVE OwnIsCounted'
  BY <1>8 DEF Arrives
<1>9. ASSUME NEW e \in Entries, Confirmed(e) \/ Refused(e) PROVE OwnIsCounted'
  BY <1>9 DEF Confirmed, Refused, StoresOwn, PublisherInv
<1>10. ASSUME NEW e \in Entries, Expires(e) PROVE OwnIsCounted'
  BY <1>10 DEF Expires
<1> QED
  BY <1>1, <1>2, <1>3, <1>4, <1>5, <1>6, <1>7, <1>8, <1>9, <1>10
     DEF MqttNext, Connects, Closes, ErrorEnds, Unsubscribes, Leaves,
         ResetStarts, mqttVars

LEMMA ReadyStep ==
  ASSUME MqttInv, [MqttNext]_mqttVars
  PROVE  ReadyOnceHeard'
<1> USE Distinct
    DEF MqttInv, MqttShape, ReadyOnceHeard, replicas, resets, published,
        Broadcast, Ends
<1>1. CASE UNCHANGED <<conn, ready, inbox, retained>>
  BY <1>1
<1>2. ASSUME NEW c \in Consumers, Connects(c) PROVE ReadyOnceHeard'
  BY <1>2 DEF Connects, Subscribes
<1>3. ASSUME NEW c \in Consumers,
             Closes(c) \/ ErrorEnds(c) \/ Unsubscribes(c) \/ Leaves(c)
      PROVE  ReadyOnceHeard'
  BY <1>3 DEF Closes, ErrorEnds, Unsubscribes, Leaves
<1>4. ASSUME NEW c \in Consumers, Crash(c) PROVE ReadyOnceHeard'
  BY <1>4 DEF Crash
<1>5. ASSUME NEW c \in Consumers, NEW m \in Messages, OnMessage(c, m)
      PROVE  ReadyOnceHeard'
  BY <1>5 DEF OnMessage, MakesReady
<1>6. ASSUME NEW c \in Consumers, NEW e \in Entries, Clears(c, e)
      PROVE  ReadyOnceHeard'
  BY <1>6 DEF Clears
<1>7. ASSUME NEW e \in Entries, Arrives(e) PROVE ReadyOnceHeard'
  BY <1>7 DEF Arrives
<1> QED
  BY <1>1, <1>2, <1>3, <1>4, <1>5, <1>6, <1>7
     DEF MqttNext, Increment, IncrementUnsent, ReadBalance, ResetStarts,
         ResetUnsent, ResetEnds, ClearRefused, Confirmed, Refused, Expires, mqttVars

-----------------------------------------------------------------------------

LEMMA MqttInvInit == MqttInit => MqttInv
BY MqttAssumption
   DEF MqttInit, MqttInv, MqttShape, PublisherInv, ArrivedInv, ResetInv,
       NothingIsMissed, OwnIsCounted, ReadyOnceHeard, EntryPhases, Messages,
       Unexpired

\* The invariant: what is stored has been published or refused, and what a reset
\* is about to forget is about to be cleared there.
THEOREM MqttInvariant == MqttSpec => []MqttInv
<1>1. MqttInv /\ [MqttNext]_mqttVars => MqttInv'
  BY ShapeStep, PublisherStep, ArrivedStep, ResetStep, MissedStep, OwnStep,
     ReadyStep DEF MqttInv
<1> QED
  BY MqttInvInit, <1>1, PTL DEF MqttSpec

\* A connected process misses no retained entry, unless its reset overlapped
\* with an increment or failed in part (mqtt.ts:112-129, 220-251).
THEOREM NothingGetsMissed == MqttSpec => []NothingIsMissed
<1>1. MqttInv => NothingIsMissed
  BY DEF MqttInv
<1> QED
  BY <1>1, MqttInvariant, PTL

\* An increment that has returned counts for its own process (mqtt.ts:106).
THEOREM OwnGetsCounted == MqttSpec => []OwnIsCounted
<1>1. MqttInv => OwnIsCounted
  BY DEF MqttInv
<1> QED
  BY <1>1, MqttInvariant, PTL

\* A connected process is ready, or has nothing to hear (mqtt.ts:39-44).
THEOREM ReadyWhenHeard == MqttSpec => []ReadyOnceHeard
<1>1. MqttInv => ReadyOnceHeard
  BY DEF MqttInv
<1> QED
  BY <1>1, MqttInvariant, PTL

\* Every variable keeps its type, and no read answers less than 0.
THEOREM MqttTypeCorrect == MqttSpec => []MqttTypeOK
<1>1. MqttInv => MqttTypeOK
  <2> SUFFICES ASSUME MqttInv, NEW c \in Consumers
               PROVE  Answer(c) \in 0 .. MaxBatch
    BY DEF MqttInv, MqttShape, MqttTypeOK
  <2>1. Unexpired(store[c]) \in SUBSET Entries
    BY DEF MqttInv, MqttShape, Unexpired
  <2>2. Cardinality(Unexpired(store[c])) \in Nat
    BY <2>1, MqttAssumption, FS_Subset, FS_CardinalityType
  <2> QED
    BY <2>2, MqttAssumption DEF Answer
<1> QED
  BY <1>1, MqttInvariant, PTL

\* Whatever connections broke and processes restarted, a process is told of no
\* quota that a retained entry uses, unless it is about to hear of that entry
\* or a reset of its own overlapped with it or failed to clear it.
THEOREM RoomIsLeft == MqttSpec => []AnswersLeaveRoom
<1>1. MqttInv => AnswersLeaveRoom
  <2> SUFFICES ASSUME MqttInv, NEW c \in Consumers, conn[c] = "up", ~raced[c],
                      Answer(c) > 0
               PROVE  Answer(c) + Cardinality(Unexpired(retained) \ inbox[c]) <= MaxBatch
    BY DEF AnswersLeaveRoom
  <2> DEFINE heard == Unexpired(retained) \ inbox[c]
             counted == Unexpired(store[c])
  <2>1. Unexpired(retained) \subseteq store[c] \cup inbox[c]
    BY DEF MqttInv, NothingIsMissed
  <2>2. heard \in SUBSET counted /\ counted \in SUBSET Entries
    BY <2>1 DEF MqttInv, MqttShape, Unexpired
  <2>3. IsFiniteSet(counted) /\ Cardinality(counted) \in Nat
    BY <2>2, MqttAssumption, FS_Subset, FS_CardinalityType
  <2>4. Cardinality(heard) \in Nat /\ Cardinality(heard) <= Cardinality(counted)
    BY <2>2, <2>3, FS_Subset, FS_CardinalityType
  <2>5. Answer(c) = MaxBatch - Cardinality(counted)
    BY DEF Answer
  <2> QED
    BY <2>3, <2>4, <2>5, MqttAssumption
<1> QED
  BY <1>1, MqttInvariant, PTL
=============================================================================
