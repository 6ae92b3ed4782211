--------------------------- MODULE SlidingProofs ---------------------------
(***************************************************************************)
(* Theorems about SlidingBucket, for any number of consumers, any quota,   *)
(* interval and clocks, and both drivers.                                  *)
(***************************************************************************)
EXTENDS SlidingBucket, FiniteSetTheorems, TLAPS

\* A use that is still in the window of its consumer has an entry that its
\* consumer's clock does not take as expired.
ExpiryInv ==
  \A i \in Slots :
    phase[i] \in {"sent", "entry"} /\ age[i] < Interval
      => left[i] + age[i] >= Interval + Clock(by[i])

\* A free slot belongs to nobody; a used one has its consumer.
OwnerInv == \A i \in Slots : phase[i] # "free" => by[i] \in Consumers

\* Between KEYS and MGET a consumer neither holds quota nor owes a count,
\* and the uses in its window are among the keys it listed.
ReadingOf(c) ==
  /\ mode[c] = "rest" => keys[c] = {}
  /\ mode[c] = "reading" => /\ driver = "redis"
                            /\ claim[c] = 0 /\ Uncounted(c) = {}
                            /\ Window(c) \subseteq keys[c]

ReadingInv == \A c \in Consumers : ReadingOf(c)

SlidingInv ==
  SlidingTypeOK /\ ExpiryInv /\ OwnerInv /\ ReadingInv /\ WindowBound

-----------------------------------------------------------------------------
(* Sets of slots, and what a read returns.                                 *)

LEMMA SlotSets ==
  /\ MaxBatch \in Nat /\ MaxBatch > 0 /\ Interval \in Nat /\ Interval > 0
  /\ MaxSkew \in Nat
  /\ \A S \in SUBSET Slots : IsFiniteSet(S) /\ Cardinality(S) \in Nat
  /\ \A S, T \in SUBSET Slots : S \subseteq T => Cardinality(S) <= Cardinality(T)
<1>1. \A T \in SUBSET Slots : IsFiniteSet(T)
  BY SlidingAssumption, FS_Subset
<1>2. \A T \in SUBSET Slots : Cardinality(T) \in Nat
  BY <1>1, FS_CardinalityType
<1>3. ASSUME NEW S \in SUBSET Slots, NEW T \in SUBSET Slots, S \subseteq T
      PROVE  Cardinality(S) <= Cardinality(T)
  <2>1. S \in SUBSET T /\ IsFiniteSet(T)
    BY <1>1, <1>3
  <2> QED
    BY <2>1, FS_Subset
<1>4. \A S, T \in SUBSET Slots : S \subseteq T => Cardinality(S) <= Cardinality(T)
  BY <1>3
<1> QED
  BY <1>1, <1>2, <1>4, SlidingAssumption

LEMMA AddSlot ==
  ASSUME NEW W \in SUBSET Slots, NEW i \in Slots
  PROVE  Cardinality(W \cup {i}) <= Cardinality(W) + 1
<1>1. IsFiniteSet(W) /\ Cardinality(W) \in Nat
  BY SlotSets
<1>2. Cardinality(W \cup {i}) = Cardinality(W)
      \/ Cardinality(W \cup {i}) = Cardinality(W) + 1
  BY <1>1, FS_AddElement
<1> QED
  BY <1>1, <1>2

LEMMA RemainingType ==
  ASSUME NEW S \in SUBSET Slots
  PROVE  /\ Remaining(S) \in 0 .. MaxBatch
         /\ Remaining(S) > 0 => Remaining(S) + Cardinality(S) <= MaxBatch
BY SlotSets DEF Remaining

LEMMA ClockType ==
  ASSUME SlidingTypeOK, NEW c \in Consumers
  PROVE  Clock(c) \in 0 .. MaxSkew
BY SlotSets DEF SlidingTypeOK, Clock

\* A consumer sees every entry of its own window, and every entry whose use
\* is young by its clock.
LEMMA OwnEntriesAreSeen ==
  ASSUME SlidingInv, NEW c \in Consumers, NEW i \in Entries,
         \/ by[i] = c /\ age[i] < Interval
         \/ age[i] + Lag(c, by[i]) < Interval
  PROVE  i \in Sees(c)
<1>1. i \in Slots /\ phase[i] = "entry" /\ by[i] \in Consumers
  BY DEF Entries, SlidingInv, OwnerInv
<1>2. Clock(c) \in Nat /\ Clock(by[i]) \in Nat
  BY <1>1, ClockType, SlotSets DEF SlidingInv
<1>3. age[i] \in Nat /\ left[i] \in Nat /\ Interval \in Nat
  BY <1>1, SlotSets DEF SlidingInv, SlidingTypeOK
<1>4. age[i] < Interval
  BY <1>2, <1>3 DEF Lag
<1>5. left[i] + age[i] >= Interval + Clock(by[i])
  BY <1>1, <1>4 DEF SlidingInv, ExpiryInv
<1>6. left[i] > Clock(c)
  BY <1>2, <1>3, <1>5 DEF Lag
<1> QED
  BY <1>1, <1>6 DEF Sees, Entries, Unexpired

\* A consumer at rest reads its whole window.
LEMMA WindowIsSeen ==
  ASSUME SlidingInv, NEW c \in Consumers, Uncounted(c) = {}
  PROVE  Window(c) \subseteq Sees(c)
<1> SUFFICES ASSUME NEW i \in Window(c)
             PROVE  i \in Sees(c)
  OBVIOUS
<1>1. i \in Slots /\ by[i] = c /\ age[i] < Interval /\ phase[i] = "entry"
  BY DEF Window, Uncounted
<1> QED
  BY <1>1, OwnEntriesAreSeen DEF Entries

-----------------------------------------------------------------------------
(* The bound on a window, consumer by consumer.                            *)

\* A step that takes no quota and adds no use keeps a consumer's bound.
LEMMA BoundShrinks ==
  ASSUME SlidingInv, NEW d \in Consumers, claim'[d] \in Nat,
         claim'[d] <= claim[d], Window(d)' \subseteq Window(d)
  PROVE  Cardinality(Window(d)') + claim'[d] <= MaxBatch
<1>1. Window(d) \in SUBSET Slots
  BY DEF Window
<1>2. /\ Cardinality(Window(d)') <= Cardinality(Window(d))
      /\ Cardinality(Window(d)') \in Nat /\ Cardinality(Window(d)) \in Nat
  BY <1>1, SlotSets
<1>3. Cardinality(Window(d)) + claim[d] <= MaxBatch /\ claim[d] \in Nat
  BY SlotSets DEF SlidingInv, WindowBound, SlidingTypeOK
<1> QED
  BY <1>2, <1>3, SlotSets

\* A read that ends in what S leaves, where S holds the whole window.
LEMMA BoundRead ==
  ASSUME SlidingInv, NEW c \in Consumers, NEW S \in SUBSET Slots,
         claim[c] = 0, claim' = [claim EXCEPT ![c] = Remaining(S)],
         Window(c) \subseteq S, UNCHANGED slotVars
  PROVE  WindowBound'
<1>1. \A d \in Consumers : Window(d)' = Window(d) /\ Window(d) \in SUBSET Slots
  BY DEF Window, slotVars
<1>2. claim'[c] = Remaining(S) /\ \A d \in Consumers \ {c} : claim'[d] = claim[d]
  BY DEF SlidingInv, SlidingTypeOK
<1>3. /\ Cardinality(Window(c)) <= Cardinality(S)
      /\ Cardinality(Window(c)) \in Nat /\ Cardinality(S) \in Nat
  BY <1>1, SlotSets
<1>4. Cardinality(Window(c)) <= MaxBatch
  BY <1>3, SlotSets DEF SlidingInv, WindowBound
<1>5. Cardinality(Window(c)) + Remaining(S) <= MaxBatch
  BY <1>3, <1>4, RemainingType, SlotSets
<1>6. \A d \in Consumers : Cardinality(Window(d)) + claim[d] <= MaxBatch
  BY DEF SlidingInv, WindowBound
<1> QED
  BY <1>1, <1>2, <1>5, <1>6 DEF WindowBound

-----------------------------------------------------------------------------
(* The parts of the invariant, one lemma each, one step per action.        *)

\* The steps that change a slot; the others leave all slots alone.
LEMMA TypeStep ==
  ASSUME SlidingTypeOK, [SlidingNext]_slidingVars
  PROVE  SlidingTypeOK'
<1> USE SlotSets DEF SlidingTypeOK, reading, slotVars, SlotPhases
<1>1. ASSUME NEW c \in Consumers, Read(c) PROVE SlidingTypeOK'
  <2>1. Remaining(Sees(c)) \in 0 .. MaxBatch
    BY RemainingType DEF Sees, Entries
  <2> QED
    BY <1>1, <2>1 DEF Read
<1>2. ASSUME NEW c \in Consumers, Keys(c) PROVE SlidingTypeOK'
  <2>1. Sees(c) \in SUBSET Slots
    BY DEF Sees, Entries
  <2>2. CASE Sees(c) = {}
    BY <1>2, <2>2 DEF Keys
  <2>3. CASE Sees(c) # {}
    BY <1>2, <2>1, <2>3 DEF Keys
  <2> QED
    BY <2>2, <2>3
<1>3. ASSUME NEW c \in Consumers, Mget(c) PROVE SlidingTypeOK'
  <2>1. Remaining(keys[c]) \in 0 .. MaxBatch
    BY RemainingType
  <2> QED
    BY <1>3, <2>1 DEF Mget
<1>4. ASSUME NEW c \in Consumers, Use(c) PROVE SlidingTypeOK'
  BY <1>4 DEF Use
<1>5. ASSUME NEW c \in Consumers, GiveBack(c) PROVE SlidingTypeOK'
  BY <1>5 DEF GiveBack
<1>6. ASSUME NEW c \in Consumers, Increment(c) PROVE SlidingTypeOK'
  <2>1. Expiry(c) \in 0 .. Interval + MaxSkew
    BY ClockType DEF Expiry
  <2> QED
    BY <1>6, <2>1 DEF Increment
<1>7. ASSUME NEW c \in Consumers, Insert(c) PROVE SlidingTypeOK'
  BY <1>7 DEF Insert
<1>8. ASSUME NEW c \in Consumers, ResetKeys(c) PROVE SlidingTypeOK'
  BY <1>8 DEF ResetKeys, Sees, Entries
<1>9. ASSUME NEW c \in Consumers, IncrementFails(c) PROVE SlidingTypeOK'
  BY <1>9, SlidingAssumption DEF IncrementFails
<1>10. ASSUME NEW c \in Consumers, Crash(c) PROVE SlidingTypeOK'
  BY <1>10, SlidingAssumption DEF Crash
<1>11. CASE ResetEntries
  BY <1>11 DEF ResetEntries, Forget
<1>12. CASE ResetDel
  BY <1>12 DEF ResetDel, Forget
<1>13. CASE TimePasses
  BY <1>13 DEF TimePasses, Older, Nearer
<1>14. CASE UNCHANGED slidingVars
  BY <1>14 DEF slidingVars
<1> QED
  BY <1>1, <1>2, <1>3, <1>4, <1>5, <1>6, <1>7, <1>8, <1>9, <1>10, <1>11,
     <1>12, <1>13, <1>14 DEF SlidingNext, Work

\* Only Use adds to a window and to what is not counted, and only for the
\* consumer that uses.
LEMMA WindowStep ==
  ASSUME SlidingInv, [SlidingNext]_slidingVars, NEW d \in Consumers
  PROVE  \/ Window(d)' \subseteq Window(d) /\ Uncounted(d)' \subseteq Uncounted(d)
         \/ Use(d)
<1> USE SlotSets DEF SlidingInv, SlidingTypeOK, slotVars, Window, Uncounted
<1>1. CASE UNCHANGED slotVars
  BY <1>1
<1>2. ASSUME NEW c \in Consumers, c # d, Use(c)
      PROVE  Window(d)' \subseteq Window(d) /\ Uncounted(d)' \subseteq Uncounted(d)
  BY <1>2 DEF Use
<1>3. ASSUME NEW c \in Consumers, Increment(c)
      PROVE  Window(d)' \subseteq Window(d) /\ Uncounted(d)' \subseteq Uncounted(d)
  BY <1>3 DEF Increment, Owed
<1>4. ASSUME NEW c \in Consumers, Insert(c)
      PROVE  Window(d)' \subseteq Window(d) /\ Uncounted(d)' \subseteq Uncounted(d)
  BY <1>4 DEF Insert, Sent
<1>5. ASSUME NEW c \in Consumers, IncrementFails(c)
      PROVE  Window(d)' \subseteq Window(d) /\ Uncounted(d)' \subseteq Uncounted(d)
  BY <1>5 DEF IncrementFails
<1>6. ASSUME NEW c \in Consumers, Crash(c)
      PROVE  Window(d)' \subseteq Window(d) /\ Uncounted(d)' \subseteq Uncounted(d)
  BY <1>6 DEF Crash, Sent
<1>7. ASSUME NEW S, Forget(S)
      PROVE  Window(d)' \subseteq Window(d) /\ Uncounted(d)' \subseteq Uncounted(d)
  BY <1>7 DEF Forget
<1>8. CASE TimePasses
  <2>1. ASSUME NEW i \in Slots, phase'[i] # "free"
        PROVE  by'[i] = by[i] /\ phase'[i] = phase[i] /\ age'[i] = Older(i)
    BY <1>8, <2>1 DEF TimePasses
  <2>2. ASSUME NEW i \in Slots, Older(i) < Interval PROVE age[i] < Interval
    BY <2>2 DEF Older
  <2> QED
    BY <2>1, <2>2
<1>9. CASE UNCHANGED slidingVars
  BY <1>1, <1>9 DEF slidingVars
<1> QED
  BY <1>1, <1>2, <1>3, <1>4, <1>5, <1>6, <1>7, <1>8, <1>9
     DEF SlidingNext, Work, Read, Keys, Mget, GiveBack, ResetKeys, ResetEntries,
         ResetDel

LEMMA OwnerStep ==
  ASSUME SlidingTypeOK, OwnerInv, [SlidingNext]_slidingVars
  PROVE  OwnerInv'
<1> USE DEF SlidingTypeOK, slotVars, OwnerInv, SlotPhases
<1>1. CASE UNCHANGED slotVars
  BY <1>1
<1>2. ASSUME NEW c \in Consumers, Use(c) PROVE OwnerInv'
  BY <1>2 DEF Use
<1>3. ASSUME NEW c \in Consumers, Increment(c) PROVE OwnerInv'
  BY <1>3 DEF Increment, Owed
<1>4. ASSUME NEW c \in Consumers, Insert(c) PROVE OwnerInv'
  BY <1>4 DEF Insert, Sent
<1>5. ASSUME NEW c \in Consumers, IncrementFails(c) PROVE OwnerInv'
  BY <1>5 DEF IncrementFails, Uncounted
<1>6. ASSUME NEW c \in Consumers, Crash(c) PROVE OwnerInv'
  BY <1>6 DEF Crash, Sent, Uncounted
<1>7. ASSUME NEW S, Forget(S) PROVE OwnerInv'
  BY <1>7 DEF Forget
<1>8. CASE TimePasses
  BY <1>8 DEF TimePasses
<1>9. CASE UNCHANGED slidingVars
  BY <1>1, <1>9 DEF slidingVars
<1> QED
  BY <1>1, <1>2, <1>3, <1>4, <1>5, <1>6, <1>7, <1>8, <1>9
     DEF SlidingNext, Work, Read, Keys, Mget, GiveBack, ResetKeys, ResetEntries,
         ResetDel

\* left and age move together, so an entry lives an interval at least.
LEMMA ExpiryStep ==
  ASSUME SlidingTypeOK, ExpiryInv, OwnerInv, [SlidingNext]_slidingVars
  PROVE  ExpiryInv'
<1> USE SlotSets DEF SlidingTypeOK, slotVars, ExpiryInv, SlotPhases
<1>1. driver' = driver /\ skew' = skew
  BY DEF SlidingNext, Work, Read, Keys, Mget, Use, GiveBack, Increment, Insert,
         ResetKeys, IncrementFails, Crash, ResetEntries, ResetDel, TimePasses,
         slidingVars
<1>2. \A c \in Consumers : Clock(c)' = Clock(c) /\ Clock(c) \in Nat
  BY <1>1, ClockType DEF Clock
<1>3. CASE UNCHANGED slotVars
  BY <1>1, <1>3 DEF Clock
<1>4. ASSUME NEW c \in Consumers, Use(c) PROVE ExpiryInv'
  <2> SUFFICES ASSUME NEW i \in Slots, phase'[i] \in {"sent", "entry"},
                      age'[i] < Interval
               PROVE  (left[i] + age[i] >= Interval + Clock(by[i]))'
    OBVIOUS
  <2>1. phase'[i] = phase[i] /\ by'[i] = by[i] /\ UNCHANGED <<age, left>>
    BY <1>4 DEF Use
  <2> QED
    BY <1>1, <2>1 DEF Clock
<1>5. ASSUME NEW c \in Consumers, Increment(c) PROVE ExpiryInv'
  <2> SUFFICES ASSUME NEW i \in Slots, phase'[i] \in {"sent", "entry"},
                      age'[i] < Interval
               PROVE  (left[i] + age[i] >= Interval + Clock(by[i]))'
    OBVIOUS
  <2>1. UNCHANGED <<by, age>> /\ age[i] \in Nat
    BY <1>5 DEF Increment
  <2>2. \/ by[i] = c /\ left'[i] = Expiry(c)
        \/ phase'[i] = phase[i] /\ left'[i] = left[i]
    BY <1>5 DEF Increment, Owed
  <2>3. CASE by[i] = c /\ left'[i] = Expiry(c)
    BY <1>1, <1>2, <2>1, <2>3 DEF Clock, Expiry
  <2>4. CASE phase'[i] = phase[i] /\ left'[i] = left[i]
    BY <1>1, <2>1, <2>4 DEF Clock
  <2> QED
    BY <2>2, <2>3, <2>4
<1>6. ASSUME UNCHANGED <<by, age, left>>,
             \A i \in Slots : phase'[i] \in {"sent", "entry"}
                              => phase[i] \in {"sent", "entry"}
      PROVE ExpiryInv'
  BY <1>1, <1>6 DEF Clock
<1>7. ASSUME NEW c \in Consumers, Insert(c) \/ IncrementFails(c) \/ Crash(c)
      PROVE ExpiryInv'
  BY <1>6, <1>7 DEF Insert, Sent, IncrementFails, Crash
<1>8. ASSUME NEW S, Forget(S) PROVE ExpiryInv'
  <2>1. \A i \in Slots : phase'[i] # "free" => UNCHANGED <<phase[i], by[i], age[i], left[i]>>
    BY <1>8 DEF Forget
  <2> QED
    BY <1>1, <2>1 DEF Clock
<1>9. CASE TimePasses
  <2> SUFFICES ASSUME NEW i \in Slots, phase'[i] \in {"sent", "entry"},
                      age'[i] < Interval
               PROVE  (left[i] + age[i] >= Interval + Clock(by[i]))'
    OBVIOUS
  <2>1. ~Over(i)
    BY <1>9 DEF TimePasses
  <2>2. /\ by'[i] = by[i] /\ phase'[i] = phase[i]
        /\ age'[i] = Older(i) /\ left'[i] = Nearer(i)
    BY <1>9, <2>1 DEF TimePasses
  <2>3. age[i] \in Nat /\ left[i] \in Nat /\ age[i] <= Interval
    OBVIOUS
  <2>4. age[i] < Interval /\ age'[i] = age[i] + 1
    BY <2>2, <2>3 DEF Older
  <2>5. by[i] \in Consumers
    BY <2>2 DEF OwnerInv
  <2>6. left[i] + age[i] >= Interval + Clock(by[i]) /\ Clock(by[i]) \in Nat
    BY <1>2, <2>2, <2>4, <2>5
  <2>7. left'[i] = left[i] - 1
    BY <2>2, <2>3, <2>4, <2>6 DEF Nearer
  <2>8. Clock(by[i])' = Clock(by[i])
    BY <1>2, <2>2, <2>5, <1>1 DEF Clock
  <2> QED
    BY <2>3, <2>4, <2>6, <2>7, <2>8
<1>10. CASE UNCHANGED slidingVars
  BY <1>3, <1>10 DEF slidingVars
<1> QED
  BY <1>3, <1>4, <1>5, <1>7, <1>8, <1>9, <1>10
     DEF SlidingNext, Work, Read, Keys, Mget, GiveBack, ResetKeys, ResetEntries,
         ResetDel

\* A consumer that reads stays as it is until MGET, and its window only
\* shrinks.
LEMMA ReadingStep ==
  ASSUME SlidingInv, [SlidingNext]_slidingVars, NEW d \in Consumers
  PROVE  ReadingOf(d)'
<1> USE DEF SlidingInv, SlidingTypeOK, reading
<1>1. driver' = driver
  BY DEF SlidingNext, Work, Read, Keys, Mget, Use, GiveBack, Increment, Insert,
         ResetKeys, IncrementFails, Crash, ResetEntries, ResetDel, TimePasses,
         slidingVars
<1>2. ReadingOf(d)
  BY DEF ReadingInv
<1>3. CASE Use(d)
  BY <1>2, <1>3 DEF Use, ReadingOf
<1>4. CASE Keys(d) /\ Sees(d) # {}
  <2>1. Uncounted(d) = {} /\ claim[d] = 0 /\ driver = "redis"
    BY <1>4 DEF Keys, Settled
  <2>2. Window(d) \subseteq Sees(d)
    BY <2>1, WindowIsSeen
  <2>3. Window(d)' = Window(d) /\ Uncounted(d)' = Uncounted(d)
    BY <1>4 DEF Keys, Window, Uncounted, slotVars
  <2>4. keys'[d] = Sees(d) /\ claim'[d] = 0 /\ mode'[d] = "reading"
    BY <1>4, <2>1 DEF Keys
  <2> QED
    BY <1>1, <2>1, <2>2, <2>3, <2>4 DEF ReadingOf
<1>5. CASE mode'[d] = "rest" /\ keys'[d] = {}
  BY <1>5 DEF ReadingOf
<1>6. ASSUME ~Use(d), mode'[d] = mode[d], keys'[d] = keys[d],
             mode[d] = "reading" => claim'[d] = claim[d]
      PROVE  ReadingOf(d)'
  BY <1>1, <1>2, <1>6, WindowStep DEF ReadingOf
<1>7. \/ Use(d)
      \/ Keys(d) /\ Sees(d) # {}
      \/ mode'[d] = "rest" /\ keys'[d] = {}
      \/ /\ mode'[d] = mode[d] /\ keys'[d] = keys[d]
         /\ mode[d] = "reading" => claim'[d] = claim[d]
  <2>1. ASSUME NEW c \in Consumers, Read(c) \/ GiveBack(c) \/ Use(c)
        PROVE  <1>7
    BY <1>2, <2>1 DEF Read, Settled, GiveBack, Use, ReadingOf
  <2>2. ASSUME NEW c \in Consumers, Keys(c) PROVE <1>7
    BY <2>2 DEF Keys, Settled
  <2>3. ASSUME NEW c \in Consumers, Mget(c) \/ Crash(c) PROVE <1>7
    BY <2>3 DEF Mget, Crash
  <2>4. CASE UNCHANGED reading
    BY <2>4
  <2> QED
    BY <2>1, <2>2, <2>3, <2>4
       DEF SlidingNext, Work, Increment, Insert, ResetKeys, IncrementFails,
           ResetEntries, ResetDel, TimePasses, slidingVars
<1> QED
  BY <1>3, <1>4, <1>5, <1>6, <1>7

LEMMA BoundStep ==
  ASSUME SlidingInv, [SlidingNext]_slidingVars, SlidingTypeOK'
  PROVE  WindowBound'
<1> USE SlotSets DEF SlidingInv, SlidingTypeOK
<1>1. ASSUME NEW c \in Consumers, Read(c) PROVE WindowBound'
  <2>1. claim[c] = 0 /\ Uncounted(c) = {}
    BY <1>1 DEF Read, Settled
  <2>2. Window(c) \subseteq Sees(c) /\ Sees(c) \in SUBSET Slots
    BY <2>1, WindowIsSeen DEF Sees, Entries
  <2>3. claim' = [claim EXCEPT ![c] = Remaining(Sees(c))] /\ UNCHANGED slotVars
    BY <1>1 DEF Read
  <2> QED
    BY <2>1, <2>2, <2>3, BoundRead
<1>2. ASSUME NEW c \in Consumers, Keys(c), Sees(c) = {} PROVE WindowBound'
  <2>1. claim[c] = 0 /\ Uncounted(c) = {}
    BY <1>2 DEF Keys, Settled
  <2>2. Window(c) \subseteq {}
    BY <1>2, <2>1, WindowIsSeen
  <2>3. Remaining({}) = MaxBatch
    <3>1. Cardinality({}) = 0
      BY FS_EmptySet
    <3> QED
      BY <3>1 DEF Remaining
  <2>4. claim' = [claim EXCEPT ![c] = Remaining({})] /\ UNCHANGED slotVars
    BY <1>2, <2>3 DEF Keys
  <2> QED
    BY <2>1, <2>2, <2>4, BoundRead
<1>3. ASSUME NEW c \in Consumers, Mget(c), keys[c] \subseteq Sees(c)
      PROVE  WindowBound'
  <2>1. claim[c] = 0 /\ Window(c) \subseteq keys[c]
    BY <1>3 DEF Mget, ReadingInv, ReadingOf
  <2>2. claim' = [claim EXCEPT ![c] = Remaining(keys[c])] /\ UNCHANGED slotVars
    BY <1>3 DEF Mget
  <2> QED
    BY <2>1, <2>2, BoundRead
<1>4. ASSUME NEW d \in Consumers, ~Use(d), claim'[d] <= claim[d]
      PROVE  Cardinality(Window(d)') + claim'[d] <= MaxBatch
  <2>1. claim'[d] \in Nat
    OBVIOUS
  <2> QED
    BY <1>4, <2>1, WindowStep, BoundShrinks
<1>5. ASSUME NEW d \in Consumers, Use(d)
      PROVE  Cardinality(Window(d)') + claim'[d] <= MaxBatch
  <2>1. PICK i \in Slots : /\ phase' = [phase EXCEPT ![i] = "owed"]
                          /\ by' = [by EXCEPT ![i] = d]
    BY <1>5 DEF Use
  <2>2. age' = age /\ claim[d] > 0 /\ claim'[d] = claim[d] - 1
    BY <1>5 DEF Use
  <2> DEFINE W == Window(d)
             G == W \cup {i}
  <2>3. Window(d)' \subseteq G /\ G \in SUBSET Slots /\ W \in SUBSET Slots
    BY <2>1, <2>2 DEF Window
  <2>4. Cardinality(G) <= Cardinality(W) + 1
    BY <2>3, AddSlot
  <2>5. Cardinality(Window(d)') <= Cardinality(G)
    BY <2>3
  <2>6. Cardinality(W) + claim[d] <= MaxBatch
    BY DEF WindowBound
  <2> HIDE DEF W, G
  <2>7. /\ Cardinality(W) \in Nat /\ Cardinality(G) \in Nat
        /\ Cardinality(Window(d)') \in Nat /\ claim[d] \in Nat
    BY <2>3
  <2> QED
    BY <2>2, <2>4, <2>5, <2>6, <2>7
<1>6. \/ \E c \in Consumers :
           \/ Read(c)
           \/ Keys(c) /\ Sees(c) = {}
           \/ Mget(c) /\ keys[c] \subseteq Sees(c)
      \/ \A d \in Consumers : claim'[d] <= claim[d]
  <2>1. ASSUME NEW c \in Consumers, Keys(c), Sees(c) # {}
        PROVE  \A d \in Consumers : claim'[d] <= claim[d]
    BY <2>1 DEF Keys
  <2>2. ASSUME NEW c \in Consumers, Mget(c), ~(keys[c] \subseteq Sees(c))
        PROVE  \A d \in Consumers : claim'[d] <= claim[d]
    BY <2>2 DEF Mget
  <2>3. ASSUME NEW c \in Consumers, Use(c) \/ GiveBack(c) \/ Crash(c)
        PROVE  \A d \in Consumers : claim'[d] <= claim[d]
    BY <2>3 DEF Use, GiveBack, Crash
  <2>4. CASE UNCHANGED claim
    BY <2>4
  <2> QED
    BY <2>1, <2>2, <2>3, <2>4
       DEF SlidingNext, Work, Increment, Insert, ResetKeys, IncrementFails,
           ResetEntries, ResetDel, TimePasses, reading, slidingVars
<1>7. ASSUME \A d \in Consumers : claim'[d] <= claim[d] PROVE WindowBound'
  BY <1>4, <1>5, <1>7 DEF WindowBound
<1> QED
  BY <1>1, <1>2, <1>3, <1>6, <1>7

LEMMA SlidingInvStep ==
  SlidingInv /\ [SlidingNext]_slidingVars => SlidingInv'
<1> SUFFICES ASSUME SlidingInv, [SlidingNext]_slidingVars
             PROVE  SlidingInv'
  OBVIOUS
<1>1. SlidingTypeOK'
  BY TypeStep DEF SlidingInv
<1>2. OwnerInv'
  BY OwnerStep DEF SlidingInv
<1>3. ExpiryInv'
  BY ExpiryStep DEF SlidingInv
<1>4. ReadingInv'
  BY ReadingStep DEF ReadingInv
<1>5. WindowBound'
  BY <1>1, BoundStep
<1> QED
  BY <1>1, <1>2, <1>3, <1>4, <1>5 DEF SlidingInv

LEMMA SlidingInvInit == SlidingInit => SlidingInv
<1> SUFFICES ASSUME SlidingInit
             PROVE  SlidingInv
  OBVIOUS
<1> USE SlotSets, SlidingAssumption DEF SlidingInit
<1>1. SlidingTypeOK
  BY DEF SlidingTypeOK, SlotPhases
<1>2. ExpiryInv /\ OwnerInv /\ ReadingInv
  BY DEF ExpiryInv, OwnerInv, ReadingInv, ReadingOf
<1>3. \A c \in Consumers : Window(c) = {}
  BY DEF Window
<1>4. WindowBound
  <2>1. Cardinality({}) = 0
    BY FS_EmptySet
  <2> QED
    BY <1>3, <2>1 DEF WindowBound
<1> QED
  BY <1>1, <1>2, <1>4 DEF SlidingInv

-----------------------------------------------------------------------------
(* The theorems.                                                           *)

\* The invariant: an entry outlives its use's interval, and a read that is
\* under way has listed the reader's whole window.
THEOREM SlidingInvariant == SlidingSpec => []SlidingInv
<1> QED
  BY SlidingInvInit, SlidingInvStep, PTL DEF SlidingSpec

\* Every variable of the sliding store keeps its type: no read yields a
\* balance below 0 or above the quota.
THEOREM SlidingTypeCorrect == SlidingSpec => []SlidingTypeOK
<1>1. SlidingInv => SlidingTypeOK
  BY DEF SlidingInv
<1> QED
  BY <1>1, SlidingInvariant, PTL

\* In any interval a consumer uses at most one quota (database.ts:78-99,
\* redis.ts:81-94), whatever the clocks, resets, failures and crashes.
THEOREM WindowIsBounded == SlidingSpec => []WindowBound
<1>1. SlidingInv => WindowBound
  BY DEF SlidingInv
<1> QED
  BY <1>1, SlidingInvariant, PTL

LEMMA KnownIsSeen ==
  ASSUME SlidingInv, NEW c \in Consumers, mode[c] = "rest"
  PROVE  Known(c) \subseteq Sees(c)
<1> SUFFICES ASSUME NEW i \in Known(c)
             PROVE  i \in Sees(c)
  OBVIOUS
<1>1. i \in Entries /\ age[i] + Lag(c, by[i]) < Interval
  BY DEF Known, Entries
<1> QED
  BY <1>1, OwnEntriesAreSeen

\* What a read returns leaves room for every use that it had to respect.
LEMMA ReadRespects ==
  ASSUME SlidingTypeOK, NEW c \in Consumers, NEW S \in SUBSET Slots,
         claim' = [claim EXCEPT ![c] = Remaining(S)], Known(c) \subseteq S,
         NEW d \in Consumers, claim'[d] > claim[d]
  PROVE  claim'[d] + Cardinality(Known(d)) <= MaxBatch
<1>1. d = c /\ claim'[c] = Remaining(S) /\ Remaining(S) > 0
  BY SlotSets, RemainingType DEF SlidingTypeOK
<1>2. Remaining(S) + Cardinality(S) <= MaxBatch /\ Remaining(S) \in Nat
  BY <1>1, RemainingType, SlotSets
<1>3. /\ Cardinality(Known(c)) <= Cardinality(S)
      /\ Cardinality(Known(c)) \in Nat /\ Cardinality(S) \in Nat
  BY SlotSets
<1> QED
  BY <1>1, <1>2, <1>3, SlotSets

\* A consumer never takes quota that another has used and counted within the
\* interval, but for the difference of their clocks, also when keys expire
\* between KEYS and MGET (redis.ts:83-93).
THEOREM CountsAreRespected == SlidingSpec => CountsAreSeen
<1>1. ASSUME SlidingInv, [SlidingNext]_slidingVars, NEW d \in Consumers,
             claim'[d] > claim[d]
      PROVE  claim'[d] + Cardinality(Known(d)) <= MaxBatch
  <2> USE <1>1 DEF SlidingInv, SlidingTypeOK
  <2>1. ASSUME NEW c \in Consumers, Read(c)
        PROVE  claim'[d] + Cardinality(Known(d)) <= MaxBatch
    <3>1. mode[c] = "rest" /\ claim' = [claim EXCEPT ![c] = Remaining(Sees(c))]
      BY <2>1 DEF Read, Settled
    <3>2. Sees(c) \in SUBSET Slots
      BY DEF Sees, Entries
    <3> QED
      BY <3>1, <3>2, KnownIsSeen, ReadRespects
  <2>2. ASSUME NEW c \in Consumers, Keys(c)
        PROVE  claim'[d] + Cardinality(Known(d)) <= MaxBatch
    <3>1. mode[c] = "rest" /\ claim[c] = 0
      BY <2>2 DEF Keys, Settled
    <3>2. Sees(c) = {}
      BY <2>2, SlotSets DEF Keys
    <3>3. Remaining({}) = MaxBatch
      <4>1. Cardinality({}) = 0
        BY FS_EmptySet
      <4> QED
        BY <4>1, SlotSets DEF Remaining
    <3>4. claim' = [claim EXCEPT ![c] = Remaining(Sees(c))]
      BY <2>2, <3>2, <3>3 DEF Keys
    <3>5. Known(c) \subseteq Sees(c) /\ Sees(c) \in SUBSET Slots
      BY <3>1, <3>2, KnownIsSeen
    <3> QED
      BY <3>4, <3>5, ReadRespects
  <2>3. ASSUME NEW c \in Consumers, Mget(c)
        PROVE  claim'[d] + Cardinality(Known(d)) <= MaxBatch
    <3>1. claim[c] = 0 /\ Known(c) \subseteq keys[c] /\ keys[c] \in SUBSET Slots
      BY <2>3 DEF Mget, ReadingInv, ReadingOf, Known
    <3>2. keys[c] \subseteq Sees(c)
      BY <2>3, <3>1, SlotSets DEF Mget
    <3>3. claim' = [claim EXCEPT ![c] = Remaining(keys[c])]
      BY <2>3, <3>2 DEF Mget
    <3> QED
      BY <3>1, <3>3, ReadRespects
  <2>4. ASSUME NEW c \in Consumers, Use(c) \/ GiveBack(c) \/ Crash(c)
        PROVE  FALSE
    BY <2>4, SlotSets DEF Use, GiveBack, Crash
  <2>5. claim' # claim
    BY SlotSets
  <2> QED
    BY <2>1, <2>2, <2>3, <2>4, <2>5
       DEF SlidingNext, Work, Increment, Insert, ResetKeys, IncrementFails,
           ResetEntries, ResetDel, TimePasses, reading, slidingVars
<1>2. SlidingInv /\ [SlidingNext]_slidingVars
        => [\A c \in Consumers :
              claim'[c] > claim[c] => claim'[c] + Cardinality(Known(c)) <= MaxBatch]_slidingVars
  BY <1>1
<1> QED
  BY <1>2, SlidingInvariant, PTL DEF SlidingSpec, CountsAreSeen
=============================================================================
