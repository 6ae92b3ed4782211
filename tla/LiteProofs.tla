----------------------------- MODULE LiteProofs -----------------------------
(***************************************************************************)
(* Theorems about LiteCoordination, for any number of clients, any quota   *)
(* and any number of messages under way.                                   *)
(***************************************************************************)
EXTENDS LiteCoordination, SequenceTheorems, FiniteSetTheorems, TLAPS

\* LiteTypeOK, but for the counts of uses and faults (Counters).
LiteShape ==
  /\ StoreTypeOK
  /\ known \in BOOLEAN /\ restarted \in BOOLEAN /\ refused \in Nat
  /\ link \in [Consumers -> {"new", "up", "down"}]
  /\ outbox \in [Consumers -> Seq(Emitted)]
  /\ inbox \in [Consumers -> Seq(0 .. MaxBatch)]
  /\ cached \in [Consumers -> 0 .. MaxBatch]
  /\ waiting \in [Consumers -> BOOLEAN]
  /\ claim \in [Consumers -> 0 .. MaxBatch]

NoIncrement(s) == \A i \in 1 .. Len(s) : s[i].kind # "increment"

\* A client that no coordinator has told of any quota.
Quiet(c) ==
  /\ cached[c] = 0 /\ claim[c] = 0 /\ inbox[c] = <<>>
  /\ NoIncrement(outbox[c])

\* Before the first coordinator all clients are quiet, and while the server
\* lives a coordinator stays.
QuietInv ==
  ~restarted => /\ refused = 0
                /\ ~known => \A c \in Consumers : Quiet(c)

LiteInv == LiteShape /\ QuietInv

-----------------------------------------------------------------------------

LEMMA BalanceType == ASSUME StoreTypeOK PROVE Balance \in 0 .. MaxBatch
BY MaxBatchAssumption DEF StoreTypeOK, Balance

LEMMA Messages ==
  /\ Coordination \in Emitted /\ Resetting \in Emitted
  /\ \A n \in 1 .. MaxBatch : Incrementing(n) \in Emitted
  /\ Coordination.kind = "coordinate" /\ Coordination.by = 0
  /\ Resetting.kind = "reset" /\ Resetting.by = 0
  /\ \A n \in Nat : Incrementing(n).by = n
BY MaxBatchAssumption DEF Coordination, Resetting, Incrementing, Emitted

\* Only increments carry items, and no more than a quota.
LEMMA Carries ==
  ASSUME NEW m \in Emitted
  PROVE  /\ m.by \in 0 .. MaxBatch /\ m.by \in Nat
         /\ m.kind # "increment" => m.by = 0
BY MaxBatchAssumption DEF Coordination, Resetting, Incrementing, Emitted

\* The states of the links, also when some break.
LinkShape ==
  /\ link \in [Consumers -> {"new", "up", "down"}]
  /\ outbox \in [Consumers -> Seq(Emitted)]
  /\ inbox \in [Consumers -> Seq(0 .. MaxBatch)]

LEMMA BreakShape ==
  ASSUME LinkShape, NEW C, Break(C)
  PROVE  LinkShape'
<1>1. <<>> \in Seq(Emitted) /\ <<>> \in Seq(0 .. MaxBatch)
  OBVIOUS
<1>2. link' \in [Consumers -> {"new", "up", "down"}]
  BY DEF LinkShape, Break
<1>3. outbox' \in [Consumers -> Seq(Emitted)]
  BY <1>1 DEF LinkShape, Break
<1>4. inbox' \in [Consumers -> Seq(0 .. MaxBatch)]
  BY <1>1 DEF LinkShape, Break
<1> QED
  BY <1>2, <1>3, <1>4 DEF LinkShape

LEMMA TailOfEmitted ==
  ASSUME NEW s \in Seq(Emitted), s # <<>>
  PROVE  /\ Tail(s) \in Seq(Emitted) /\ Head(s) \in Emitted
         /\ NoIncrement(s) => NoIncrement(Tail(s)) /\ Head(s).kind # "increment"
BY DEF NoIncrement

LEMMA AppendEmitted ==
  ASSUME NEW s \in Seq(Emitted), NEW m \in Emitted
  PROVE  /\ Append(s, m) \in Seq(Emitted) /\ s \o <<m>> = Append(s, m)
         /\ NoIncrement(s) /\ m.kind # "increment" => NoIncrement(Append(s, m))
BY AppendIsConcat DEF NoIncrement

-----------------------------------------------------------------------------
(* The items under way.                                                    *)

\* What messages of s carry is a finite set, and so is the part of one.
LEMMA PartOf ==
  ASSUME NEW i, NEW n \in Nat
  PROVE  /\ IsFiniteSet({i} \X (1 .. n)) /\ Cardinality({i} \X (1 .. n)) = n
<1> DEFINE S == {i}
           T == 1 .. n
<1>1. IsFiniteSet(S) /\ Cardinality(S) = 1
  BY FS_Singleton
<1>2. IsFiniteSet(T) /\ Cardinality(T) = n
  BY FS_Interval
<1> HIDE DEF S, T
<1>3. IsFiniteSet(S \X T) /\ Cardinality(S \X T) = Cardinality(S) * Cardinality(T)
  BY <1>1, <1>2, FS_Product
<1>4. Cardinality(S) * Cardinality(T) = n
  BY <1>1, <1>2
<1> QED
  BY <1>3, <1>4 DEF S, T

LEMMA ItemsFinite ==
  ASSUME NEW s \in Seq(Emitted)
  PROVE  IsFiniteSet(ItemsIn(s)) /\ Cardinality(ItemsIn(s)) \in Nat
<1>1. IsFiniteSet(1 .. Len(s)) /\ IsFiniteSet(1 .. MaxBatch) /\ DOMAIN s = 1 .. Len(s)
  BY FS_Interval, MaxBatchAssumption
<1>2. IsFiniteSet((DOMAIN s) \X (1 .. MaxBatch))
  BY <1>1, FS_Product
<1>3. ItemsIn(s) \in SUBSET ((DOMAIN s) \X (1 .. MaxBatch))
  BY DEF ItemsIn
<1>4. IsFiniteSet(ItemsIn(s))
  BY <1>2, <1>3, FS_Subset
<1> QED
  BY <1>4, FS_CardinalityType

LEMMA ItemsInNothing == ItemsIn(<<>>) = {} /\ Cardinality(ItemsIn(<<>>)) = 0
<1>1. ItemsIn(<<>>) = {}
  BY DEF ItemsIn
<1> QED
  BY <1>1, FS_EmptySet

\* A message emitted adds what it carries.
LEMMA ItemsOfAppend ==
  ASSUME NEW s \in Seq(Emitted), NEW m \in Emitted
  PROVE  Cardinality(ItemsIn(Append(s, m))) = Cardinality(ItemsIn(s)) + m.by
<1> DEFINE last == {Len(s) + 1} \X (1 .. m.by)
<1>1. /\ m.by \in Nat /\ m.by <= MaxBatch /\ MaxBatch \in Nat
      /\ DOMAIN s = 1 .. Len(s) /\ Len(s) \in Nat
      /\ DOMAIN Append(s, m) = 1 .. Len(s) + 1
      /\ \A i \in 1 .. Len(s) : Append(s, m)[i] = s[i]
      /\ Append(s, m)[Len(s) + 1] = m
  BY Carries, AppendProperties, LenProperties, MaxBatchAssumption
<1>2. \A i \in 1 .. Len(s) : s[i].by \in Nat
  BY Carries
<1>3. ItemsIn(Append(s, m)) = ItemsIn(s) \cup last
  <2>1. ASSUME NEW x \in ItemsIn(Append(s, m)) PROVE x \in ItemsIn(s) \cup last
    <3>1. /\ x = <<x[1], x[2]>> /\ x[1] \in 1 .. Len(s) + 1 /\ x[2] \in 1 .. MaxBatch
          /\ x[2] <= Append(s, m)[x[1]].by
      BY <1>1 DEF ItemsIn
    <3>2. CASE x[1] \in 1 .. Len(s)
      BY <1>1, <3>1, <3>2 DEF ItemsIn
    <3>3. CASE x[1] = Len(s) + 1
      <4>1. x[2] \in 1 .. m.by
        BY <1>1, <3>1, <3>3
      <4> QED
        BY <3>1, <3>3, <4>1
    <3> QED
      BY <1>1, <3>1, <3>2, <3>3
  <2>2. ASSUME NEW x \in ItemsIn(s) PROVE x \in ItemsIn(Append(s, m))
    <3>1. /\ x = <<x[1], x[2]>> /\ x[1] \in 1 .. Len(s) /\ x[2] \in 1 .. MaxBatch
          /\ x[2] <= s[x[1]].by
      BY <1>1 DEF ItemsIn
    <3> QED
      BY <1>1, <3>1 DEF ItemsIn
  <2>3. ASSUME NEW x \in last PROVE x \in ItemsIn(Append(s, m))
    <3>1. /\ x = <<x[1], x[2]>> /\ x[1] = Len(s) + 1 /\ x[2] \in 1 .. m.by
      OBVIOUS
    <3>2. x[2] \in 1 .. MaxBatch /\ x[2] <= m.by
      BY <1>1, <3>1
    <3> QED
      BY <1>1, <3>1, <3>2 DEF ItemsIn
  <2> QED
    BY <2>1, <2>2, <2>3
<1>4. ItemsIn(s) \cap last = {}
  BY <1>1 DEF ItemsIn
<1>5. IsFiniteSet(last) /\ Cardinality(last) = m.by
  BY <1>1, PartOf
<1>6. IsFiniteSet(ItemsIn(s)) /\ Cardinality(ItemsIn(s)) \in Nat
  BY ItemsFinite
<1> HIDE DEF last
<1>7. Cardinality(ItemsIn(s) \cup last)
        = Cardinality(ItemsIn(s)) + Cardinality(last) - Cardinality({})
  BY <1>4, <1>5, <1>6, FS_Union
<1> QED
  BY <1>1, <1>3, <1>5, <1>6, <1>7, FS_EmptySet

\* A message handled takes away what it carried.
LEMMA ItemsOfTail ==
  ASSUME NEW s \in Seq(Emitted), s # <<>>
  PROVE  Cardinality(ItemsIn(s)) = Cardinality(ItemsIn(Tail(s))) + Head(s).by
<1> DEFINE first == {1} \X (1 .. Head(s).by)
           rest == {x \in ItemsIn(s) : x[1] # 1}
           next == [x \in ItemsIn(Tail(s)) |-> <<x[1] + 1, x[2]>>]
<1>1. /\ Head(s) \in Emitted /\ Head(s) = s[1] /\ Tail(s) \in Seq(Emitted)
      /\ DOMAIN s = 1 .. Len(s) /\ Len(s) \in Nat /\ Len(s) > 0
      /\ DOMAIN Tail(s) = 1 .. Len(s) - 1
      /\ \A i \in 1 .. Len(s) - 1 : Tail(s)[i] = s[i + 1]
  BY HeadTailProperties, LenProperties, EmptySeq
<1>2. Head(s).by \in Nat /\ Head(s).by <= MaxBatch /\ MaxBatch \in Nat
  BY <1>1, Carries, MaxBatchAssumption
<1>3. ItemsIn(s) = first \cup rest
  <2>1. ASSUME NEW x \in first PROVE x \in ItemsIn(s)
    <3>1. x = <<1, x[2]>> /\ x[2] \in 1 .. Head(s).by
      OBVIOUS
    <3>2. x[2] \in 1 .. MaxBatch /\ x[2] <= s[1].by /\ 1 \in DOMAIN s
      BY <1>1, <1>2, <3>1
    <3> QED
      BY <3>1, <3>2 DEF ItemsIn
  <2>2. ASSUME NEW x \in ItemsIn(s), x[1] = 1 PROVE x \in first
    <3>1. x = <<1, x[2]>> /\ x[2] \in 1 .. MaxBatch /\ x[2] <= Head(s).by
      BY <1>1, <2>2 DEF ItemsIn
    <3>2. x[2] \in 1 .. Head(s).by
      BY <1>2, <3>1
    <3> QED
      BY <3>1, <3>2
  <2> QED
    BY <2>1, <2>2
<1>4. first \cap rest = {}
  OBVIOUS
<1>5. IsFiniteSet(first) /\ Cardinality(first) = Head(s).by
  BY <1>2, PartOf
<1>6. IsFiniteSet(ItemsIn(s)) /\ IsFiniteSet(ItemsIn(Tail(s)))
      /\ Cardinality(ItemsIn(Tail(s))) \in Nat
  BY <1>1, ItemsFinite
<1>7. IsFiniteSet(rest) /\ Cardinality(rest) = Cardinality(ItemsIn(Tail(s)))
  <2>1. ASSUME NEW x \in ItemsIn(Tail(s))
        PROVE  /\ x = <<x[1], x[2]>> /\ x[1] \in 1 .. Len(s) - 1
               /\ next[x] = <<x[1] + 1, x[2]>> /\ next[x] \in rest
    <3>1. /\ x = <<x[1], x[2]>> /\ x[1] \in 1 .. Len(s) - 1 /\ x[2] \in 1 .. MaxBatch
          /\ x[2] <= s[x[1] + 1].by
      BY <1>1 DEF ItemsIn
    <3>2. x[1] + 1 \in DOMAIN s /\ x[1] + 1 # 1
      BY <1>1, <3>1
    <3> QED
      BY <3>1, <3>2 DEF ItemsIn
  <2>2. ASSUME NEW y \in rest
        PROVE  \E x \in ItemsIn(Tail(s)) : next[x] = y
    <3>1. /\ y = <<y[1], y[2]>> /\ y[1] \in 1 .. Len(s) /\ y[1] # 1
          /\ y[2] \in 1 .. MaxBatch /\ y[2] <= s[y[1]].by
      BY <1>1 DEF ItemsIn
    <3>2. y[1] - 1 \in 1 .. Len(s) - 1 /\ (y[1] - 1) + 1 = y[1]
      BY <1>1, <3>1
    <3>3. <<y[1] - 1, y[2]>> \in ItemsIn(Tail(s))
      BY <1>1, <3>1, <3>2 DEF ItemsIn
    <3> QED
      BY <3>1, <3>2, <3>3
  <2>3. next \in Surjection(ItemsIn(Tail(s)), rest)
    BY <2>1, <2>2 DEF Surjection
  <2>4. ASSUME NEW x \in ItemsIn(Tail(s)), NEW y \in ItemsIn(Tail(s)), next[x] = next[y]
        PROVE  x = y
    <3>1. x[1] + 1 = y[1] + 1 /\ x[2] = y[2]
      BY <2>1, <2>4
    <3>2. x[1] \in 1 .. Len(s) - 1 /\ y[1] \in 1 .. Len(s) - 1
      BY <2>1
    <3>3. x[1] = y[1]
      BY <1>1, <3>1, <3>2
    <3> QED
      BY <2>1, <3>1, <3>3
  <2>5. next \in Injection(ItemsIn(Tail(s)), rest)
    BY <2>1, <2>4 DEF Injection, IsInjective
  <2> HIDE DEF next, rest
  <2> QED
    BY <1>6, <2>3, <2>5, FS_Surjection
<1> HIDE DEF first, rest
<1>8. Cardinality(first \cup rest)
        = Cardinality(first) + Cardinality(rest) - Cardinality({})
  BY <1>4, <1>5, <1>7, FS_Union
<1> QED
  BY <1>2, <1>3, <1>5, <1>6, <1>7, <1>8, FS_EmptySet

\* The items in the messages that the clients of C have in their boxes.
Boxes == [Consumers -> Seq(Emitted)]
Pending(b, C) == UNION {{c} \X ItemsIn(b[c]) : c \in C}

LEMMA PendingFinite ==
  ASSUME NEW b \in Boxes, NEW C \in SUBSET Consumers
  PROVE  /\ IsFiniteSet(Pending(b, C)) /\ Cardinality(Pending(b, C)) \in Nat
         /\ \A c \in C : /\ IsFiniteSet({c} \X ItemsIn(b[c]))
                         /\ Cardinality({c} \X ItemsIn(b[c]))
                              = Cardinality(ItemsIn(b[c]))
<1> DEFINE own == [c \in C |-> {c} \X ItemsIn(b[c])]
           parts == {{c} \X ItemsIn(b[c]) : c \in C}
<1>1. ASSUME NEW c \in C
      PROVE  /\ IsFiniteSet({c} \X ItemsIn(b[c]))
             /\ Cardinality({c} \X ItemsIn(b[c])) = Cardinality(ItemsIn(b[c]))
  <2> DEFINE S == {c}
             T == ItemsIn(b[c])
  <2>1. b[c] \in Seq(Emitted)
    BY DEF Boxes
  <2>2. IsFiniteSet(S) /\ Cardinality(S) = 1
    BY FS_Singleton
  <2>3. IsFiniteSet(T) /\ Cardinality(T) \in Nat
    BY <2>1, ItemsFinite
  <2> HIDE DEF S, T
  <2>4. IsFiniteSet(S \X T) /\ Cardinality(S \X T) = Cardinality(S) * Cardinality(T)
    BY <2>2, <2>3, FS_Product
  <2>5. Cardinality(S) * Cardinality(T) = Cardinality(T)
    BY <2>2, <2>3
  <2> QED
    BY <2>4, <2>5 DEF S, T
<1>2. own \in Surjection(C, parts)
  BY DEF Surjection
<1>3. IsFiniteSet(C)
  BY LiteAssumption, FS_Subset
<1> HIDE DEF own
<1>4. IsFiniteSet(parts)
  BY <1>2, <1>3, FS_Surjection
<1>5. \A T \in parts : IsFiniteSet(T)
  BY <1>1
<1> HIDE DEF parts
<1>6. IsFiniteSet(UNION parts)
  BY <1>4, <1>5, FS_UNION
<1>7. IsFiniteSet(Pending(b, C))
  BY <1>6 DEF parts, Pending
<1> QED
  BY <1>1, <1>7, FS_CardinalityType

\* Disjoint sets of clients have different items under way.
LEMMA PendingSplit ==
  ASSUME NEW b \in Boxes, NEW C \in SUBSET Consumers, NEW D \in SUBSET C
  PROVE  Cardinality(Pending(b, C))
           = Cardinality(Pending(b, D)) + Cardinality(Pending(b, C \ D))
<1> DEFINE P == Pending(b, D)
           Q == Pending(b, C \ D)
<1>1. Pending(b, C) = P \cup Q
  BY DEF Pending
<1>2. P \cap Q = {}
  BY DEF Pending
<1>3. /\ IsFiniteSet(P) /\ Cardinality(P) \in Nat
      /\ IsFiniteSet(Q) /\ Cardinality(Q) \in Nat
  BY PendingFinite
<1> HIDE DEF P, Q
<1>4. Cardinality(P \cup Q) = Cardinality(P) + Cardinality(Q) - Cardinality({})
  BY <1>2, <1>3, FS_Union
<1>5. Cardinality(Pending(b, C)) = Cardinality(P) + Cardinality(Q)
  BY <1>1, <1>3, <1>4, FS_EmptySet
<1> QED
  BY <1>5 DEF P, Q

LEMMA PendingOne ==
  ASSUME NEW b \in Boxes, NEW c \in Consumers
  PROVE  Cardinality(Pending(b, {c})) = Cardinality(ItemsIn(b[c]))
<1>1. Pending(b, {c}) = {c} \X ItemsIn(b[c])
  BY DEF Pending
<1> QED
  BY <1>1, PendingFinite

LEMMA PendingSame ==
  ASSUME NEW a, NEW b, NEW C, \A c \in C : a[c] = b[c]
  PROVE  Pending(a, C) = Pending(b, C)
<1>1. \A c \in C : {c} \X ItemsIn(a[c]) = {c} \X ItemsIn(b[c])
  OBVIOUS
<1> QED
  BY <1>1 DEF Pending

\* What changes when one box does.
LEMMA OneBox ==
  ASSUME NEW a \in Boxes, NEW b \in Boxes, NEW c \in Consumers,
         \A d \in Consumers \ {c} : a[d] = b[d]
  PROVE  /\ Cardinality(Pending(b, Consumers)) + Cardinality(ItemsIn(a[c]))
              = Cardinality(Pending(a, Consumers)) + Cardinality(ItemsIn(b[c]))
         /\ Cardinality(Pending(a, Consumers)) \in Nat
         /\ Cardinality(Pending(b, Consumers)) \in Nat
         /\ Cardinality(ItemsIn(a[c])) \in Nat /\ Cardinality(ItemsIn(b[c])) \in Nat
<1> DEFINE D == Consumers \ {c}
<1>1. a[c] \in Seq(Emitted) /\ b[c] \in Seq(Emitted) /\ \A d \in D : a[d] = b[d]
  BY DEF Boxes
<1>2. /\ {c} \in SUBSET Consumers /\ Consumers \in SUBSET Consumers
      /\ D \in SUBSET Consumers
  OBVIOUS
<1>3. Pending(a, D) = Pending(b, D)
  <2> HIDE DEF D
  <2> QED
    BY <1>1, PendingSame
<1>4. ASSUME NEW f \in Boxes
      PROVE  Cardinality(Pending(f, Consumers))
               = Cardinality(Pending(f, {c})) + Cardinality(Pending(f, D))
  BY <1>2, PendingSplit
<1>5. /\ Cardinality(Pending(a, {c})) = Cardinality(ItemsIn(a[c]))
      /\ Cardinality(Pending(b, {c})) = Cardinality(ItemsIn(b[c]))
  BY PendingOne
<1>6. /\ Cardinality(Pending(a, D)) \in Nat
      /\ Cardinality(ItemsIn(a[c])) \in Nat /\ Cardinality(ItemsIn(b[c])) \in Nat
  BY <1>1, <1>2, PendingFinite, ItemsFinite
<1> HIDE DEF D
<1>7. /\ Cardinality(Pending(a, Consumers))
           = Cardinality(ItemsIn(a[c])) + Cardinality(Pending(a, D))
      /\ Cardinality(Pending(b, Consumers))
           = Cardinality(ItemsIn(b[c])) + Cardinality(Pending(a, D))
  BY <1>3, <1>4, <1>5
<1> QED
  BY <1>6, <1>7

-----------------------------------------------------------------------------
(* The shape of the state.                                                 *)

LEMMA ShapeStep ==
  ASSUME LiteShape, [LiteNext]_liteVars
  PROVE  LiteShape'
<1> USE BalanceType, MaxBatchAssumption
    DEF LiteShape, StoreTypeOK, server, links, clients, liteHistory, NewWindow,
        ResetTotal, Increment
<1>1. ASSUME NEW c \in Consumers, Connect(c) PROVE LiteShape'
  <2>1. outbox[c] \o Introduces(c) \in Seq(Emitted)
    BY Messages, AppendEmitted DEF Introduces
  <2>2. <<Balance>> \in Seq(0 .. MaxBatch) /\ <<>> \in Seq(0 .. MaxBatch)
    BY BalanceType
  <2>3. inbox' \in [Consumers -> Seq(0 .. MaxBatch)]
    BY <1>1, <2>2 DEF Connect
  <2>4. outbox' \in [Consumers -> Seq(Emitted)]
    BY <1>1, <2>1 DEF Connect
  <2> QED
    BY <1>1, <2>3, <2>4 DEF Connect
<1>2. ASSUME NEW c \in Consumers, Disconnect(c) PROVE LiteShape'
  <2>1. LinkShape'
    BY <1>2, BreakShape DEF Disconnect, LinkShape
  <2> QED
    BY <1>2, <2>1 DEF Disconnect, OnSocketDisconnect, LinkShape
<1>3. ASSUME NEW c \in Consumers, Serve(c) PROVE LiteShape'
  <2>1. outbox[c] # <<>> /\ outbox' = [outbox EXCEPT ![c] = Tail(@)]
    BY <1>3 DEF Serve, HandleCoordinate, HandleIncrement, HandleReset, Handles
  <2>2. Tail(outbox[c]) \in Seq(Emitted) /\ Head(outbox[c]) \in Emitted
    BY <2>1, TailOfEmitted
  <2>3. Head(outbox[c]).by \in Nat
    BY <2>2, Carries
  <2>4. outbox' \in [Consumers -> Seq(Emitted)]
    BY <2>1, <2>2
  <2>5. UNCHANGED <<link, inbox, clients, restarted>>
    BY <1>3 DEF Serve, HandleCoordinate, HandleIncrement, HandleReset, Handles
  <2>6. CASE HandleCoordinate(c)
    BY <2>4, <2>5, <2>6 DEF HandleCoordinate, InitializeNewCoordinator
  <2>7. CASE HandleIncrement(c)
    <3> DEFINE n == Head(outbox[c]).by
    <3>1. known' = known
      BY <2>7 DEF HandleIncrement
    <3>2. total' = total \/ total' = total + n
      BY <2>7 DEF HandleIncrement, Increment
    <3>3. refused' = refused \/ refused' = refused + 1
      BY <2>7 DEF HandleIncrement
    <3>4. n \in Nat /\ total \in Nat /\ refused \in Nat
      BY <2>3
    <3> HIDE DEF n, LiteShape
    <3>5. total' \in Nat /\ refused' \in Nat
      BY <3>2, <3>3, <3>4
    <3> USE DEF LiteShape
    <3> QED
      BY <2>4, <2>5, <3>1, <3>5
  <2>8. CASE HandleReset(c)
    BY <2>4, <2>5, <2>8 DEF HandleReset
  <2> QED
    BY <1>3, <2>6, <2>7, <2>8 DEF Serve
<1>4. ASSUME NEW c \in Consumers, Receive(c) PROVE LiteShape'
  BY <1>4 DEF Receive, OnBalance
<1>5. ASSUME NEW c \in Consumers, Read(c) \/ GiveBack(c) PROVE LiteShape'
  <2>1. claim' = [claim EXCEPT ![c] = cached[c]] \/ claim' = [claim EXCEPT ![c] = 0]
    BY <1>5 DEF Read, GiveBack
  <2>2. cached[c] \in 0 .. MaxBatch /\ 0 \in 0 .. MaxBatch
    OBVIOUS
  <2>3. claim' \in [Consumers -> 0 .. MaxBatch]
    BY <2>1, <2>2
  <2> QED
    BY <1>5, <2>3 DEF Read, GiveBack
<1>6. ASSUME NEW c \in Consumers, Spend(c) PROVE LiteShape'
  <2>1. PICK n \in 1 .. claim[c] :
          /\ claim' = [claim EXCEPT ![c] = @ - n]
          /\ outbox' = [outbox EXCEPT ![c] = Append(@, Incrementing(n))]
    BY <1>6 DEF Spend
  <2>2. Incrementing(n) \in Emitted
    BY Messages
  <2>3. outbox' \in [Consumers -> Seq(Emitted)]
    BY <2>1, <2>2, AppendEmitted
  <2>4. claim' \in [Consumers -> 0 .. MaxBatch]
    BY <2>1
  <2> QED
    BY <1>6, <2>3, <2>4 DEF Spend
<1>7. ASSUME NEW c \in Consumers, Purge(c) PROVE LiteShape'
  BY <1>7, Messages, AppendEmitted DEF Purge
<1>8. CASE ServerRestarts
  <2>1. LinkShape'
    BY <1>8, BreakShape DEF ServerRestarts, LinkShape
  <2> QED
    BY <1>8, <2>1 DEF ServerRestarts, LinkShape
<1>9. CASE WindowEnds
  BY <1>9 DEF WindowEnds
<1>10. CASE OnInterval
  <2>1. \A c \in Consumers : Append(inbox[c], Balance) \in Seq(0 .. MaxBatch)
    OBVIOUS
  <2> QED
    BY <1>10, <2>1 DEF OnInterval
<1>11. CASE UNCHANGED liteVars
  BY <1>11 DEF liteVars
<1>12. ASSUME NEW c \in Consumers, InvalidEvent(c) PROVE LiteShape'
  <2>1. outbox' \in [Consumers -> Seq(Emitted)]
    BY <1>12, TailOfEmitted DEF InvalidEvent
  <2> QED
    BY <1>12, <2>1 DEF InvalidEvent
<1> QED
  BY <1>1, <1>2, <1>3, <1>4, <1>5, <1>6, <1>7, <1>8, <1>9, <1>10, <1>11, <1>12
     DEF LiteNext, Tick

LEMMA QuietStep ==
  ASSUME LiteInv, [LiteNext]_liteVars
  PROVE  QuietInv'
<1> USE DEF LiteInv, LiteShape, QuietInv, Quiet, server, links, clients,
        liteHistory
<1>1. ASSUME NEW c \in Consumers, Connect(c) PROVE QuietInv'
  <2>1. NoIncrement(outbox[c]) => NoIncrement(outbox[c] \o Introduces(c))
    BY Messages, AppendEmitted DEF Introduces
  <2> QED
    BY <1>1, <2>1 DEF Connect
<1>2. ASSUME NEW c \in Consumers, Disconnect(c) PROVE QuietInv'
  BY <1>2 DEF Disconnect, Break, OnSocketDisconnect, NoIncrement
<1>3. ASSUME NEW c \in Consumers, Serve(c) PROVE QuietInv'
  <2>1. outbox[c] # <<>> /\ outbox' = [outbox EXCEPT ![c] = Tail(@)]
    BY <1>3 DEF Serve, HandleCoordinate, HandleIncrement, HandleReset, Handles
  <2>2. NoIncrement(outbox[c]) => /\ NoIncrement(Tail(outbox[c]))
                                  /\ Head(outbox[c]).kind # "increment"
    BY <2>1, TailOfEmitted
  <2>3. CASE HandleCoordinate(c)
    BY <2>3 DEF HandleCoordinate, Handles, InitializeNewCoordinator
  <2>4. CASE HandleIncrement(c)
    BY <2>1, <2>2, <2>4 DEF HandleIncrement, Handles
  <2>5. CASE HandleReset(c)
    BY <2>1, <2>2, <2>5 DEF HandleReset, Handles
  <2> QED
    BY <1>3, <2>3, <2>4, <2>5 DEF Serve
<1>4. ASSUME NEW c \in Consumers, Receive(c) PROVE QuietInv'
  BY <1>4 DEF Receive
<1>5. ASSUME NEW c \in Consumers, Read(c) \/ GiveBack(c) PROVE QuietInv'
  BY <1>5 DEF Read, GiveBack
<1>6. ASSUME NEW c \in Consumers, Spend(c) PROVE QuietInv'
  BY <1>6 DEF Spend
<1>7. ASSUME NEW c \in Consumers, Purge(c) PROVE QuietInv'
  <2>1. NoIncrement(outbox[c]) => NoIncrement(Append(outbox[c], Resetting))
    BY Messages, AppendEmitted
  <2> QED
    BY <1>7, <2>1 DEF Purge
<1>8. CASE ServerRestarts
  BY <1>8 DEF ServerRestarts
<1>9. CASE WindowEnds \/ OnInterval
  BY <1>9 DEF WindowEnds, OnInterval
<1>10. CASE UNCHANGED liteVars
  BY <1>10 DEF liteVars
<1>11. ASSUME NEW c \in Consumers, InvalidEvent(c) PROVE QuietInv'
  <2>1. NoIncrement(outbox[c]) => NoIncrement(Tail(outbox[c]))
    BY <1>11, TailOfEmitted DEF InvalidEvent
  <2> QED
    BY <1>11, <2>1 DEF InvalidEvent
<1> QED
  BY <1>1, <1>2, <1>3, <1>4, <1>5, <1>6, <1>7, <1>8, <1>9, <1>10, <1>11
     DEF LiteNext, Tick

-----------------------------------------------------------------------------
(* The account of uses.                                                    *)

Counters == used \in Nat /\ gone \in Nat /\ faults \in Nat
AccountInv == LiteShape /\ Counters /\ UsesAreAccounted

\* The account in the words of the lemmas above.
LEMMA AccountIs ==
  /\ \A C : ItemsFrom(C) = Cardinality(Pending(outbox, C))
  /\ UsesAreAccounted <=> used <= total + Cardinality(Pending(outbox, Consumers)) + gone
  /\ UsesAreAccounted' <=>
       used' <= total' + Cardinality(Pending(outbox', Consumers)) + gone'
BY DEF ItemsFrom, Pending, UsesAreAccounted

\* Steps that move no items.
LEMMA SameAccount ==
  ASSUME AccountInv, UNCHANGED <<used, gone, total>>,
         Cardinality(Pending(outbox', Consumers)) = Cardinality(Pending(outbox, Consumers))
  PROVE  UsesAreAccounted'
BY AccountIs DEF AccountInv

\* A message that carries n items leaves c's box, and m items are counted or
\* lost; as many as it carries.
LEMMA TakenAccount ==
  ASSUME AccountInv, NEW c \in Consumers, outbox[c] # <<>>,
         outbox' = [outbox EXCEPT ![c] = Tail(@)],
         used' = used,
         \/ total' = total + Head(outbox[c]).by /\ gone' = gone
         \/ total' = total /\ gone' = gone + Head(outbox[c]).by
  PROVE  UsesAreAccounted'
<1> DEFINE n == Head(outbox[c]).by
           I == Cardinality(Pending(outbox, Consumers))
           J == Cardinality(Pending(outbox', Consumers))
           i == Cardinality(ItemsIn(outbox[c]))
           j == Cardinality(ItemsIn(outbox'[c]))
<1>1. outbox \in Boxes /\ outbox[c] \in Seq(Emitted) /\ total \in Nat
      /\ used \in Nat /\ gone \in Nat
  BY DEF AccountInv, LiteShape, Counters, StoreTypeOK, Boxes
<1>2. Tail(outbox[c]) \in Seq(Emitted) /\ Head(outbox[c]) \in Emitted
  BY <1>1, TailOfEmitted
<1>3. n \in Nat
  BY <1>2, Carries
<1>4. /\ outbox' \in Boxes /\ outbox'[c] = Tail(outbox[c])
      /\ \A d \in Consumers \ {c} : outbox[d] = outbox'[d]
  BY <1>1, <1>2 DEF Boxes
<1>5. J + i = I + j /\ I \in Nat /\ J \in Nat /\ i \in Nat /\ j \in Nat
  BY <1>1, <1>4, OneBox
<1>6. i = j + n
  BY <1>1, <1>4, ItemsOfTail
<1>7. used <= total + I + gone
  BY AccountIs DEF AccountInv
<1>8. /\ used' = used
      /\ \/ total' = total + n /\ gone' = gone
         \/ total' = total /\ gone' = gone + n
  OBVIOUS
<1> HIDE DEF n, I, J, i, j
<1>9. used' <= total' + J + gone'
  BY <1>1, <1>3, <1>5, <1>6, <1>7, <1>8
<1> QED
  BY <1>9, AccountIs DEF J

\* A message that carries n items enters c's box, and n are used.
LEMMA EmittedAccount ==
  ASSUME AccountInv, NEW c \in Consumers, NEW m \in Emitted,
         outbox' = [outbox EXCEPT ![c] = Append(@, m)],
         used' = used + m.by, UNCHANGED <<total, gone>>
  PROVE  UsesAreAccounted'
<1> DEFINE I == Cardinality(Pending(outbox, Consumers))
           J == Cardinality(Pending(outbox', Consumers))
           i == Cardinality(ItemsIn(outbox[c]))
           j == Cardinality(ItemsIn(outbox'[c]))
<1>1. outbox \in Boxes /\ outbox[c] \in Seq(Emitted) /\ total \in Nat
      /\ used \in Nat /\ gone \in Nat
  BY DEF AccountInv, LiteShape, Counters, StoreTypeOK, Boxes
<1>2. Append(outbox[c], m) \in Seq(Emitted) /\ m.by \in Nat
  BY <1>1, AppendEmitted, Carries
<1>3. /\ outbox' \in Boxes /\ outbox'[c] = Append(outbox[c], m)
      /\ \A d \in Consumers \ {c} : outbox[d] = outbox'[d]
  BY <1>1, <1>2 DEF Boxes
<1>4. J + i = I + j /\ I \in Nat /\ J \in Nat /\ i \in Nat /\ j \in Nat
  BY <1>1, <1>3, OneBox
<1>5. j = i + m.by
  BY <1>1, <1>3, ItemsOfAppend
<1>6. used <= total + I + gone
  BY AccountIs DEF AccountInv
<1> HIDE DEF I, J, i, j
<1>7. used' <= total' + J + gone'
  BY <1>1, <1>2, <1>4, <1>5, <1>6
<1>8. used' <= total' + Cardinality(Pending(outbox', Consumers)) + gone'
  BY <1>7 DEF J
<1> QED
  BY ONLY <1>8, AccountIs

\* Links that break lose what is in the boxes of their clients.
LEMMA BrokenAccount ==
  ASSUME AccountInv, NEW C \in SUBSET Consumers, Break(C), used' = used,
         \/ total' = total /\ gone' = gone + ItemsFrom(C)
         \/ total' = 0 /\ gone' = gone + total + ItemsFrom(C)
  PROVE  UsesAreAccounted'
<1> DEFINE I == Cardinality(Pending(outbox, Consumers))
           J == Cardinality(Pending(outbox', Consumers))
           i == Cardinality(Pending(outbox, C))
           j == Cardinality(Pending(outbox', C))
           r == Cardinality(Pending(outbox, Consumers \ C))
<1>1. outbox \in Boxes /\ total \in Nat /\ used \in Nat /\ gone \in Nat
  BY DEF AccountInv, LiteShape, Counters, StoreTypeOK, Boxes
<1>2. outbox' \in Boxes
  <2>1. <<>> \in Seq(Emitted)
    OBVIOUS
  <2> QED
    BY <1>1, <2>1 DEF Break, Boxes
<1>3. Pending(outbox', Consumers \ C) = Pending(outbox, Consumers \ C)
  <2>1. \A c \in Consumers \ C : outbox'[c] = outbox[c]
    BY DEF Break
  <2> QED
    BY <2>1, PendingSame
<1>4. /\ Consumers \in SUBSET Consumers /\ Consumers \ C \in SUBSET Consumers
  OBVIOUS
<1>5. I = i + r
  BY <1>1, <1>4, PendingSplit
<1>6. J = j + r
  <2>1. J = j + Cardinality(Pending(outbox', Consumers \ C))
    BY <1>2, <1>4, PendingSplit
  <2> QED
    BY <1>3, <2>1
<1>7. i \in Nat /\ j \in Nat /\ r \in Nat
  BY <1>1, <1>2, <1>4, PendingFinite
<1>8. ItemsFrom(C) = i
  BY AccountIs
<1>9. used <= total + I + gone
  BY AccountIs DEF AccountInv
<1> HIDE DEF I, J, i, j, r
<1>10. used' <= total' + J + gone'
  BY <1>1, <1>5, <1>6, <1>7, <1>8, <1>9
<1> QED
  BY <1>10, AccountIs DEF J

\* A window begins with nothing used.
LEMMA FreshAccount ==
  ASSUME LiteShape, LiteShape', used' = 0, gone' = 0
  PROVE  UsesAreAccounted'
<1>1. outbox' \in Boxes /\ total' \in Nat
  BY DEF LiteShape, StoreTypeOK, Boxes
<1>2. Consumers \in SUBSET Consumers
  OBVIOUS
<1>3. Cardinality(Pending(outbox', Consumers)) \in Nat
  BY <1>1, <1>2, PendingFinite
<1>4. used' <= total' + Cardinality(Pending(outbox', Consumers)) + gone'
  BY <1>1, <1>3
<1> QED
  BY <1>4, AccountIs

LEMMA AccountStep ==
  ASSUME AccountInv, LiteShape', [LiteNext]_liteVars
  PROVE  UsesAreAccounted'
<1> USE DEF server, links, clients, liteHistory
<1>1. /\ LiteShape /\ outbox \in [Consumers -> Seq(Emitted)]
      /\ total \in Nat /\ used \in Nat /\ gone \in Nat
  BY DEF AccountInv, LiteShape, Counters, StoreTypeOK
<1>2. CASE UNCHANGED <<used, gone, total, outbox>>
  BY <1>2, SameAccount
<1>3. ASSUME NEW c \in Consumers, Connect(c) PROVE UsesAreAccounted'
  <2>1. outbox' = [outbox EXCEPT ![c] = Append(@, Coordination)]
    BY <1>1, <1>3, Messages, AppendEmitted DEF Connect, Introduces
  <2>2. used' = used + Coordination.by /\ UNCHANGED <<total, gone>>
    BY <1>1, <1>3, Messages DEF Connect
  <2> QED
    BY <2>1, <2>2, Messages, EmittedAccount
<1>4. ASSUME NEW c \in Consumers, Disconnect(c) PROVE UsesAreAccounted'
  BY <1>4, BrokenAccount DEF Disconnect, OnSocketDisconnect
<1>5. ASSUME NEW c \in Consumers, HandleCoordinate(c) PROVE UsesAreAccounted'
  <2>1. /\ outbox[c] # <<>> /\ outbox' = [outbox EXCEPT ![c] = Tail(@)]
        /\ Head(outbox[c]).kind = "coordinate"
        /\ UNCHANGED <<total, used, gone>>
    BY <1>5 DEF HandleCoordinate, Handles, InitializeNewCoordinator
  <2>2. Head(outbox[c]).by = 0
    BY <1>1, <2>1, TailOfEmitted, Carries
  <2>3. total' = total + Head(outbox[c]).by /\ gone' = gone
    BY <1>1, <2>1, <2>2
  <2> QED
    BY <2>1, <2>3, TakenAccount
<1>6. ASSUME NEW c \in Consumers, HandleIncrement(c) PROVE UsesAreAccounted'
  <2>1. /\ outbox[c] # <<>> /\ outbox' = [outbox EXCEPT ![c] = Tail(@)]
        /\ used' = used
        /\ \/ total' = total + Head(outbox[c]).by /\ gone' = gone
           \/ total' = total /\ gone' = gone + Head(outbox[c]).by
    BY <1>6 DEF HandleIncrement, Handles, Increment
  <2> QED
    BY <2>1, TakenAccount
<1>7. ASSUME NEW c \in Consumers, HandleReset(c) PROVE UsesAreAccounted'
  <2>1. CASE known
    BY <1>1, <1>7, <2>1, FreshAccount DEF HandleReset, NewWindow
  <2>2. CASE ~known
    <3>1. /\ outbox[c] # <<>> /\ outbox' = [outbox EXCEPT ![c] = Tail(@)]
          /\ Head(outbox[c]).kind = "reset"
          /\ UNCHANGED <<total, used, gone>>
      BY <1>7, <2>2 DEF HandleReset, Handles
    <3>2. Head(outbox[c]).by = 0
      BY <1>1, <3>1, TailOfEmitted, Carries
    <3>3. total' = total + Head(outbox[c]).by /\ gone' = gone
      BY <1>1, <3>1, <3>2
    <3> QED
      BY <3>1, <3>3, TakenAccount
  <2> QED
    BY <2>1, <2>2
<1>8. ASSUME NEW c \in Consumers, InvalidEvent(c) PROVE UsesAreAccounted'
  BY <1>8, TakenAccount DEF InvalidEvent
<1>9. ASSUME NEW c \in Consumers, Spend(c) PROVE UsesAreAccounted'
  <2>1. PICK n \in 1 .. claim[c] :
          /\ used' = used + n
          /\ outbox' = [outbox EXCEPT ![c] = Append(@, Incrementing(n))]
    BY <1>9 DEF Spend
  <2>2. n \in 1 .. MaxBatch /\ n \in Nat
    BY <1>1, MaxBatchAssumption DEF LiteShape
  <2>3. Incrementing(n) \in Emitted /\ Incrementing(n).by = n
    BY <2>2, Messages
  <2>4. UNCHANGED <<total, gone>>
    BY <1>9 DEF Spend
  <2> QED
    BY <2>1, <2>3, <2>4, EmittedAccount
<1>10. ASSUME NEW c \in Consumers, Purge(c) PROVE UsesAreAccounted'
  <2>1. outbox' = [outbox EXCEPT ![c] = Append(@, Resetting)]
    BY <1>10 DEF Purge
  <2>2. used' = used + Resetting.by /\ UNCHANGED <<total, gone>>
    BY <1>1, <1>10, Messages DEF Purge
  <2> QED
    BY <2>1, <2>2, Messages, EmittedAccount
<1>11. CASE ServerRestarts
  <2>1. Up \in SUBSET Consumers
    BY DEF Up
  <2> QED
    BY <1>11, <2>1, BrokenAccount DEF ServerRestarts, ResetTotal
<1>12. CASE WindowEnds
  BY <1>1, <1>12, FreshAccount DEF WindowEnds, NewWindow
<1>13. ASSUME NEW c \in Consumers, Receive(c) \/ Read(c) \/ GiveBack(c)
       PROVE  UsesAreAccounted'
  BY <1>2, <1>13 DEF Receive, Read, GiveBack
<1>14. CASE OnInterval
  BY <1>2, <1>14 DEF OnInterval
<1>15. CASE UNCHANGED liteVars
  BY <1>2, <1>15 DEF liteVars
<1> QED
  BY <1>3, <1>4, <1>5, <1>6, <1>7, <1>8, <1>9, <1>10, <1>11, <1>12, <1>13, <1>14,
     <1>15
     DEF LiteNext, Tick, Serve

\* The counts stay numbers: a box holds a finite number of items.
LEMMA CountersStep ==
  ASSUME LiteShape, Counters, [LiteNext]_liteVars
  PROVE  Counters'
<1> USE DEF server, links, clients, liteHistory
<1>1. /\ outbox \in [Consumers -> Seq(Emitted)] /\ outbox \in Boxes
      /\ claim \in [Consumers -> 0 .. MaxBatch] /\ total \in Nat
      /\ used \in Nat /\ gone \in Nat /\ faults \in Nat
  BY DEF LiteShape, Counters, StoreTypeOK, Boxes
<1>2. ASSUME NEW C \in SUBSET Consumers PROVE ItemsFrom(C) \in Nat
  <2>1. Cardinality(Pending(outbox, C)) \in Nat
    BY <1>1, PendingFinite
  <2> QED
    BY <2>1, AccountIs
<1>3. ASSUME NEW c \in Consumers, outbox[c] # <<>> PROVE Head(outbox[c]).by \in Nat
  <2>1. Head(outbox[c]) \in Emitted
    BY <1>1, <1>3, TailOfEmitted
  <2> QED
    BY <2>1, Carries
<1>4. CASE UNCHANGED <<used, gone, faults>>
  BY <1>1, <1>4 DEF Counters
<1>5. ASSUME NEW c \in Consumers, Disconnect(c) PROVE Counters'
  <2>1. ItemsFrom({c}) \in Nat
    BY <1>2
  <2>2. faults' = faults + 1 /\ gone' = gone + ItemsFrom({c}) /\ used' = used
    BY <1>5 DEF Disconnect
  <2> QED
    BY <1>1, <2>1, <2>2 DEF Counters
<1>6. CASE ServerRestarts
  <2>1. ItemsFrom(Up) \in Nat
    BY <1>2 DEF Up
  <2>2. faults' = faults + 1 /\ gone' = gone + total + ItemsFrom(Up) /\ used' = used
    BY <1>6 DEF ServerRestarts
  <2> QED
    BY <1>1, <2>1, <2>2 DEF Counters
<1>7. ASSUME NEW c \in Consumers, InvalidEvent(c) PROVE Counters'
  <2>1. /\ outbox[c] # <<>> /\ used' = used
        /\ faults' = faults + 1 /\ gone' = gone + Head(outbox[c]).by
    BY <1>7 DEF InvalidEvent
  <2> QED
    BY <1>1, <1>3, <2>1 DEF Counters
<1>8. ASSUME NEW c \in Consumers, HandleIncrement(c) PROVE Counters'
  <2>1. /\ outbox[c] # <<>> /\ used' = used /\ faults' = faults
        /\ gone' = gone \/ gone' = gone + Head(outbox[c]).by
    BY <1>8 DEF HandleIncrement, Handles
  <2> QED
    BY <1>1, <1>3, <2>1 DEF Counters
<1>9. ASSUME NEW c \in Consumers, Spend(c) PROVE Counters'
  <2>1. PICK n \in 1 .. claim[c] : used' = used + n
    BY <1>9 DEF Spend
  <2>2. n \in Nat
    BY <1>1, MaxBatchAssumption
  <2>3. gone' = gone /\ faults' = faults
    BY <1>9 DEF Spend
  <2> QED
    BY <1>1, <2>1, <2>2, <2>3 DEF Counters
<1>10. ASSUME NEW c \in Consumers,
              Connect(c) \/ HandleCoordinate(c) \/ Receive(c) \/ Read(c)
                \/ GiveBack(c) \/ Purge(c)
       PROVE  Counters'
  BY <1>4, <1>10 DEF Connect, HandleCoordinate, Handles, Receive, Read, GiveBack, Purge
<1>11. ASSUME NEW c \in Consumers, HandleReset(c) PROVE Counters'
  <2>1. CASE known
    BY <1>1, <1>11, <2>1 DEF HandleReset, Handles, NewWindow, Counters
  <2>2. CASE ~known
    BY <1>4, <1>11, <2>2 DEF HandleReset, Handles
  <2> QED
    BY <2>1, <2>2
<1>12. CASE WindowEnds
  BY <1>1, <1>12 DEF WindowEnds, NewWindow, Counters
<1>13. CASE OnInterval
  BY <1>4, <1>13 DEF OnInterval
<1>14. CASE UNCHANGED liteVars
  BY <1>4, <1>14 DEF liteVars
<1> QED
  BY <1>5, <1>6, <1>7, <1>8, <1>9, <1>10, <1>11, <1>12, <1>13, <1>14
     DEF LiteNext, Tick, Serve

-----------------------------------------------------------------------------
(* The theorems.                                                           *)

LEMMA LiteInvInit == LiteInit => LiteInv
<1> SUFFICES ASSUME LiteInit
             PROVE  LiteInv
  OBVIOUS
<1>1. <<>> \in Seq(Emitted) /\ <<>> \in Seq(0 .. MaxBatch)
  OBVIOUS
<1>2. 0 \in 0 .. MaxBatch
  BY MaxBatchAssumption
<1>3. LiteShape
  BY <1>1, <1>2, MaxBatchAssumption DEF LiteInit, LiteShape, StoreInit, StoreTypeOK
<1>4. QuietInv
  BY DEF LiteInit, QuietInv, Quiet, NoIncrement
<1> QED
  BY <1>3, <1>4 DEF LiteInv

\* While the server lives, every increment finds a coordinator: clients learn
\* of quota from one only, and it is never removed.
THEOREM NothingIsRefused == LiteSpec => []NeverRefused
<1>1. LiteInv /\ [LiteNext]_liteVars => LiteInv'
  BY ShapeStep, QuietStep DEF LiteInv
<1>2. LiteInv => NeverRefused
  BY DEF LiteInv, QuietInv, NeverRefused
<1> QED
  BY LiteInvInit, <1>1, <1>2, PTL DEF LiteSpec

LEMMA AccountInit == LiteInit => AccountInv
<1> SUFFICES ASSUME LiteInit
             PROVE  AccountInv
  OBVIOUS
<1>1. LiteShape
  BY LiteInvInit DEF LiteInv
<1>2. used = 0 /\ gone = 0 /\ faults = 0 /\ total \in Nat /\ outbox \in Boxes
  BY <1>1 DEF LiteInit, LiteShape, StoreTypeOK, Boxes
<1>3. Cardinality(Pending(outbox, Consumers)) \in Nat
  BY <1>2, PendingFinite
<1>4. used <= total + Cardinality(Pending(outbox, Consumers)) + gone
  BY <1>2, <1>3
<1>5. UsesAreAccounted
  BY <1>4, AccountIs
<1>6. Counters
  BY <1>2 DEF Counters
<1> QED
  BY <1>1, <1>5, <1>6 DEF AccountInv

LEMMA AccountHolds == LiteSpec => []AccountInv
<1>1. AccountInv /\ [LiteNext]_liteVars => AccountInv'
  BY ShapeStep, CountersStep, AccountStep DEF AccountInv
<1> QED
  BY AccountInit, <1>1, PTL DEF LiteSpec

\* Whatever clients emit, in whatever order links break and the server
\* restarts, messages, balances and claims stay what their handlers expect.
THEOREM LiteTypeCorrect == LiteSpec => []LiteTypeOK
<1>1. AccountInv => LiteTypeOK
  BY DEF AccountInv, LiteShape, Counters, LiteTypeOK
<1> QED
  BY AccountHolds, <1>1, PTL

\* No use of quota is forgotten silently, by any number of clients: the server
\* has counted it, a client's buffer or link still carries its increment, or a
\* fault took it (CoordinationClient.ts:68-85, CoordinationServer.ts:155-171).
THEOREM UsesGetAccounted == LiteSpec => []UsesAreAccounted
<1>1. AccountInv => UsesAreAccounted
  BY DEF AccountInv
<1> QED
  BY AccountHolds, <1>1, PTL

\* Without a fault nothing is gone: an increment that is refused would be,
\* but while the server lives there is none.
UnfaultedInv == faults = 0 => gone = 0 /\ ~restarted

LEMMA UnfaultedStep ==
  ASSUME LiteInv, AccountInv, UnfaultedInv, [LiteNext]_liteVars
  PROVE  UnfaultedInv'
<1> USE DEF UnfaultedInv, server, links, clients, liteHistory
<1>1. faults \in Nat
  BY DEF AccountInv, Counters
<1>2. ASSUME NEW c \in Consumers, HandleIncrement(c) PROVE UnfaultedInv'
  <2>1. /\ outbox[c] \in Seq(Emitted) /\ outbox[c] # <<>>
        /\ Head(outbox[c]).kind = "increment"
    BY <1>2 DEF HandleIncrement, Handles, LiteInv, LiteShape
  <2>2. ~NoIncrement(outbox[c])
    BY <2>1 DEF NoIncrement
  <2>3. ~restarted => known
    BY <2>2 DEF LiteInv, QuietInv, Quiet
  <2> QED
    BY <1>2, <2>3 DEF HandleIncrement, Handles
<1>3. ASSUME NEW c \in Consumers, HandleCoordinate(c) \/ HandleReset(c)
      PROVE  UnfaultedInv'
  BY <1>3 DEF HandleCoordinate, HandleReset, Handles, NewWindow
<1>4. ASSUME NEW c \in Consumers,
             \/ Connect(c) \/ Receive(c) \/ Read(c) \/ Spend(c) \/ GiveBack(c)
             \/ Purge(c)
      PROVE  UnfaultedInv'
  BY <1>4 DEF Connect, Receive, Read, Spend, GiveBack, Purge
<1>5. ASSUME NEW c \in Consumers, Disconnect(c) \/ InvalidEvent(c)
      PROVE  UnfaultedInv'
  <2>1. faults' = faults + 1
    BY <1>5 DEF Disconnect, InvalidEvent
  <2> QED
    BY <1>1, <2>1
<1>6. CASE ServerRestarts
  <2>1. faults' = faults + 1
    BY <1>6 DEF ServerRestarts
  <2> QED
    BY <1>1, <2>1
<1>7. CASE WindowEnds \/ OnInterval
  BY <1>7 DEF WindowEnds, OnInterval, NewWindow
<1>8. CASE UNCHANGED liteVars
  BY <1>8 DEF liteVars
<1> QED
  BY <1>2, <1>3, <1>4, <1>5, <1>6, <1>7, <1>8 DEF LiteNext, Serve, Tick

\* Any number of clients that use and count through a server that lives, over
\* links that hold, have no use uncounted but those whose increment is on its
\* way (CoordinationServer.ts:149-171).
THEOREM FaultlessGetsCounted == LiteSpec => []FaultlessIsCounted
<1> DEFINE Whole == LiteInv /\ AccountInv /\ UnfaultedInv
<1>1. LiteInit => Whole
  <2>1. LiteInit => UnfaultedInv
    BY DEF LiteInit, UnfaultedInv
  <2> QED
    BY <2>1, LiteInvInit, AccountInit
<1>2. Whole /\ [LiteNext]_liteVars => Whole'
  BY ShapeStep, QuietStep, CountersStep, AccountStep, UnfaultedStep
  DEF LiteInv, AccountInv
<1>3. Whole => FaultlessIsCounted
  <2> SUFFICES ASSUME Whole, faults = 0
               PROVE  used <= total + ItemsFrom(Consumers)
    BY DEF FaultlessIsCounted
  <2>1. gone = 0 /\ total \in Nat /\ outbox \in Boxes
    BY DEF UnfaultedInv, LiteInv, LiteShape, StoreTypeOK, Boxes
  <2>2. /\ used <= total + ItemsFrom(Consumers) + gone
        /\ ItemsFrom(Consumers) = Cardinality(Pending(outbox, Consumers))
    BY DEF AccountInv, UsesAreAccounted, ItemsFrom, Pending
  <2>3. ItemsFrom(Consumers) \in Nat
    BY <2>1, <2>2, PendingFinite
  <2> QED
    BY <2>1, <2>2, <2>3
<1> QED
  BY <1>1, <1>2, <1>3, PTL DEF LiteSpec
=============================================================================
