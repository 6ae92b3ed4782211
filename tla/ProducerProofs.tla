--------------------------- MODULE ProducerProofs ---------------------------
(***************************************************************************)
(* Theorems about Producer, for any number of instances, calls and items.  *)
(***************************************************************************)
EXTENDS DeliveryRefinement, SequenceTheorems, TLAPS

Done == {"id", "error"}
Begun(k) == call[k] # NoCall

\* Who has heard of the end of an instance's channel, or could not.
Known(i) ==
  \/ death[i] = "died"
  \/ i \in Consumers /\ death[i] = "fatal"
  \/ config[i].channel # "none" /\ config[i].stale
  \/ i \in Producers /\ shut[i]
  \/ death[i] = "missed" /\ i \in Consumers /\ config[i].channel = "none"

\* How far boot is and what it has opened: a connection of its own only where
\* no channel was given.
Launched(i) ==
  /\ boot[i] \in {"new", "connecting", "opening"} => chan[i] = "none"
  /\ boot[i] \in {"new", "connecting"} => conn[i] = "none"
  /\ boot[i] \in {"connecting", "opening", "asserting"} => config[i].channel = "none"
  /\ conn[i] # "none" => config[i].channel = "none"
  /\ boot[i] = "asserting" => chan[i] = "open"
  /\ boot[i] = "coordinating" => i \in Consumers
  /\ boot[i] \in {"coordinating", "up"} =>
       /\ chan[i] # "none"
       /\ config[i].channel = "none" => declared
       /\ chan[i] = "closed" => Known(i)
LaunchInv == \A i \in Instances : Launched(i)

\* Calls are made on instances that came up.
CallInv ==
  \A k \in Calls :
    IF Begun(k)
      THEN /\ boot[call[k].by] \in {"up", "exited"}
           /\ config[call[k].by].channel = "none" => declared
      ELSE \A n \in Positions(k) : fate[k][n] = "waiting"

\* With keepOrder one item is under way: those before it are done, and those
\* behind it wait as long as it is not done.
InTurn(k) ==
  /\ \A m, n \in Positions(k) :
       m < n /\ fate[k][n] # "waiting" => fate[k][m] \in Done
  /\ \A n \in Positions(k) :
       n > 1 /\ fate[k][n] = "waiting" => fate[k][n - 1] \notin Done
TurnInv ==
  \A k \in Calls : Begun(k) =>
    IF call[k].keepOrder THEN InTurn(k)
    ELSE \A n \in Positions(k) : fate[k][n] # "waiting"

\* A call that had resolved stays so.
AfterInv ==
  \A k \in Calls : \A l \in after[k] :
    /\ Begun(k) /\ Begun(l) /\ call[l].by = call[k].by
    /\ Resolved(l)

\* What an item on a channel, at the broker or on its way back has behind it.
Gone(x) == Begun(x[1]) /\ FateOf(x) \notin {"waiting", "serializing"}
Carried(p, x) ==
  /\ Gone(x) /\ call[x[1]].by = p
  /\ Confirms(p) /\ chan[p] = "open" => FateOf(x) = "sent"
WireInv ==
  \A p \in Producers : \A i \in DOMAIN wire[p] : Carried(p, wire[p][i])
QueueInv == \A i \in DOMAIN queue : Gone(queue[i])
DropInv == \A x \in dropped : Begun(x[1])

Kept(x) == x \in dropped \/ OnQueue(x)

AnswerInv ==
  \A x \in Items, took \in BOOLEAN : <<x, took>> \in answers =>
    /\ Begun(x[1])
    /\ chan[call[x[1]].by] = "open"
    /\ Confirms(call[x[1]].by)
    /\ FateOf(x) = "sent"
    /\ ~OnWire(x, call[x[1]].by)
    /\ <<x, ~took>> \notin answers
    /\ took => Kept(x)

\* x may come before y.
Before(x, y) ==
  /\ x[1] = y[1] /\ call[x[1]].keepOrder => x[2] < y[2]
  /\ x # y
  /\ y[1] \notin after[x[1]]
OrderInv ==
  /\ \A i, j \in DOMAIN queue : i < j => Before(queue[i], queue[j])
  /\ \A p \in Producers : \A i, j \in DOMAIN wire[p] :
       i < j => Before(wire[p][i], wire[p][j])
  /\ \A i \in DOMAIN queue, p \in Producers : \A j \in DOMAIN wire[p] :
       Before(queue[i], wire[p][j])

IInv ==
  /\ ProducerTypeOK /\ LaunchInv /\ CallInv /\ TurnInv /\ AfterInv
  /\ WireInv /\ QueueInv /\ DropInv /\ AnswerInv /\ OwnIsRouted
  /\ ConfirmedIsHeld /\ OrderInv

-----------------------------------------------------------------------------
(* Facts about the data.                                                   *)

LEMMA ItemIs ==
  ASSUME NEW x \in Items
  PROVE  /\ x[1] \in Calls /\ x[2] \in Positions(x[1])
         /\ x = <<x[1], x[2]>>
BY DEF Items, Positions

LEMMA IsItem ==
  ASSUME NEW k \in Calls, NEW n \in Positions(k)
  PROVE  <<k, n>> \in Items
BY DEF Items, Positions

LEMMA ByWhom ==
  ASSUME ProducerTypeOK, NEW k \in Calls, Begun(k)
  PROVE  /\ call[k] \in Flags /\ call[k].by \in Producers
         /\ call[k].by \in Instances /\ call[k].keepOrder \in BOOLEAN
BY DEF ProducerTypeOK, Begun, Flags, Instances

LEMMA RequestIs ==
  ASSUME NEW k \in Calls
  PROVE  Requests[k] \subseteq Flags
BY CallsAssumption

\* An instance that nothing happens to.
LEMMA LaunchedStays ==
  ASSUME NEW i \in Instances, Launched(i),
         boot'[i] = boot[i], config'[i] = config[i], conn'[i] = conn[i],
         chan'[i] = chan[i], death'[i] = death[i], declared => declared',
         i \in Producers /\ shut[i] => shut'[i]
  PROVE  Launched(i)'
BY DEF Launched, Known

LEMMA LaunchStays ==
  ASSUME LaunchInv, UNCHANGED <<boot, config, conn, chan, death, shut>>,
         declared => declared'
  PROVE  LaunchInv'
BY LaunchedStays DEF LaunchInv

LEMMA Growth ==
  ASSUME NEW S, NEW s \in Seq(S), NEW e \in S
  PROVE  /\ Append(s, e) \in Seq(S)
         /\ DOMAIN s = 1 .. Len(s) /\ Len(s) \in Nat
         /\ DOMAIN Append(s, e) = 1 .. Len(s) + 1
         /\ Append(s, e)[Len(s) + 1] = e
         /\ \A i \in DOMAIN s : Append(s, e)[i] = s[i]
BY AppendProperties, LenProperties

LEMMA Shrink ==
  ASSUME NEW S, NEW s \in Seq(S), s # <<>>
  PROVE  /\ Head(s) \in S /\ Head(s) = s[1] /\ 1 \in DOMAIN s
         /\ Tail(s) \in Seq(S)
         /\ \A i \in DOMAIN Tail(s) : i \in Nat /\ i + 1 \in DOMAIN s
                                      /\ i + 1 > 1 /\ Tail(s)[i] = s[i + 1]
BY HeadTailProperties, LenProperties, EmptySeq

-----------------------------------------------------------------------------
(* Steps that touch no call: boot, the consumers' errors, a declaration.   *)

\* A producer whose instance came up does not take part.
Bystander ==
  /\ UNCHANGED callVars
  /\ declared => declared'
  /\ \A i \in Instances :
       (boot[i] \in {"up", "exited"} /\ i \in Producers)
         => /\ boot'[i] = boot[i] /\ config'[i] = config[i]
            /\ chan'[i] = chan[i]

LEMMA BystanderKeeps ==
  ASSUME IInv, Bystander, StartupTypeOK', LaunchInv'
  PROVE  IInv'
<1> USE DEF Bystander, callVars, IInv
<1>0. /\ ProducerTypeOK
      /\ UNCHANGED <<call, fate, wire, queue, dropped, answers, shut, after>>
  OBVIOUS
<1>1. ProducerTypeOK'
  BY <1>0 DEF ProducerTypeOK
<1>2. ASSUME NEW k \in Calls, Begun(k)
      PROVE  /\ boot'[call[k].by] = boot[call[k].by]
             /\ config'[call[k].by] = config[call[k].by]
             /\ chan'[call[k].by] = chan[call[k].by]
             /\ call[k].by \in Producers
             /\ Confirms(call[k].by)' <=> Confirms(call[k].by)
  <2>1. call[k].by \in Producers /\ call[k].by \in Instances
    BY <1>0, <1>2, ByWhom
  <2>2. boot[call[k].by] \in {"up", "exited"}
    BY <1>2 DEF CallInv
  <2> QED
    BY <2>1, <2>2 DEF Confirms
<1>3. CallInv'
  BY <1>0, <1>2 DEF CallInv, Begun
<1>4. TurnInv' /\ AfterInv' /\ QueueInv' /\ DropInv' /\ OrderInv'
  BY <1>0 DEF TurnInv, InTurn, AfterInv, QueueInv, DropInv, OrderInv, Begun,
              Resolved, Gone, FateOf, Before
<1>5. WireInv'
  <2> SUFFICES ASSUME NEW p \in Producers, NEW i \in DOMAIN wire[p]
               PROVE  Carried(p, wire[p][i])'
    BY <1>0 DEF WireInv
  <2>1. wire[p][i] \in Items
    BY <1>0 DEF ProducerTypeOK
  <2>2. Carried(p, wire[p][i]) /\ wire[p][i][1] \in Calls
    BY <2>1, ItemIs DEF WireInv
  <2> QED
    BY <1>0, <1>2, <2>2 DEF Carried, Gone, FateOf, Begun
<1>6. AnswerInv'
  <2> SUFFICES ASSUME NEW x \in Items, NEW took \in BOOLEAN,
                      <<x, took>> \in answers'
               PROVE  (/\ Begun(x[1])
                       /\ chan[call[x[1]].by] = "open"
                       /\ Confirms(call[x[1]].by)
                       /\ FateOf(x) = "sent"
                       /\ ~OnWire(x, call[x[1]].by)
                       /\ <<x, ~took>> \notin answers
                       /\ took => Kept(x))'
    BY DEF AnswerInv
  <2>1. /\ x[1] \in Calls /\ Begun(x[1])
        /\ chan[call[x[1]].by] = "open" /\ Confirms(call[x[1]].by)
        /\ FateOf(x) = "sent" /\ ~OnWire(x, call[x[1]].by)
    BY <1>0, ItemIs DEF AnswerInv
  <2>2. (<<x, ~took>> \notin answers) /\ (took => Kept(x))
    BY <1>0 DEF AnswerInv
  <2>3. /\ call' = call /\ fate' = fate /\ wire' = wire
        /\ queue' = queue /\ dropped' = dropped /\ answers' = answers
    BY <1>0
  <2> HIDE DEF Bystander, callVars, IInv
  <2>4. Begun(x[1])' /\ FateOf(x)' = "sent"
    BY <2>1, <2>3 DEF Begun, FateOf
  <2>5. chan'[call'[x[1]].by] = "open" /\ Confirms(call[x[1]].by)'
    <3>1. /\ chan'[call[x[1]].by] = chan[call[x[1]].by]
          /\ Confirms(call[x[1]].by)' <=> Confirms(call[x[1]].by)
      BY <1>2, <2>1
    <3> QED
      BY <2>1, <2>3, <3>1
  <2>6. ~OnWire(x, call[x[1]].by)'
    BY <2>1, <2>3 DEF OnWire
  <2>7. took => Kept(x)'
    <3>1. Kept(x)' = Kept(x)
      BY <2>3 DEF Kept, OnQueue
    <3> QED
      BY <2>2, <3>1
  <2>8. <<x, ~took>> \notin answers'
    BY <2>3, <2>2
  <2> QED
    BY <2>4, <2>5, <2>6, <2>7, <2>8
<1>7. OwnIsRouted'
  <2> SUFFICES ASSUME NEW x \in dropped
               PROVE  config'[call[x[1]].by].channel # "none"
    BY <1>0 DEF OwnIsRouted
  <2>1. x[1] \in Calls /\ Begun(x[1])
    BY <1>0, ItemIs DEF ProducerTypeOK, DropInv
  <2> QED
    BY <1>2, <2>1 DEF OwnIsRouted
<1>8. ConfirmedIsHeld'
  <2> SUFFICES ASSUME NEW p \in Producers, Confirms(p)', NEW x \in Of(p),
                      FateOf(x) = "id"
               PROVE  x \in dropped \/ \E i \in DOMAIN queue : queue[i] = x
    BY <1>0 DEF ConfirmedIsHeld, Of, FateOf
  <2>1. x[1] \in Calls /\ Begun(x[1]) /\ call[x[1]].by = p
    BY ItemIs DEF Of, Begun
  <2> QED
    BY <1>2, <2>1 DEF ConfirmedIsHeld
<1> QED
  BY <1>1, <1>3, <1>4, <1>5, <1>6, <1>7, <1>8

LEMMA StartupStep ==
  ASSUME IInv, StartupNext, UNCHANGED callVars
  PROVE  IInv'
<1> USE DEF StartupTypeOK, LaunchInv, Launched, Known, Booting, Handles, Deaths
<1>1. PICK i \in Instances :
        \/ \E g \in Configs[i] : Initialize(i, g)
        \/ Connect(i) \/ CreateChannel(i) \/ AssertQueue(i) \/ Coordinate(i)
        \/ Dies(i)
  BY DEF StartupNext
<1>2. /\ StartupTypeOK /\ LaunchInv
      /\ UNCHANGED shut
  BY DEF IInv, ProducerTypeOK, callVars
<1>3. CASE \E g \in Configs[i] : Initialize(i, g)
  <2>1. PICK g \in Configs[i] : Initialize(i, g)
    BY <1>3
  <2>2. g \in Configurations
    BY StartupAssumption DEF Instances
  <2>3. /\ AfterChannel(i, g) \in {"coordinating", "up"}
        /\ g.channel \in {"none", "channel", "confirmChannel"}
        /\ g.stale \in BOOLEAN
    BY <2>2 DEF AfterChannel, Configurations
  <2>4. StartupTypeOK'
    BY <1>2, <2>1, <2>2, <2>3 DEF Initialize, Reject
  <2>5. ASSUME NEW j \in Instances PROVE Launched(j)'
    <3>1. CASE j # i
      <4>1. /\ boot'[j] = boot[j] /\ config'[j] = config[j] /\ chan'[j] = chan[j]
            /\ conn' = conn /\ death' = death /\ declared' = declared
        BY <1>2, <2>1, <3>1 DEF Initialize, Reject
      <4> QED
        BY <1>2, <4>1, LaunchedStays
    <3>2. CASE j = i
      <4>1. /\ boot[i] = "new" /\ conn'[i] = "none" /\ config'[i] = g
            /\ chan[i] = "none"
        BY <1>2, <2>1 DEF Initialize
      <4>2. \/ boot'[i] = "failed" /\ chan'[i] = "none"
            \/ boot'[i] = "connecting" /\ chan'[i] = "none" /\ g.channel = "none"
            \/ /\ boot'[i] = AfterChannel(i, g) /\ g.channel # "none"
               /\ chan'[i] = IF g.stale THEN "closed" ELSE "open"
        BY <1>2, <2>1, <4>1 DEF Initialize, Reject
      <4>3. AfterChannel(i, g) = "coordinating" => i \in Consumers
        BY DEF AfterChannel
      <4> QED
        BY <2>3, <3>2, <4>1, <4>2, <4>3
    <3> QED
      BY <3>1, <3>2
  <2>6. Bystander
    BY <1>2, <2>1 DEF Initialize, Reject, Bystander
  <2> QED
    BY <2>4, <2>5, <2>6, BystanderKeeps
<1>4. CASE Connect(i)
  <2>1. StartupTypeOK'
    BY <1>2, <1>4 DEF Connect, Reject
  <2>3. LaunchInv'
    BY <1>2, <1>4 DEF Connect, Reject
  <2>2. Bystander
    BY <1>2, <1>4 DEF Connect, Reject, Bystander
  <2> QED
    BY <2>1, <2>2, <2>3, BystanderKeeps
<1>5. CASE CreateChannel(i)
  <2>1. StartupTypeOK'
    BY <1>2, <1>5 DEF CreateChannel, Reject
  <2>3. LaunchInv'
    BY <1>2, <1>5 DEF CreateChannel, Reject
  <2>2. Bystander
    BY <1>2, <1>5 DEF CreateChannel, Reject, Bystander
  <2> QED
    BY <2>1, <2>2, <2>3, BystanderKeeps
<1>6. CASE AssertQueue(i)
  <2>1. AfterChannel(i, config[i]) \in {"coordinating", "up"}
    BY DEF AfterChannel
  <2>2. StartupTypeOK'
    <3>1. boot' \in [Instances -> Booting \cup {"new", "up", "failed", "exited"}]
      BY <1>2, <1>6, <2>1 DEF AssertQueue, Reject
    <3>2. chan' \in [Instances -> Handles] /\ declared' \in BOOLEAN
      BY <1>2, <1>6 DEF AssertQueue
    <3>3. UNCHANGED <<config, conn, death>>
      BY <1>6 DEF AssertQueue
    <3> QED
      BY <1>2, <3>1, <3>2, <3>3
  <2>4. chan[i] = "open" /\ UNCHANGED <<config, death, shut>>
    BY <1>2, <1>6 DEF AssertQueue
  <2>5. ASSUME NEW j \in Instances PROVE Launched(j)'
    <3>1. CASE j # i
      <4>1. /\ boot'[j] = boot[j] /\ chan'[j] = chan[j]
            /\ UNCHANGED <<config, conn, death, shut>> /\ (declared => declared')
        BY <1>2, <1>6, <3>1 DEF AssertQueue, Reject
      <4> QED
        BY <1>2, <4>1, LaunchedStays
    <3>2. CASE j = i
      <4>1. /\ config[i].channel = "none" /\ UNCHANGED <<config, conn>>
            /\ \/ /\ boot'[i] = AfterChannel(i, config[i])
                  /\ declared' /\ chan'[i] = "open"
               \/ boot'[i] = "failed" /\ chan'[i] = "closed"
        BY <1>2, <1>6, <2>4 DEF AssertQueue, Reject
      <4>2. AfterChannel(i, config[i]) = "coordinating" => i \in Consumers
        BY DEF AfterChannel
      <4> QED
        BY <1>2, <2>1, <3>2, <4>1, <4>2
    <3> QED
      BY <3>1, <3>2
  <2>3. Bystander
    BY <1>2, <1>6 DEF AssertQueue, Reject, Bystander
  <2> QED
    BY <2>2, <2>3, <2>5, BystanderKeeps
<1>7. CASE Coordinate(i)
  <2>1. StartupTypeOK' /\ LaunchInv'
    BY <1>2, <1>7 DEF Coordinate, Reject
  <2>2. Bystander
    BY <1>2, <1>7 DEF Coordinate, Reject, Bystander
  <2> QED
    BY <2>1, <2>2, BystanderKeeps
<1>8. CASE Dies(i)
  <2>1. StartupTypeOK' /\ LaunchInv'
    BY <1>2, <1>8 DEF Dies
  <2>2. Bystander
    BY <1>2, <1>8, StartupAssumption DEF Dies, Bystander
  <2> QED
    BY <2>1, <2>2, BystanderKeeps
<1> QED
  BY <1>1, <1>3, <1>4, <1>5, <1>6, <1>7, <1>8

LEMMA DeclareStep ==
  ASSUME IInv, Declare
  PROVE  IInv'
<1>1. StartupTypeOK' /\ Bystander
  BY DEF IInv, ProducerTypeOK, StartupTypeOK, Declare, Bystander, callVars
<1>2. LaunchInv'
  BY LaunchStays DEF IInv, Declare, callVars
<1> QED
  BY <1>1, <1>2, BystanderKeeps

\* An error closes the channel of i and leaves the others alone.
LEMMA ErrorEffect ==
  ASSUME IInv, NEW i \in Instances, ChannelError(i) \/ ConnectionError(i),
         shut' = shut
  PROVE  /\ StartupTypeOK' /\ LaunchInv'
         /\ UNCHANGED <<config, declared>>
         /\ chan'[i] # "open"
         /\ boot[i] \in {"up", "exited"} => boot'[i] \in {"up", "exited"}
         /\ \A j \in Instances \ {i} : chan'[j] = chan[j] /\ boot'[j] = boot[j]
<1> USE DEF StartupTypeOK, LaunchInv, Launched, Known, Booting, Handles, Deaths
<1>1. StartupTypeOK /\ LaunchInv
  BY DEF IInv, ProducerTypeOK
<1>2. PICK h :
        /\ HandleFatalError(i, h)
        /\ boot[i] \in Booting \cup {"up"}
        /\ h = "closed" \/ conn[i] = "open"
  BY DEF ChannelError, ConnectionError
<1>3. /\ Shut(chan, i) \in [Instances -> Handles]
      /\ Shut(conn, i) \in [Instances -> Handles]
      /\ Shut(chan, i)[i] # "open"
      /\ chan[i] = "none" <=> Shut(chan, i)[i] = "none"
      /\ conn[i] = "none" <=> Shut(conn, i)[i] = "none"
      /\ \A j \in Instances \ {i} : Shut(conn, i)[j] = conn[j]
      /\ \A j \in Instances \ {i} : Shut(chan, i)[j] = chan[j]
  BY <1>1 DEF Shut
<1>6. Heard(i) \in Deaths
  BY DEF Heard
<1>4. StartupTypeOK'
  <2>1. boot' \in [Instances -> Booting \cup {"new", "up", "failed", "exited"}]
    BY <1>1, <1>2 DEF HandleFatalError, Reject
  <2>2. death' \in [Instances -> Deaths]
    BY <1>1, <1>2, <1>6 DEF HandleFatalError
  <2>3. UNCHANGED <<config, declared>> /\ chan' = Shut(chan, i) /\ conn' = Shut(conn, i)
    BY <1>2 DEF HandleFatalError
  <2> QED
    BY <1>1, <1>3, <2>1, <2>2, <2>3
<1>5. ASSUME NEW j \in Instances PROVE Launched(j)'
  <2>1. CASE Survives(i, h)
    <3>1. CASE j # i
      <4>1. /\ boot'[j] = boot[j] /\ chan'[j] = chan[j] /\ death'[j] = death[j]
            /\ conn'[j] = conn[j] /\ UNCHANGED <<config, declared, shut>>
        BY <1>1, <1>2, <1>3, <2>1, <3>1 DEF HandleFatalError, Reject
      <4> QED
        BY <1>1, <4>1, LaunchedStays
    <3>2. CASE j = i
      <4>1. /\ boot'[i] = IF boot[i] \in {"opening", "asserting"} THEN "failed" ELSE boot[i]
            /\ death'[i] = Heard(i)
            /\ chan' = Shut(chan, i) /\ conn' = Shut(conn, i)
            /\ UNCHANGED <<config, declared, shut>>
        BY <1>1, <1>2, <2>1 DEF HandleFatalError, Reject
      <4>2. boot[i] = "up" \/ conn[i] = "open"
        BY <1>2, <2>1 DEF Survives
      <4>3. CASE boot[i] = "up"
        <5>1. Heard(i) = IF i \in Consumers THEN "fatal" ELSE "died"
          BY <4>3 DEF Heard
        <5> QED
          BY <1>1, <1>3, <3>2, <4>1, <4>3, <5>1
      <4>4. CASE boot[i] # "up"
        <5>1. Heard(i) = "missed" /\ conn[i] = "open"
          BY <4>2, <4>4 DEF Heard
        <5> QED
          BY <1>1, <1>2, <1>3, <3>2, <4>1, <4>4, <5>1
      <4> QED
        BY <4>3, <4>4
    <3> QED
      BY <3>1, <3>2
  <2>2. CASE ~Survives(i, h)
    <3>1. /\ boot' = [boot EXCEPT ![i] = "exited"]
          /\ chan' = Shut(chan, i) /\ conn' = Shut(conn, i)
          /\ UNCHANGED <<config, death, declared, shut>>
      BY <1>2, <2>2 DEF HandleFatalError
    <3>2. CASE j # i
      BY <1>1, <1>3, <3>1, <3>2, LaunchedStays
    <3>3. CASE j = i
      BY <1>1, <1>3, <3>1, <3>3
    <3> QED
      BY <3>2, <3>3
  <2> QED
    BY <2>1, <2>2
<1> QED
  BY <1>1, <1>2, <1>3, <1>4, <1>5 DEF HandleFatalError, Reject

LEMMA ConsumerFails ==
  ASSUME IInv, NEW i \in Consumers, ChannelError(i) \/ ConnectionError(i),
         UNCHANGED callVars
  PROVE  IInv'
<1>1. i \in Instances /\ i \notin Producers /\ shut' = shut
  BY StartupAssumption DEF Instances, callVars
<1>2. StartupTypeOK' /\ LaunchInv' /\ Bystander
  BY <1>1, ErrorEffect DEF Bystander
<1> QED
  BY <1>2, BystanderKeeps

-----------------------------------------------------------------------------
(* Enqueue.                                                                *)

LEMMA EnqueueStep ==
  ASSUME IInv, NEW k \in Calls, NEW g \in Flags, Enqueue(k, g)
  PROVE  IInv'
<1>0. /\ ProducerTypeOK /\ LaunchInv /\ CallInv /\ TurnInv /\ AfterInv
      /\ WireInv /\ QueueInv /\ DropInv /\ AnswerInv /\ OwnIsRouted
      /\ ConfirmedIsHeld /\ OrderInv
  BY DEF IInv
<1>1. /\ call[k] = NoCall /\ ~Begun(k)
      /\ boot[g.by] = "up" /\ g.by \in Producers /\ g.by \in Instances
      /\ g \in Flags /\ g # NoCall /\ g.keepOrder \in BOOLEAN
  <2>1. call[k] = NoCall /\ boot[g.by] = "up"
    BY DEF Enqueue
  <2>2. g.by \in Producers /\ g.keepOrder \in BOOLEAN /\ g # NoCall
    BY DEF Flags, NoCall
  <2> QED
    BY <2>1, <2>2 DEF Begun, Instances
<1>2. /\ call' = [call EXCEPT ![k] = g]
      /\ fate' = [fate EXCEPT ![k] = [n \in Positions(k) |->
                    IF Begins(g, n) THEN "serializing" ELSE "waiting"]]
      /\ after' = [after EXCEPT ![k] =
                     {l \in Calls : Resolved(l) /\ call[l].by = g.by}]
      /\ UNCHANGED <<boot, config, conn, chan, death, declared, wire, queue,
                     dropped, answers, shut>>
  BY DEF Enqueue, startVars
<1>3. /\ call'[k] = g /\ Begun(k)'
      /\ fate'[k] = [n \in Positions(k) |->
                       IF Begins(g, n) THEN "serializing" ELSE "waiting"]
      /\ after'[k] = {l \in Calls : Resolved(l) /\ call[l].by = g.by}
      /\ \A l \in Calls \ {k} :
           /\ call'[l] = call[l] /\ fate'[l] = fate[l] /\ after'[l] = after[l]
           /\ Begun(l)' <=> Begun(l)
  BY <1>0, <1>1, <1>2 DEF ProducerTypeOK, Begun
<1>4. ProducerTypeOK'
  <2>1. fate'[k] \in [Positions(k) -> Fates]
    BY <1>3 DEF Fates
  <2>2. /\ call' \in [Calls -> Flags \cup {NoCall}]
        /\ fate' = [l \in Calls |-> fate'[l]]
        /\ after' \in [Calls -> SUBSET Calls]
    BY <1>0, <1>1, <1>2 DEF ProducerTypeOK
  <2>3. \A l \in Calls : fate'[l] \in [Positions(l) -> Fates]
    BY <1>0, <1>3, <2>1 DEF ProducerTypeOK
  <2> QED
    BY <1>0, <1>2, <2>2, <2>3 DEF ProducerTypeOK, StartupTypeOK
<1>5. LaunchInv'
  BY <1>0, <1>2, LaunchStays
<1>6. CallInv'
  <2>1. config[g.by].channel = "none" => declared
    BY <1>0, <1>1 DEF LaunchInv, Launched
  <2> QED
    BY <1>0, <1>1, <1>2, <1>3, <2>1 DEF CallInv
<1>7. TurnInv'
  <2>1. ASSUME NEW l \in Calls \ {k}, Begun(l)'
        PROVE  (IF call[l].keepOrder THEN InTurn(l)
                ELSE \A n \in Positions(l) : fate[l][n] # "waiting")'
    BY <1>0, <1>3, <2>1 DEF TurnInv, InTurn
  <2>2. \A n \in Positions(k) : n \in Nat /\ n >= 1 /\ (n > 1 => n - 1 \in Positions(k))
    BY CallsAssumption DEF Positions
  <2>3. (IF call[k].keepOrder THEN InTurn(k)
         ELSE \A n \in Positions(k) : fate[k][n] # "waiting")'
    BY <1>1, <1>3, <2>2 DEF InTurn, Begins, Done
  <2> QED
    BY <2>1, <2>3 DEF TurnInv
<1>8. ASSUME NEW l \in Calls, Resolved(l)
      PROVE  l # k /\ Begun(l) /\ Resolved(l)'
  <2>1. 1 \in Positions(l)
    BY CallsAssumption DEF Positions
  <2>2. Begun(l)
    BY <1>0, <1>8, <2>1 DEF CallInv, Resolved
  <2>3. l # k
    BY <1>1, <2>2
  <2> QED
    BY <1>3, <1>8, <2>2, <2>3 DEF Resolved
<1>9. AfterInv'
  <2>1. ASSUME NEW l \in Calls \ {k}, NEW m \in after[l]
        PROVE  (/\ Begun(l) /\ Begun(m) /\ call[m].by = call[l].by
                /\ Resolved(m))'
    <3>1. m \in Calls /\ Begun(m) /\ Resolved(m) /\ Begun(l) /\ call[m].by = call[l].by
      BY <1>0 DEF AfterInv, ProducerTypeOK
    <3> QED
      BY <1>3, <1>8, <3>1
  <2>2. ASSUME NEW m \in after'[k]
        PROVE  (/\ Begun(k) /\ Begun(m) /\ call[m].by = call[k].by
                /\ Resolved(m))'
    BY <1>3, <1>8, <2>2
  <2> QED
    BY <1>3, <2>1, <2>2 DEF AfterInv
<1>10. ASSUME NEW x \in Items, Begun(x[1])
       PROVE  /\ x[1] # k /\ x[1] \in Calls /\ Begun(x[1])'
              /\ call'[x[1]] = call[x[1]] /\ FateOf(x)' = FateOf(x)
              /\ after'[x[1]] = after[x[1]]
  BY <1>1, <1>3, <1>10, ItemIs DEF FateOf
<1>11. /\ \A p \in Producers : \A i \in DOMAIN wire[p] :
              wire[p][i] \in Items /\ Begun(wire[p][i][1])
       /\ \A i \in DOMAIN queue : queue[i] \in Items /\ Begun(queue[i][1])
       /\ \A x \in dropped : x \in Items /\ Begun(x[1])
  BY <1>0 DEF ProducerTypeOK, WireInv, QueueInv, DropInv, Carried, Gone
<1>12. \A p \in Producers : Confirms(p)' <=> Confirms(p)
  BY <1>2 DEF Confirms
<1>13. WireInv' /\ QueueInv' /\ DropInv'
  <2>1. \A x \in Items : Gone(x) => Gone(x)'
    BY <1>10 DEF Gone
  <2>2. ASSUME NEW p \in Producers, NEW x \in Items, Carried(p, x)
        PROVE  Carried(p, x)'
    <3>1. Gone(x) /\ Begun(x[1]) /\ call[x[1]].by = p
      BY <2>2 DEF Carried, Gone
    <3> QED
      BY <1>2, <1>10, <1>12, <2>1, <2>2, <3>1 DEF Carried
  <2>3. WireInv'
    BY <1>0, <1>2, <1>11, <2>2 DEF WireInv
  <2>4. QueueInv' /\ DropInv'
    BY <1>0, <1>2, <1>10, <1>11, <2>1 DEF QueueInv, DropInv
  <2> QED
    BY <2>3, <2>4
<1>14. AnswerInv'
  <2> SUFFICES ASSUME NEW x \in Items, NEW took \in BOOLEAN,
                      <<x, took>> \in answers
               PROVE  (/\ Begun(x[1])
                       /\ chan[call[x[1]].by] = "open"
                       /\ Confirms(call[x[1]].by)
                       /\ FateOf(x) = "sent"
                       /\ ~OnWire(x, call[x[1]].by)
                       /\ <<x, ~took>> \notin answers
                       /\ took => Kept(x))'
    BY <1>2 DEF AnswerInv
  <2>1. /\ Begun(x[1])
        /\ chan[call[x[1]].by] = "open"
        /\ Confirms(call[x[1]].by)
        /\ FateOf(x) = "sent"
        /\ ~OnWire(x, call[x[1]].by)
        /\ <<x, ~took>> \notin answers
        /\ took => Kept(x)
    BY <1>0 DEF AnswerInv
  <2>2. x[1] \in Calls /\ call[x[1]].by \in Producers
    BY <1>0, <2>1, ItemIs, ByWhom
  <2> QED
    BY <1>2, <1>10, <1>12, <2>1, <2>2 DEF OnWire, Kept, OnQueue
<1>15. OwnIsRouted'
  BY <1>0, <1>2, <1>10, <1>11 DEF OwnIsRouted
<1>16. ConfirmedIsHeld'
  <2> SUFFICES ASSUME NEW p \in Producers, Confirms(p)', NEW x \in Of(p)',
                      FateOf(x)' = "id"
               PROVE  x \in dropped \/ \E i \in DOMAIN queue : queue[i] = x
    BY <1>2 DEF ConfirmedIsHeld
  <2>1. x \in Items /\ x[1] \in Calls /\ x[2] \in Positions(x[1])
    BY ItemIs DEF Of
  <2>2. x[1] # k
    BY <1>3, <2>1 DEF FateOf
  <2>3. x \in Of(p) /\ FateOf(x) = "id"
    BY <1>3, <2>1, <2>2 DEF Of, FateOf
  <2> QED
    BY <1>0, <1>12, <2>3 DEF ConfirmedIsHeld
<1>17. OrderInv'
  <2>1. ASSUME NEW x \in Items, NEW y \in Items, Begun(x[1]), Before(x, y)
        PROVE  Before(x, y)'
    BY <1>10, <2>1 DEF Before
  <2> QED
    BY <1>0, <1>2, <1>11, <2>1 DEF OrderInv
<1> QED
  BY <1>4, <1>5, <1>6, <1>7, <1>9, <1>13, <1>14, <1>15, <1>16, <1>17 DEF IInv

-----------------------------------------------------------------------------
(* Steps in which items get on.                                            *)

\* F is the fates after some items got on, before the loops go to the next.
Moves(F) ==
  /\ DOMAIN F = Calls
  /\ \A k \in Calls : F[k] \in [Positions(k) -> Fates]
  /\ \A k \in Calls : \A n \in Positions(k) :
       \/ F[k][n] = fate[k][n]
       \/ fate[k][n] = "serializing" /\ F[k][n] \notin {"waiting", "serializing"}
       \/ fate[k][n] = "sent" /\ F[k][n] \in {"id", "error", "rejected"}

LEMMA AdvanceIs ==
  ASSUME ProducerTypeOK, NEW F, Moves(F)
  PROVE  /\ DOMAIN Advance(F) = Calls
         /\ Advance(F) = [l \in Calls |-> Advance(F)[l]]
         /\ \A k \in Calls :
              /\ Advance(F)[k] \in [Positions(k) -> Fates]
              /\ \A n \in Positions(k) :
                   /\ Advance(F)[k][n] =
                        IF /\ F[k][n] = "waiting" /\ n > 1 /\ Begun(k)
                           /\ F[k][n - 1] \in Done
                          THEN "serializing" ELSE F[k][n]
                   /\ F[k][n] = "waiting" <=> fate[k][n] = "waiting"
                   /\ fate[k][n] \in Done => F[k][n] = fate[k][n]
<1>1. DOMAIN Advance(F) = Calls /\ Advance(F) = [l \in Calls |-> Advance(F)[l]]
  BY DEF Advance
<1>2. ASSUME NEW k \in Calls
      PROVE  Advance(F)[k] = [n \in Positions(k) |->
               IF /\ F[k][n] = "waiting" /\ n > 1 /\ Begun(k)
                  /\ F[k][n - 1] \in Done
                 THEN "serializing" ELSE F[k][n]]
  BY DEF Advance, Begun, Done
<1>3. ASSUME NEW k \in Calls, NEW n \in Positions(k)
      PROVE  /\ F[k][n] \in Fates /\ "serializing" \in Fates
             /\ F[k][n] = "waiting" <=> fate[k][n] = "waiting"
             /\ fate[k][n] \in Done => F[k][n] = fate[k][n]
  BY DEF Moves, Fates, Done
<1>4. ASSUME NEW k \in Calls
      PROVE  /\ Advance(F)[k] \in [Positions(k) -> Fates]
             /\ \A n \in Positions(k) :
                  Advance(F)[k][n] =
                    IF /\ F[k][n] = "waiting" /\ n > 1 /\ Begun(k)
                       /\ F[k][n - 1] \in Done
                      THEN "serializing" ELSE F[k][n]
  <2>1. Advance(F)[k] = [n \in Positions(k) |->
               IF /\ F[k][n] = "waiting" /\ n > 1 /\ Begun(k)
                  /\ F[k][n - 1] \in Done
                 THEN "serializing" ELSE F[k][n]]
    BY <1>2
  <2>2. \A n \in Positions(k) : F[k][n] \in Fates /\ "serializing" \in Fates
    BY <1>3
  <2> HIDE DEF Advance
  <2> QED
    BY <2>1, <2>2
<1> QED
  BY <1>1, <1>3, <1>4

LEMMA Neighbours ==
  ASSUME NEW k \in Calls
  PROVE  /\ Size[k] \in Nat
         /\ \A n \in Positions(k) :
              /\ n \in Nat /\ n >= 1
              /\ n > 1 => n - 1 \in Positions(k) /\ n - 1 < n
              /\ \A m \in Positions(k) : m < n => m = n - 1 \/ m < n - 1
BY CallsAssumption DEF Positions

LEMMA FateStep ==
  ASSUME IInv, NEW F, Moves(F), fate' = Advance(F), call' = call
  PROVE  /\ fate' = [l \in Calls |-> fate'[l]]
         /\ \A k \in Calls : fate'[k] \in [Positions(k) -> Fates]
         /\ \A k \in Calls : ~Begun(k) =>
              \A n \in Positions(k) : fate'[k][n] = "waiting"
         /\ TurnInv'
         /\ \A k \in Calls : Resolved(k) => Resolved(k)'
         /\ \A k \in Calls : \A n \in Positions(k) :
              F[k][n] \notin {"waiting", "serializing"} => fate'[k][n] = F[k][n]
         /\ \A k \in Calls : \A n \in Positions(k) :
              F[k][n] \in {"waiting", "serializing"}
                => fate'[k][n] \in {"waiting", "serializing"}
         /\ \A k \in Calls : \A n \in Positions(k) :
              fate[k][n] \notin {"waiting", "serializing"}
                => /\ F[k][n] \notin {"waiting", "serializing"}
                   /\ fate'[k][n] \notin {"waiting", "serializing"}
<1>0. ProducerTypeOK /\ CallInv /\ TurnInv
  BY DEF IInv
<1>1. /\ fate' = [l \in Calls |-> fate'[l]]
      /\ \A k \in Calls : fate'[k] \in [Positions(k) -> Fates]
  BY <1>0, AdvanceIs
<1>2. ASSUME NEW k \in Calls, NEW n \in Positions(k)
      PROVE  /\ fate'[k][n] =
                  IF /\ F[k][n] = "waiting" /\ n > 1 /\ Begun(k)
                     /\ F[k][n - 1] \in Done
                    THEN "serializing" ELSE F[k][n]
             /\ F[k][n] = "waiting" <=> fate[k][n] = "waiting"
             /\ fate[k][n] \in Done => F[k][n] = fate[k][n]
  BY <1>0, AdvanceIs
<1>3. ASSUME NEW k \in Calls, ~Begun(k), NEW n \in Positions(k)
      PROVE  fate'[k][n] = "waiting"
  BY <1>0, <1>2, <1>3 DEF CallInv
<1>4. ASSUME NEW k \in Calls, NEW n \in Positions(k)
      PROVE  /\ F[k][n] \notin {"waiting", "serializing"} => fate'[k][n] = F[k][n]
             /\ F[k][n] \in {"waiting", "serializing"}
                  => fate'[k][n] \in {"waiting", "serializing"}
             /\ fate[k][n] \notin {"waiting", "serializing"}
                  => /\ F[k][n] \notin {"waiting", "serializing"}
                     /\ fate'[k][n] \notin {"waiting", "serializing"}
  BY <1>2 DEF Moves
<1>5. ASSUME NEW k \in Calls, Resolved(k) PROVE Resolved(k)'
  BY <1>2, <1>5 DEF Resolved, Done
<1>6. ASSUME NEW k \in Calls, Begun(k), call[k].keepOrder PROVE InTurn(k)'
  <2>0. InTurn(k)
    BY <1>0, <1>6 DEF TurnInv
  <2>1. ASSUME NEW m \in Positions(k), NEW n \in Positions(k),
               m < n, fate'[k][n] # "waiting"
        PROVE  fate'[k][m] \in Done
    <3>1. CASE fate[k][n] # "waiting"
      <4>1. fate[k][m] \in Done
        BY <2>0, <2>1, <3>1 DEF InTurn
      <4> QED
        BY <1>2, <4>1 DEF Done
    <3>2. CASE fate[k][n] = "waiting"
      <4>1. n > 1 /\ F[k][n - 1] \in Done
        BY <1>2, <2>1, <3>2
      <4>2. n - 1 \in Positions(k) /\ (m = n - 1 \/ m < n - 1)
        BY <2>1, <4>1, Neighbours
      <4>3. CASE m = n - 1
        BY <1>2, <4>1, <4>3 DEF Done
      <4>4. CASE m < n - 1
        <5>1. fate[k][n - 1] # "waiting"
          BY <1>2, <4>1, <4>2 DEF Done
        <5>2. fate[k][m] \in Done
          BY <2>0, <4>2, <4>4, <5>1 DEF InTurn
        <5> QED
          BY <1>2, <5>2 DEF Done
      <4> QED
        BY <4>2, <4>3, <4>4
    <3> QED
      BY <3>1, <3>2
  <2>2. ASSUME NEW n \in Positions(k), n > 1, fate'[k][n] = "waiting"
        PROVE  fate'[k][n - 1] \notin Done
    <3>1. n - 1 \in Positions(k)
      BY <2>2, Neighbours
    <3>2. F[k][n] = "waiting" /\ F[k][n - 1] \notin Done
      BY <1>2, <1>6, <2>2
    <3> QED
      BY <1>2, <3>1, <3>2 DEF Done
  <2> QED
    BY <2>1, <2>2 DEF InTurn
<1>7. TurnInv'
  BY <1>0, <1>2, <1>6 DEF TurnInv, Begun
<1> QED
  BY <1>1, <1>3, <1>4, <1>5, <1>7

\* What such a step keeps, whatever becomes of the channel.
Onward(F) ==
  /\ Moves(F)
  /\ fate' = Advance(F)
  /\ UNCHANGED <<config, declared, call, after, queue, dropped>>
  /\ \A p \in Producers :
       boot[p] \in {"up", "exited"} => boot'[p] \in {"up", "exited"}

LEMMA OnwardKeeps ==
  ASSUME IInv, NEW F, Onward(F)
  PROVE  /\ CallInv' /\ TurnInv' /\ AfterInv' /\ QueueInv' /\ DropInv'
         /\ OwnIsRouted'
         /\ \A x \in Items : Gone(x) => Gone(x)'
         /\ \A x \in Items :
              F[x[1]][x[2]] \notin {"waiting", "serializing"}
                => FateOf(x)' = F[x[1]][x[2]]
         /\ \A x \in Items :
              FateOf(x)' \notin {"waiting", "serializing"}
                => F[x[1]][x[2]] = FateOf(x)'
         /\ fate' = [l \in Calls |-> fate'[l]]
         /\ \A k \in Calls : fate'[k] \in [Positions(k) -> Fates]
<1>0. /\ ProducerTypeOK /\ CallInv /\ AfterInv /\ QueueInv /\ DropInv
      /\ OwnIsRouted
      /\ Moves(F) /\ fate' = Advance(F)
      /\ UNCHANGED <<config, declared, call, after, queue, dropped>>
  BY DEF IInv, Onward
<1>1. /\ \A k \in Calls : ~Begun(k) =>
           \A n \in Positions(k) : fate'[k][n] = "waiting"
      /\ TurnInv'
      /\ \A k \in Calls : Resolved(k) => Resolved(k)'
      /\ \A k \in Calls : \A n \in Positions(k) :
           F[k][n] \notin {"waiting", "serializing"} => fate'[k][n] = F[k][n]
      /\ \A k \in Calls : \A n \in Positions(k) :
           F[k][n] \in {"waiting", "serializing"}
             => fate'[k][n] \in {"waiting", "serializing"}
      /\ fate' = [l \in Calls |-> fate'[l]]
      /\ \A k \in Calls : fate'[k] \in [Positions(k) -> Fates]
      /\ \A k \in Calls : \A n \in Positions(k) :
           fate[k][n] \notin {"waiting", "serializing"}
             => fate'[k][n] \notin {"waiting", "serializing"}
  BY <1>0, FateStep
<1>2. CallInv'
  BY <1>0, <1>1, ByWhom DEF CallInv, Begun, Onward
<1>3. AfterInv'
  <2>1. \A k \in Calls : after[k] \subseteq Calls
    BY <1>0 DEF ProducerTypeOK
  <2> QED
    BY <1>0, <1>1, <2>1 DEF AfterInv, Begun
<1>4. \A x \in Items : Gone(x) => Gone(x)'
  BY <1>0, <1>1, ItemIs DEF Gone, FateOf, Begun
<1>5. QueueInv' /\ DropInv'
  <2>1. \A i \in DOMAIN queue : queue[i] \in Items
    BY <1>0 DEF ProducerTypeOK
  <2> QED
    BY <1>0, <1>4, <2>1 DEF QueueInv, DropInv, Begun
<1>6. OwnIsRouted'
  BY <1>0 DEF OwnIsRouted
<1>7. \A x \in Items : F[x[1]][x[2]] \notin {"waiting", "serializing"}
                         => FateOf(x)' = F[x[1]][x[2]]
  BY <1>1, ItemIs DEF FateOf
<1>8. \A x \in Items : FateOf(x)' \notin {"waiting", "serializing"}
                         => F[x[1]][x[2]] = FateOf(x)'
  BY <1>1, ItemIs DEF FateOf
<1> QED
  BY <1>1, <1>2, <1>3, <1>4, <1>5, <1>6, <1>7, <1>8

\* One item gets on.
LEMMA SettleMoves ==
  ASSUME IInv, NEW k \in Calls, NEW n \in Positions(k), NEW o,
         \/ fate[k][n] = "serializing" /\ o \in {"sent", "id", "error", "rejected"}
         \/ fate[k][n] = "sent" /\ o \in {"id", "error", "rejected"},
         Settle(<<k, n>>, o)
  PROVE  LET F == [fate EXCEPT ![k][n] = o] IN
         /\ Moves(F) /\ fate' = Advance(F)
         /\ F[k][n] = o
         /\ \A x \in Items : x # <<k, n>> => F[x[1]][x[2]] = FateOf(x)
<1> DEFINE F == [fate EXCEPT ![k][n] = o]
<1>1. DOMAIN fate = Calls /\ \A l \in Calls : fate[l] \in [Positions(l) -> Fates]
  BY DEF IInv, ProducerTypeOK
<1>2. fate' = Advance(F)
  BY DEF Settle
<1>3. /\ DOMAIN F = Calls
      /\ F[k] = [fate[k] EXCEPT ![n] = o]
      /\ \A l \in Calls \ {k} : F[l] = fate[l]
  BY <1>1
<1>4. /\ F[k] \in [Positions(k) -> Fates]
      /\ F[k][n] = o
      /\ \A m \in Positions(k) \ {n} : F[k][m] = fate[k][m]
  BY <1>1, <1>3 DEF Fates
<1>5. Moves(F)
  BY <1>1, <1>3, <1>4 DEF Moves
<1>6. \A x \in Items : x # <<k, n>> => F[x[1]][x[2]] = FateOf(x)
  BY <1>3, <1>4, ItemIs DEF FateOf
<1> QED
  BY <1>2, <1>4, <1>5, <1>6

\* Only x gets on, and is then neither under way nor answered any more.
LEMMA SettledKeeps ==
  ASSUME IInv, NEW F, Onward(F), NEW x \in Items,
         UNCHANGED <<boot, conn, chan, death, wire, shut>>,
         \A y \in Items : y # x => F[y[1]][y[2]] = FateOf(y),
         \A p \in Producers : ~OnWire(x, p),
         answers' = answers \ {<<x, TRUE>>, <<x, FALSE>>},
         F[x[1]][x[2]] = "id" => Kept(x)
  PROVE  IInv'
<1>0. /\ ProducerTypeOK /\ LaunchInv /\ WireInv /\ AnswerInv
      /\ ConfirmedIsHeld /\ OrderInv
      /\ UNCHANGED <<config, declared, call, after, queue, dropped>>
  BY DEF IInv, Onward
<1>1. /\ CallInv' /\ TurnInv' /\ AfterInv' /\ QueueInv' /\ DropInv'
      /\ OwnIsRouted'
      /\ \A y \in Items : Gone(y) => Gone(y)'
      /\ \A y \in Items :
           F[y[1]][y[2]] \notin {"waiting", "serializing"}
             => FateOf(y)' = F[y[1]][y[2]]
      /\ \A y \in Items :
           FateOf(y)' \notin {"waiting", "serializing"}
             => F[y[1]][y[2]] = FateOf(y)'
      /\ fate' = [l \in Calls |-> fate'[l]]
      /\ \A k \in Calls : fate'[k] \in [Positions(k) -> Fates]
  BY OnwardKeeps
<1>2. ProducerTypeOK'
  BY <1>0, <1>1 DEF ProducerTypeOK, StartupTypeOK
<1>3. LaunchInv'
  BY <1>0, LaunchStays
<1>4. \A p \in Producers : Confirms(p)' <=> Confirms(p)
  BY <1>0 DEF Confirms
<1>5. ASSUME NEW y \in Items, y # x, FateOf(y) = "sent"
      PROVE  FateOf(y)' = "sent"
  BY <1>1, <1>5
<1>6. WireInv'
  <2> SUFFICES ASSUME NEW p \in Producers, NEW i \in DOMAIN wire[p]
               PROVE  Carried(p, wire[p][i])'
    BY DEF WireInv
  <2>1. wire[p][i] \in Items /\ wire[p][i] # x
    BY <1>0 DEF ProducerTypeOK, OnWire
  <2>2. Carried(p, wire[p][i])
    BY <1>0 DEF WireInv
  <2> HIDE DEF Gone
  <2> QED
    BY <1>0, <1>1, <1>4, <1>5, <2>1, <2>2 DEF Carried
<1>7. AnswerInv'
  <2> SUFFICES ASSUME NEW y \in Items, NEW took \in BOOLEAN,
                      <<y, took>> \in answers'
               PROVE  (/\ Begun(y[1])
                       /\ chan[call[y[1]].by] = "open"
                       /\ Confirms(call[y[1]].by)
                       /\ FateOf(y) = "sent"
                       /\ ~OnWire(y, call[y[1]].by)
                       /\ <<y, ~took>> \notin answers
                       /\ took => Kept(y))'
    BY DEF AnswerInv
  <2>1. y # x /\ <<y, took>> \in answers
    OBVIOUS
  <2>2. /\ Begun(y[1])
        /\ chan[call[y[1]].by] = "open"
        /\ Confirms(call[y[1]].by)
        /\ FateOf(y) = "sent"
        /\ ~OnWire(y, call[y[1]].by)
        /\ <<y, ~took>> \notin answers
        /\ took => Kept(y)
    BY <1>0, <2>1 DEF AnswerInv
  <2>3. y[1] \in Calls /\ call[y[1]].by \in Producers
    BY <1>0, <2>2, ItemIs, ByWhom
  <2> QED
    BY <1>0, <1>4, <1>5, <2>1, <2>2, <2>3 DEF Begun, OnWire, Kept, OnQueue
<1>8. ConfirmedIsHeld'
  <2> SUFFICES ASSUME NEW p \in Producers, Confirms(p), NEW y \in Of(p),
                      FateOf(y)' = "id"
               PROVE  Kept(y)
    BY <1>0, <1>4 DEF ConfirmedIsHeld, Of, Kept, OnQueue
  <2>1. y \in Items /\ F[y[1]][y[2]] = "id"
    BY <1>1 DEF Of
  <2>2. CASE y = x
    BY <2>1, <2>2
  <2>3. CASE y # x
    BY <1>0, <2>1, <2>3 DEF ConfirmedIsHeld, Kept, OnQueue
  <2> QED
    BY <2>2, <2>3
<1>9. OrderInv'
  BY <1>0 DEF OrderInv, Before
<1> QED
  BY <1>1, <1>2, <1>3, <1>6, <1>7, <1>8, <1>9 DEF IInv

\* What an item whose serializer is under way is not yet.
LEMMA NotYet ==
  ASSUME IInv, NEW k \in Calls, NEW n \in Positions(k), fate[k][n] = "serializing"
  PROVE  /\ Begun(k) /\ <<k, n>> \in Items /\ FateOf(<<k, n>>) = "serializing"
         /\ ~Gone(<<k, n>>) /\ ~Resolved(k)
         /\ \A p \in Producers : ~OnWire(<<k, n>>, p)
         /\ \A took \in BOOLEAN : <<<<k, n>>, took>> \notin answers
<1>0. CallInv /\ WireInv /\ AnswerInv
  BY DEF IInv
<1>1. /\ Begun(k) /\ <<k, n>> \in Items /\ FateOf(<<k, n>>) = "serializing"
      /\ ~Gone(<<k, n>>) /\ ~Resolved(k)
  BY <1>0, IsItem DEF CallInv, FateOf, Gone, Resolved
<1>2. \A p \in Producers : ~OnWire(<<k, n>>, p)
  BY <1>0, <1>1 DEF OnWire, WireInv, Carried
<1>3. \A took \in BOOLEAN : <<<<k, n>>, took>> \notin answers
  BY <1>0, <1>1 DEF AnswerInv
<1> QED
  BY <1>1, <1>2, <1>3

\* An item that rejects where it stands.
LEMMA RejectsStep ==
  ASSUME IInv, NEW k \in Calls, NEW n \in Positions(k), Serialized(k, n),
         Settle(<<k, n>>, "rejected"), wire' = wire
  PROVE  IInv'
<1> DEFINE F == [fate EXCEPT ![k][n] = "rejected"]
           x == <<k, n>>
<1>1. /\ fate[k][n] = "serializing"
      /\ UNCHANGED <<boot, config, conn, chan, death, declared, call, queue,
                     dropped, answers, shut, after>>
  BY DEF Serialized, startVars
<1>2. /\ Moves(F) /\ fate' = Advance(F) /\ F[k][n] = "rejected"
      /\ \A y \in Items : y # x => F[y[1]][y[2]] = FateOf(y)
  BY <1>1, SettleMoves
<1>3. /\ x \in Items /\ F[x[1]][x[2]] = "rejected"
      /\ \A p \in Producers : ~OnWire(x, p)
      /\ <<x, TRUE>> \notin answers /\ <<x, FALSE>> \notin answers
  BY <1>1, <1>2, NotYet
<1> HIDE DEF F, x
<1>4. Onward(F)
  BY <1>1, <1>2 DEF Onward
<1>5. answers' = answers \ {<<x, TRUE>>, <<x, FALSE>>}
  BY <1>1, <1>3
<1> QED
  BY <1>1, <1>2, <1>3, <1>4, <1>5, SettledKeeps

LEMMA ConfirmedStep ==
  ASSUME IInv, NEW x \in Items, NEW took \in BOOLEAN, Confirmed(x, took)
  PROVE  IInv'
<1> DEFINE o == IF took THEN "id" ELSE ErrorFate(x)
           k == x[1]
           n == x[2]
           F == [fate EXCEPT ![k][n] = o]
<1>0. ProducerTypeOK /\ AnswerInv /\ WireInv
  BY DEF IInv
<1>1. /\ <<x, took>> \in answers
      /\ answers' = answers \ {<<x, took>>}
      /\ Settle(x, o)
      /\ UNCHANGED <<boot, config, conn, chan, death, declared, call, wire, queue,
                     dropped, shut, after>>
  BY DEF Confirmed, startVars
<1>2. /\ k \in Calls /\ n \in Positions(k) /\ x = <<k, n>>
  BY ItemIs
<1>3. /\ Begun(k) /\ fate[k][n] = "sent"
      /\ ~OnWire(x, call[k].by)
      /\ <<x, ~took>> \notin answers
      /\ took => Kept(x)
  BY <1>0, <1>1 DEF AnswerInv, FateOf
<1>4. o \in {"id", "error", "rejected"} /\ (o = "id" => took)
  BY DEF ErrorFate
<1>5. Settle(<<k, n>>, o)
  BY <1>1, <1>2
<1>6. /\ Moves(F) /\ fate' = Advance(F) /\ F[k][n] = o
      /\ \A y \in Items : y # x => F[y[1]][y[2]] = FateOf(y)
  <2> HIDE DEF o, k, n
  <2> QED
    BY <1>2, <1>3, <1>4, <1>5, SettleMoves
<1>7. \A p \in Producers : ~OnWire(x, p)
  BY <1>0, <1>3 DEF OnWire, WireInv, Carried
<1>8. answers' = answers \ {<<x, TRUE>>, <<x, FALSE>>}
  BY <1>1, <1>3
<1>9. F[x[1]][x[2]] = "id" => Kept(x)
  BY <1>3, <1>4, <1>6
<1> HIDE DEF o, k, n, F
<1>10. Onward(F)
  BY <1>1, <1>6 DEF Onward
<1> QED
  BY <1>1, <1>6, <1>7, <1>8, <1>9, <1>10, SettledKeeps

LEMMA SentStep ==
  ASSUME IInv, NEW k \in Calls, NEW n \in Positions(k), Send(k, n)
  PROVE  IInv'
<1>0. PICK p, x : p = call[k].by /\ x = <<k, n>>
  OBVIOUS
<1> DEFINE o == IF Confirms(p) THEN "sent" ELSE "id"
           F == [fate EXCEPT ![k][n] = o]
<1>1. CASE chan[p] # "open"
  BY <1>0, <1>1, RejectsStep DEF Send
<1>2. CASE chan[p] = "open"
  <2>0. /\ ProducerTypeOK /\ LaunchInv /\ WireInv /\ AnswerInv /\ QueueInv
        /\ TurnInv /\ AfterInv /\ ConfirmedIsHeld /\ OrderInv
    BY DEF IInv
  <2>1. /\ fate[k][n] = "serializing"
        /\ UNCHANGED <<boot, config, conn, chan, death, declared, call, queue,
                       dropped, answers, shut, after>>
        /\ wire' = [wire EXCEPT ![p] = Append(@, <<k, n>>)]
        /\ Settle(<<k, n>>, o)
    BY <1>0, <1>2 DEF Send, Serialized, startVars
  <2>2. /\ Moves(F) /\ fate' = Advance(F) /\ F[k][n] = o
        /\ \A y \in Items : y # x => F[y[1]][y[2]] = FateOf(y)
    <3>1. o \in {"sent", "id", "error", "rejected"}
      OBVIOUS
    <3>2. Settle(<<k, n>>, o) /\ fate[k][n] = "serializing"
      BY <2>1
    <3> HIDE DEF o
    <3> QED
      BY <1>0, <3>1, <3>2, SettleMoves
  <2>3. /\ Begun(k) /\ x \in Items /\ ~Gone(x) /\ ~Resolved(k)
        /\ \A q \in Producers : ~OnWire(x, q)
        /\ \A took \in BOOLEAN : <<x, took>> \notin answers
        /\ p \in Producers
    BY <1>0, <2>0, <2>1, NotYet, ByWhom
  <2>4. F[x[1]][x[2]] = o /\ o \notin {"waiting", "serializing"}
        /\ x[1] = k /\ x[2] = n /\ x = <<k, n>> /\ call[k].by = p
    BY <1>0, <2>2
  <2>5. Onward(F)
    BY <2>1, <2>2 DEF Onward
  <2>6. Confirms(p) <=> o = "sent"
    OBVIOUS
  <2> HIDE DEF F, o
  <2>7. /\ CallInv' /\ TurnInv' /\ AfterInv' /\ QueueInv' /\ DropInv'
        /\ OwnIsRouted'
        /\ \A y \in Items : Gone(y) => Gone(y)'
        /\ \A y \in Items :
             F[y[1]][y[2]] \notin {"waiting", "serializing"}
               => FateOf(y)' = F[y[1]][y[2]]
        /\ \A y \in Items :
             FateOf(y)' \notin {"waiting", "serializing"}
               => F[y[1]][y[2]] = FateOf(y)'
        /\ fate' = [l \in Calls |-> fate'[l]]
        /\ \A l \in Calls : fate'[l] \in [Positions(l) -> Fates]
    BY <2>5, OnwardKeeps
  <2>8. /\ wire[p] \in Seq(Items) /\ wire'[p] = Append(wire[p], x)
        /\ \A q \in Producers \ {p} : wire'[q] = wire[q]
        /\ wire' \in [Producers -> Seq(Items)]
        /\ DOMAIN wire[p] = 1 .. Len(wire[p]) /\ Len(wire[p]) \in Nat
        /\ DOMAIN wire'[p] = 1 .. Len(wire[p]) + 1
        /\ wire'[p][Len(wire[p]) + 1] = x
        /\ \A i \in DOMAIN wire[p] : wire'[p][i] = wire[p][i]
    <3>1. wire \in [Producers -> Seq(Items)]
      BY <2>0 DEF ProducerTypeOK
    <3>2. wire[p] \in Seq(Items)
      BY <2>3, <3>1
    <3>3. wire' = [wire EXCEPT ![p] = Append(@, x)]
      BY <1>0, <2>1
    <3>4. Append(wire[p], x) \in Seq(Items)
      BY <2>3, <3>2, Growth
    <3>5. wire'[p] = Append(wire[p], x) /\ wire' \in [Producers -> Seq(Items)]
          /\ \A q \in Producers \ {p} : wire'[q] = wire[q]
      BY <2>3, <3>1, <3>3, <3>4
    <3> QED
      BY <2>3, <3>2, <3>5, Growth
  <2>9. \A q \in Producers : Confirms(q)' <=> Confirms(q)
    BY <2>1 DEF Confirms
  <2>10. ProducerTypeOK' /\ LaunchInv'
    BY <2>0, <2>1, <2>7, <2>8, LaunchStays DEF ProducerTypeOK, StartupTypeOK
  <2>11. FateOf(x)' = o /\ Gone(x)'
    BY <2>1, <2>3, <2>4, <2>7 DEF Gone, Begun
  <2>12. ASSUME NEW y \in Items, y # x, FateOf(y) = "sent"
         PROVE  FateOf(y)' = "sent"
    BY <2>2, <2>7, <2>12
  <2>13. WireInv'
    <3>1. ASSUME NEW q \in Producers, NEW i \in DOMAIN wire[q]
          PROVE  Carried(q, wire[q][i])'
      <4>1. wire[q][i] \in Items /\ wire[q][i] # x /\ Carried(q, wire[q][i])
        BY <2>0, <2>3 DEF ProducerTypeOK, OnWire, WireInv
      <4> HIDE DEF Gone
      <4> QED
        BY <2>1, <2>7, <2>9, <2>12, <4>1 DEF Carried
    <3>2. Carried(p, x)'
      BY <2>1, <2>3, <2>4, <2>6, <2>9, <2>11 DEF Carried
    <3>3. ASSUME NEW q \in Producers, NEW i \in DOMAIN wire'[q]
          PROVE  Carried(q, wire[q][i])'
      <4>1. CASE q # p
        BY <2>8, <3>1, <4>1
      <4>2. CASE q = p /\ i \in DOMAIN wire[p]
        BY <2>8, <3>1, <4>2
      <4>3. CASE q = p /\ i = Len(wire[p]) + 1
        <5>1. wire'[q][i] = x
          BY <2>8, <4>3
        <5> QED
          BY <3>2, <4>3, <5>1 DEF Carried
      <4> QED
        BY <2>8, <4>1, <4>2, <4>3
    <3> QED
      BY <3>3 DEF WireInv
  <2>14. AnswerInv'
    <3> SUFFICES ASSUME NEW y \in Items, NEW took \in BOOLEAN,
                        <<y, took>> \in answers
                 PROVE  (/\ Begun(y[1])
                         /\ chan[call[y[1]].by] = "open"
                         /\ Confirms(call[y[1]].by)
                         /\ FateOf(y) = "sent"
                         /\ ~OnWire(y, call[y[1]].by)
                         /\ <<y, ~took>> \notin answers
                         /\ took => Kept(y))'
      BY <2>1 DEF AnswerInv
    <3>1. y # x
      BY <2>3
    <3>2. /\ Begun(y[1])
          /\ chan[call[y[1]].by] = "open"
          /\ Confirms(call[y[1]].by)
          /\ FateOf(y) = "sent"
          /\ ~OnWire(y, call[y[1]].by)
          /\ <<y, ~took>> \notin answers
          /\ took => Kept(y)
      BY <2>0 DEF AnswerInv
    <3>3. y[1] \in Calls /\ call[y[1]].by \in Producers
      BY <2>0, <3>2, ItemIs, ByWhom
    <3>4. ~OnWire(y, call[y[1]].by)'
      <4>1. call'[y[1]].by = call[y[1]].by
        BY <2>1
      <4>2. CASE call[y[1]].by # p
        BY <2>8, <3>2, <3>3, <4>1, <4>2 DEF OnWire
      <4>3. CASE call[y[1]].by = p
        <5>1. \A i \in DOMAIN wire'[p] : i \in DOMAIN wire[p] \/ i = Len(wire[p]) + 1
          BY <2>8
        <5>2. \A i \in DOMAIN wire[p] : wire[p][i] # y
          BY <3>2, <4>3 DEF OnWire
        <5>3. \A i \in DOMAIN wire'[p] : wire'[p][i] # y
          BY <2>8, <3>1, <5>1, <5>2
        <5> QED
          BY <4>1, <4>3, <5>3 DEF OnWire
      <4> QED
        BY <4>2, <4>3
    <3> QED
      BY <2>1, <2>9, <2>12, <3>1, <3>2, <3>3, <3>4 DEF Begun, Kept, OnQueue
  <2>15. ConfirmedIsHeld'
    <3> SUFFICES ASSUME NEW q \in Producers, Confirms(q), NEW y \in Of(q),
                        FateOf(y)' = "id"
                 PROVE  Kept(y)
      BY <2>1, <2>9 DEF ConfirmedIsHeld, Of, Kept, OnQueue
    <3>1. y \in Items /\ call[y[1]].by = q /\ F[y[1]][y[2]] = "id"
      BY <2>7 DEF Of
    <3>2. y # x
      BY <2>4, <2>6, <3>1
    <3> QED
      BY <2>0, <2>2, <3>1, <3>2 DEF ConfirmedIsHeld, Kept, OnQueue
  <2>16. ASSUME NEW y \in Items, Gone(y) PROVE Before(y, x)
    <3>1. y # x /\ y[1] \in Calls /\ Begun(y[1])
      BY <2>3, <2>16, ItemIs DEF Gone
    <3>2. k \notin after[y[1]]
      BY <2>0, <2>3, <3>1 DEF AfterInv
    <3>3. ASSUME y[1] = k, call[k].keepOrder PROVE y[2] < n
      <4>1. y[2] \in Positions(k) /\ y = <<k, y[2]>> /\ y[2] # n
        BY <2>4, <3>1, <3>3, ItemIs
      <4>2. fate[k][y[2]] # "waiting"
        BY <2>16, <3>3 DEF Gone, FateOf
      <4>3. ~(n < y[2])
        BY <2>0, <2>1, <2>3, <3>3, <4>1, <4>2 DEF TurnInv, InTurn, Done
      <4>4. y[2] \in Nat /\ n \in Nat
        BY <4>1, Neighbours
      <4> QED
        BY <4>1, <4>3, <4>4
    <3> QED
      BY <2>4, <3>1, <3>2, <3>3 DEF Before
  <2>17. OrderInv'
    <3>1. \A i \in DOMAIN queue : Before(queue[i], x)
      BY <2>0, <2>16 DEF QueueInv, ProducerTypeOK
    <3>2. \A i \in DOMAIN wire[p] : Before(wire[p][i], x)
      BY <2>0, <2>3, <2>16 DEF WireInv, Carried, ProducerTypeOK
    <3>3. \A i, j \in DOMAIN wire'[p] : i < j => Before(wire'[p][i], wire'[p][j])
      BY <2>0, <2>3, <2>8, <3>2 DEF OrderInv
    <3>4. \A i \in DOMAIN queue : \A j \in DOMAIN wire'[p] :
            Before(queue[i], wire'[p][j])
      BY <2>0, <2>3, <2>8, <3>1 DEF OrderInv
    <3>5. \A q \in Producers :
            /\ \A i, j \in DOMAIN wire'[q] : i < j => Before(wire'[q][i], wire'[q][j])
            /\ \A i \in DOMAIN queue : \A j \in DOMAIN wire'[q] :
                 Before(queue[i], wire'[q][j])
      BY <2>0, <2>8, <3>3, <3>4 DEF OrderInv
    <3>6. \A i, j \in DOMAIN queue : i < j => Before(queue[i], queue[j])
      BY <2>0 DEF OrderInv
    <3>7. \A y, z : Before(y, z)' <=> Before(y, z)
      BY <2>1 DEF Before
    <3>8. queue' = queue
      BY <2>1
    <3> QED
      BY <3>5, <3>6, <3>7, <3>8 DEF OrderInv
  <2> QED
    BY <2>7, <2>10, <2>13, <2>14, <2>15, <2>17 DEF IInv
<1> QED
  BY <1>1, <1>2

LEMMA ThrowsStep ==
  ASSUME IInv, NEW k \in Calls, NEW n \in Positions(k), SerializerThrows(k, n)
  PROVE  IInv'
BY RejectsStep DEF SerializerThrows

-----------------------------------------------------------------------------
(* The broker reads an item.                                               *)

\* What the step is: x goes from the wire to the queue, or is dropped where
\* there is none, or is refused; if a confirm comes, t is what it says.
LEMMA RouteEffect ==
  ASSUME IInv, NEW p \in Producers, Route(p)
  PROVE  \E x \in Items, t \in BOOLEAN :
           /\ 1 \in DOMAIN wire[p] /\ wire[p][1] = x
           /\ wire' = [wire EXCEPT ![p] = Tail(wire[p])]
           /\ wire[p] # <<>> /\ wire[p] \in Seq(Items)
           /\ UNCHANGED <<boot, config, conn, chan, death, declared, call, fate,
                          shut, after>>
           /\ queue' \in {queue, Append(queue, x)}
           /\ dropped' \in {dropped, dropped \cup {x}}
           /\ dropped' # dropped => ~declared
           /\ t => queue' = Append(queue, x) \/ x \in dropped'
           /\ answers' = IF Confirms(p) /\ chan[p] = "open"
                           THEN answers \cup {<<x, t>>} ELSE answers
<1>1. wire[p] \in Seq(Items) /\ wire[p] # <<>>
  BY DEF Route, IInv, ProducerTypeOK
<1>2. PICK x : x = Head(wire[p])
  OBVIOUS
<1>3. x \in Items /\ wire[p][1] = x /\ 1 \in DOMAIN wire[p]
  BY <1>1, <1>2, Shrink
<1>4. /\ wire' = [wire EXCEPT ![p] = Tail(wire[p])]
      /\ UNCHANGED <<boot, config, conn, chan, death, declared, call, fate,
                     shut, after>>
  BY DEF Route, startVars
<1> DEFINE Answer(t) ==
      answers' = IF Confirms(p) /\ chan[p] = "open"
                   THEN answers \cup {<<x, t>>} ELSE answers
<1>5. \/ queue' = Append(queue, x) /\ dropped' = dropped /\ Answer(TRUE)
      \/ queue' = queue /\ dropped' = dropped /\ Answer(FALSE)
      \/ ~declared /\ queue' = queue /\ dropped' = dropped \cup {x} /\ Answer(TRUE)
  BY <1>2 DEF Route
<1>6. CASE queue' = Append(queue, x) /\ dropped' = dropped /\ Answer(TRUE)
  BY <1>1, <1>3, <1>4, <1>6
<1>7. CASE queue' = queue /\ dropped' = dropped /\ Answer(FALSE)
  BY <1>1, <1>3, <1>4, <1>7
<1>8. CASE ~declared /\ queue' = queue /\ dropped' = dropped \cup {x} /\ Answer(TRUE)
  BY <1>1, <1>3, <1>4, <1>8
<1> QED
  BY <1>5, <1>6, <1>7, <1>8

LEMMA RouteStep ==
  ASSUME IInv, NEW p \in Producers, Route(p)
  PROVE  IInv'
<1>0. /\ ProducerTypeOK /\ LaunchInv /\ CallInv /\ TurnInv /\ AfterInv
      /\ WireInv /\ QueueInv /\ DropInv /\ AnswerInv /\ OwnIsRouted
      /\ ConfirmedIsHeld /\ OrderInv
  BY DEF IInv
<1>1. PICK x \in Items, t \in BOOLEAN :
           /\ 1 \in DOMAIN wire[p] /\ wire[p][1] = x
           /\ wire' = [wire EXCEPT ![p] = Tail(wire[p])]
           /\ wire[p] # <<>> /\ wire[p] \in Seq(Items)
           /\ UNCHANGED <<boot, config, conn, chan, death, declared, call, fate,
                          shut, after>>
           /\ queue' \in {queue, Append(queue, x)}
           /\ dropped' \in {dropped, dropped \cup {x}}
           /\ dropped' # dropped => ~declared
           /\ t => queue' = Append(queue, x) \/ x \in dropped'
           /\ answers' = IF Confirms(p) /\ chan[p] = "open"
                           THEN answers \cup {<<x, t>>} ELSE answers
  BY RouteEffect
<1>2. /\ Gone(x) /\ Begun(x[1]) /\ call[x[1]].by = p /\ x[1] \in Calls
      /\ Confirms(p) /\ chan[p] = "open" => FateOf(x) = "sent"
  BY <1>0, <1>1, ItemIs DEF WireInv, Carried, Gone
<1>3. /\ wire'[p] \in Seq(Items)
      /\ \A i \in DOMAIN wire'[p] : /\ i \in Nat /\ i + 1 \in DOMAIN wire[p]
                                    /\ i + 1 > 1 /\ wire'[p][i] = wire[p][i + 1]
      /\ \A q \in Producers \ {p} : wire'[q] = wire[q]
      /\ wire' \in [Producers -> Seq(Items)]
  <2>1. wire \in [Producers -> Seq(Items)]
    BY <1>0 DEF ProducerTypeOK
  <2>2. wire'[p] = Tail(wire[p]) /\ \A q \in Producers \ {p} : wire'[q] = wire[q]
    BY <1>1, <2>1
  <2>3. wire[p] \in Seq(Items) /\ wire[p] # <<>>
    BY <1>1
  <2>4. /\ Tail(wire[p]) \in Seq(Items)
        /\ \A i \in DOMAIN Tail(wire[p]) :
             /\ i \in Nat /\ i + 1 \in DOMAIN wire[p]
             /\ i + 1 > 1 /\ Tail(wire[p])[i] = wire[p][i + 1]
    BY <2>3, Shrink
  <2>5. wire' \in [Producers -> Seq(Items)]
    BY <1>1, <2>1, <2>4
  <2> QED
    BY <2>2, <2>4, <2>5
<1>4. /\ queue' \in Seq(Items)
      /\ \A i \in DOMAIN queue : i \in DOMAIN queue' /\ queue'[i] = queue[i]
      /\ \A i \in DOMAIN queue' :
           \/ i \in DOMAIN queue /\ queue'[i] = queue[i]
           \/ queue'[i] = x /\ \A j \in DOMAIN queue' : ~(i < j)
      /\ \A i, j \in DOMAIN queue' : i < j => i \in DOMAIN queue
      /\ t => Kept(x)'
  <2>1. queue \in Seq(Items)
    BY <1>0 DEF ProducerTypeOK
  <2>2. /\ Append(queue, x) \in Seq(Items)
        /\ DOMAIN queue = 1 .. Len(queue) /\ Len(queue) \in Nat
        /\ DOMAIN Append(queue, x) = 1 .. Len(queue) + 1
        /\ Append(queue, x)[Len(queue) + 1] = x
        /\ \A i \in DOMAIN queue : Append(queue, x)[i] = queue[i]
    BY <2>1, Growth
  <2>3. CASE queue' = queue
    <3>1. \A i, j \in DOMAIN queue' : i < j => i \in DOMAIN queue
      BY <2>3
    <3>2. t => Kept(x)'
      <4>1. CASE queue' = Append(queue, x)
        BY <2>2, <2>3, <4>1 DEF Kept, OnQueue
      <4> QED
        BY <1>1, <4>1 DEF Kept
    <3> QED
      BY <2>1, <2>3, <3>1, <3>2
  <2>4. CASE queue' = Append(queue, x)
    <3>1. Kept(x)'
      BY <2>2, <2>4 DEF Kept, OnQueue
    <3>2. \A i \in DOMAIN queue' : i \in DOMAIN queue \/ i = Len(queue) + 1
      BY <2>2, <2>4
    <3>3. \A i \in DOMAIN queue' : i \in Nat /\ i <= Len(queue) + 1
      BY <2>2, <2>4
    <3> QED
      BY <2>2, <2>4, <3>1, <3>2, <3>3
  <2> QED
    BY <1>1, <2>3, <2>4
<1>5. /\ \A q \in Producers : Confirms(q)' <=> Confirms(q)
      /\ \A y \in Items : /\ FateOf(y)' = FateOf(y) /\ (Gone(y)' <=> Gone(y))
                          /\ Kept(y) => Kept(y)'
      /\ \A k \in Calls : Begun(k)' <=> Begun(k)
  <2>1. \A q \in Producers : Confirms(q)' <=> Confirms(q)
    BY <1>1 DEF Confirms
  <2>2. \A y \in Items : FateOf(y)' = FateOf(y) /\ (Gone(y)' <=> Gone(y))
    BY <1>1 DEF FateOf, Gone, Begun
  <2>3. \A y \in Items : Kept(y) => Kept(y)'
    BY <1>1, <1>4 DEF Kept, OnQueue
  <2> QED
    BY <1>1, <2>1, <2>2, <2>3 DEF Begun
<1>6. ProducerTypeOK'
  <2>1. answers' \subseteq Items \X BOOLEAN /\ dropped' \subseteq Items
    BY <1>0, <1>1 DEF ProducerTypeOK
  <2> QED
    BY <1>0, <1>1, <1>3, <1>4, <2>1 DEF ProducerTypeOK, StartupTypeOK
<1>7. LaunchInv' /\ CallInv' /\ TurnInv' /\ AfterInv'
  BY <1>0, <1>1, LaunchStays
     DEF CallInv, TurnInv, InTurn, AfterInv, Begun, Resolved
<1>8. WireInv'
  <2> SUFFICES ASSUME NEW q \in Producers, NEW i \in DOMAIN wire'[q]
               PROVE  Carried(q, wire[q][i])'
    BY DEF WireInv
  <2>1. PICK j \in DOMAIN wire[q] : wire'[q][i] = wire[q][j]
    BY <1>3
  <2>2. PICK y \in Items : y = wire[q][j] /\ wire'[q][i] = y
    BY <1>0, <2>1 DEF ProducerTypeOK
  <2>3. Carried(q, y)
    BY <1>0, <2>2 DEF WireInv
  <2>4. Carried(q, y)'
    BY <1>1, <1>5, <2>3 DEF Carried
  <2> QED
    BY <2>2, <2>4 DEF Carried
<1>9. QueueInv' /\ DropInv'
  <2>1. \A i \in DOMAIN queue : queue[i] \in Items /\ Gone(queue[i])
    BY <1>0 DEF ProducerTypeOK, QueueInv
  <2>2. \A i \in DOMAIN queue' : queue'[i] \in Items /\ Gone(queue'[i])
    BY <1>2, <1>4, <2>1
  <2>3. QueueInv'
    BY <1>5, <2>2 DEF QueueInv
  <2>4. DropInv'
    BY <1>0, <1>1, <1>2 DEF DropInv, Begun
  <2> QED
    BY <2>3, <2>4
<1>10. OwnIsRouted'
  <2>1. ~declared => config[p].channel # "none"
    BY <1>0, <1>2 DEF CallInv
  <2> QED
    BY <1>0, <1>1, <1>2, <2>1 DEF OwnIsRouted
<1>11. ConfirmedIsHeld'
  <2>0. \A q \in Producers : Of(q)' = Of(q) /\ Of(q) \subseteq Items
    BY <1>1 DEF Of
  <2> SUFFICES ASSUME NEW q \in Producers, Confirms(q), NEW y \in Of(q),
                      FateOf(y) = "id"
               PROVE  Kept(y)'
    BY <1>5, <2>0 DEF ConfirmedIsHeld, Kept, OnQueue
  <2>1. Kept(y) /\ y \in Items
    BY <1>0 DEF ConfirmedIsHeld, Kept, OnQueue, Of
  <2> QED
    BY <1>5, <2>1
<1>12. AnswerInv'
  <2> SUFFICES ASSUME NEW y \in Items, NEW took \in BOOLEAN,
                      <<y, took>> \in answers'
               PROVE  (/\ Begun(y[1])
                       /\ chan[call[y[1]].by] = "open"
                       /\ Confirms(call[y[1]].by)
                       /\ FateOf(y) = "sent"
                       /\ ~OnWire(y, call[y[1]].by)
                       /\ <<y, ~took>> \notin answers
                       /\ took => Kept(y))'
    BY DEF AnswerInv
  <2>1. OnWire(x, p)
    BY <1>1 DEF OnWire
  <2>2. \A s \in BOOLEAN : <<x, s>> \notin answers
    BY <1>0, <1>2, <2>1 DEF AnswerInv
  <2>3. CASE <<y, took>> \in answers
    <3>1. /\ Begun(y[1])
          /\ chan[call[y[1]].by] = "open"
          /\ Confirms(call[y[1]].by)
          /\ FateOf(y) = "sent"
          /\ ~OnWire(y, call[y[1]].by)
          /\ <<y, ~took>> \notin answers
          /\ took => Kept(y)
      BY <1>0, <2>3 DEF AnswerInv
    <3>2. y # x
      BY <2>2, <2>3
    <3>3. y[1] \in Calls /\ call[y[1]].by \in Producers
      BY <1>0, <3>1, ItemIs, ByWhom
    <3>4. ~OnWire(y, call[y[1]].by)'
      <4>1. call'[y[1]].by = call[y[1]].by
        BY <1>1
      <4>2. CASE call[y[1]].by # p
        BY <1>3, <3>1, <3>3, <4>1, <4>2 DEF OnWire
      <4>3. CASE call[y[1]].by = p
        BY <1>3, <3>1, <4>1, <4>3 DEF OnWire
      <4> QED
        BY <4>2, <4>3
    <3>5. <<y, ~took>> \notin answers'
      BY <1>1, <3>1, <3>2
    <3>6. Confirms(call[y[1]].by)'
      BY <1>1, <1>5, <3>1, <3>3 DEF Confirms
    <3>7. Begun(y[1])' /\ FateOf(y)' = "sent" /\ (took => Kept(y)')
      BY <1>5, <3>1, <3>3
    <3>8. chan'[call'[y[1]].by] = "open"
      BY <1>1, <3>1
    <3> QED
      BY <3>4, <3>5, <3>6, <3>7, <3>8
  <2>4. CASE <<y, took>> \notin answers
    <3>1. /\ Confirms(p) /\ chan[p] = "open"
          /\ answers' = answers \cup {<<x, t>>}
          /\ y = x /\ took = t
      BY <1>1, <2>4
    <3>2. ~OnWire(x, call[x[1]].by)'
      <4>1. \A i \in DOMAIN wire'[p] : wire'[p][i] # x
        BY <1>0, <1>1, <1>3 DEF OrderInv, Before
      <4> QED
        BY <1>1, <1>2, <4>1 DEF OnWire
    <3>3. <<x, ~t>> \notin answers'
      BY <2>2, <3>1
    <3>4. /\ Begun(x[1])' /\ chan'[call'[x[1]].by] = "open"
          /\ Confirms(call[x[1]].by)' /\ FateOf(x)' = "sent"
      BY <1>1, <1>2, <1>5, <3>1 DEF Confirms
    <3> QED
      BY <1>4, <3>1, <3>2, <3>3, <3>4
  <2> QED
    BY <2>3, <2>4
<1>13. OrderInv'
  <2>0. UNCHANGED <<call, after>>
    BY <1>1
  <2>1. \A i, j \in DOMAIN queue' : i < j => Before(queue'[i], queue'[j])
    <3> SUFFICES ASSUME NEW i \in DOMAIN queue', NEW j \in DOMAIN queue', i < j
                 PROVE  Before(queue'[i], queue'[j])
      OBVIOUS
    <3>1. i \in DOMAIN queue /\ queue'[i] = queue[i]
      BY <1>4
    <3>2. CASE j \in DOMAIN queue /\ queue'[j] = queue[j]
      BY <1>0, <3>1, <3>2 DEF OrderInv
    <3>3. CASE queue'[j] = x
      BY <1>0, <1>1, <3>1, <3>3 DEF OrderInv
    <3> QED
      BY <1>4, <3>2, <3>3
  <2>2. ASSUME NEW q \in Producers, NEW i \in DOMAIN wire'[q],
               NEW j \in DOMAIN wire'[q], i < j
        PROVE  Before(wire'[q][i], wire'[q][j])
    <3>1. CASE q # p
      BY <1>0, <1>3, <2>2, <3>1 DEF OrderInv
    <3>2. CASE q = p
      <4>1. /\ i + 1 \in DOMAIN wire[p] /\ j + 1 \in DOMAIN wire[p]
            /\ i + 1 < j + 1
            /\ wire'[p][i] = wire[p][i + 1] /\ wire'[p][j] = wire[p][j + 1]
        BY <1>3, <2>2, <3>2
      <4> QED
        BY <1>0, <3>2, <4>1 DEF OrderInv
    <3> QED
      BY <3>1, <3>2
  <2>3. ASSUME NEW i \in DOMAIN queue', NEW q \in Producers,
               NEW j \in DOMAIN wire'[q]
        PROVE  Before(queue'[i], wire'[q][j])
    <3>1. PICK m \in DOMAIN wire[q] :
            wire'[q][j] = wire[q][m] /\ (q = p => m > 1)
      BY <1>3
    <3>2. CASE i \in DOMAIN queue /\ queue'[i] = queue[i]
      BY <1>0, <3>1, <3>2 DEF OrderInv
    <3>3. CASE queue'[i] = x /\ q = p
      BY <1>0, <1>1, <3>1, <3>3 DEF OrderInv
    <3>4. CASE queue'[i] = x /\ q # p
      <4>1. PICK y \in Items : y = wire[q][m]
        BY <1>0 DEF ProducerTypeOK
      <4>2. Carried(q, y) /\ call[y[1]].by = q /\ y[1] \in Calls
        BY <1>0, <4>1, ItemIs DEF WireInv, Carried
      <4>3. y[1] # x[1] /\ y # x
        BY <1>2, <3>4, <4>2
      <4>4. y[1] \notin after[x[1]]
        BY <1>0, <1>2, <3>4, <4>2 DEF AfterInv
      <4> QED
        BY <3>1, <3>4, <4>1, <4>3, <4>4 DEF Before
    <3> QED
      BY <1>4, <3>2, <3>3, <3>4
  <2>4. (\A i, j \in DOMAIN queue : i < j => Before(queue[i], queue[j]))'
    BY <2>0, <2>1 DEF Before
  <2>5. (\A q \in Producers : \A i, j \in DOMAIN wire[q] :
           i < j => Before(wire[q][i], wire[q][j]))'
    BY <2>0, <2>2 DEF Before
  <2>6. (\A i \in DOMAIN queue, q \in Producers : \A j \in DOMAIN wire[q] :
           Before(queue[i], wire[q][j]))'
    BY <2>0, <2>3 DEF Before
  <2> QED
    BY <2>4, <2>5, <2>6 DEF OrderInv
<1> QED
  BY <1>6, <1>7, <1>8, <1>9, <1>10, <1>11, <1>12, <1>13 DEF IInv

-----------------------------------------------------------------------------
(* A producer loses its channel.                                           *)

\* F changes only items of p that wait for a confirm, to what an error makes
\* of them.
Breaks(p, F) ==
  /\ Moves(F)
  /\ fate' = Advance(F)
  /\ \A y \in Items :
       \/ F[y[1]][y[2]] = FateOf(y)
       \/ y \in Of(p) /\ F[y[1]][y[2]] \in {"error", "rejected"}

LEMMA LosesEffect ==
  ASSUME IInv, NEW p \in Producers, LosesChannel(p)
  PROVE  \E F : Breaks(p, F)
<1>0. /\ DOMAIN fate = Calls
      /\ \A k \in Calls : fate[k] \in [Positions(k) -> Fates]
      /\ TurnInv /\ CallInv
  BY DEF IInv, ProducerTypeOK
<1>1. CASE fate' = fate
  <2>1. Moves(fate)
    BY <1>0 DEF Moves
  <2>2. ASSUME NEW k \in Calls, NEW n \in Positions(k)
        PROVE  ~(/\ fate[k][n] = "waiting" /\ n > 1 /\ Begun(k)
                 /\ fate[k][n - 1] \in Done)
    BY <1>0 DEF TurnInv, InTurn
  <2>3. /\ DOMAIN Advance(fate) = Calls
        /\ \A k \in Calls :
             /\ Advance(fate)[k] \in [Positions(k) -> Fates]
             /\ \A n \in Positions(k) :
                  Advance(fate)[k][n] =
                    IF /\ fate[k][n] = "waiting" /\ n > 1 /\ Begun(k)
                       /\ fate[k][n - 1] \in Done
                      THEN "serializing" ELSE fate[k][n]
    <3>1. ProducerTypeOK
      BY DEF IInv
    <3> QED
      BY <2>1, <3>1, AdvanceIs
  <2>4. \A k \in Calls : Advance(fate)[k] = fate[k]
    BY <1>0, <2>2, <2>3
  <2>5. Advance(fate) = [k \in Calls |-> Advance(fate)[k]]
    BY DEF Advance
  <2>6. fate = [k \in Calls |-> fate[k]]
    BY DEF IInv, ProducerTypeOK
  <2>7. fate' = Advance(fate)
    BY <1>1, <2>4, <2>5, <2>6
  <2> QED
    BY <2>1, <2>7 DEF Breaks, FateOf
<1>2. ASSUME NEW F,
             F = [k \in Calls |-> [n \in Positions(k) |->
                    IF <<k, n>> \in Of(p) /\ fate[k][n] = "sent"
                      THEN ErrorFate(<<k, n>>) ELSE fate[k][n]]],
             fate' = Advance(F)
      PROVE  Breaks(p, F)
  <2>1. \A y : ErrorFate(y) \in {"error", "rejected"}
    BY DEF ErrorFate
  <2>2. DOMAIN F = Calls
    BY <1>2
  <2>3. ASSUME NEW k \in Calls
        PROVE  /\ F[k] \in [Positions(k) -> Fates]
               /\ \A n \in Positions(k) :
                    \/ F[k][n] = fate[k][n]
                    \/ /\ <<k, n>> \in Of(p) /\ fate[k][n] = "sent"
                       /\ F[k][n] \in {"error", "rejected"}
    <3>1. F[k] = [n \in Positions(k) |->
                    IF <<k, n>> \in Of(p) /\ fate[k][n] = "sent"
                      THEN ErrorFate(<<k, n>>) ELSE fate[k][n]]
      BY <1>2
    <3>2. \A n \in Positions(k) : fate[k][n] \in Fates
      BY <1>0
    <3>3. {"error", "rejected"} \subseteq Fates
      BY DEF Fates
    <3> QED
      BY <2>1, <3>1, <3>2, <3>3
  <2>4. Moves(F)
    BY <2>2, <2>3 DEF Moves
  <2>5. \A y \in Items : \/ F[y[1]][y[2]] = FateOf(y)
                         \/ /\ y \in Of(p)
                            /\ F[y[1]][y[2]] \in {"error", "rejected"}
    BY <2>3, ItemIs DEF FateOf
  <2> QED
    BY <1>2, <2>4, <2>5 DEF Breaks
<1> QED
  BY <1>1, <1>2 DEF LosesChannel

\* What a lost channel leaves alone.
LEMMA LosesStep ==
  ASSUME IInv, NEW p \in Producers, LosesChannel(p),
         StartupTypeOK', LaunchInv', chan'[p] # "open",
         UNCHANGED <<config, declared>>,
         shut' \in [Producers -> BOOLEAN],
         wire' \in {wire, [wire EXCEPT ![p] = <<>>]},
         \A q \in Producers :
           boot[q] \in {"up", "exited"} => boot'[q] \in {"up", "exited"},
         \A q \in Producers \ {p} : chan'[q] = chan[q]
  PROVE  IInv'
<1>0. /\ ProducerTypeOK /\ WireInv /\ AnswerInv
      /\ ConfirmedIsHeld /\ OrderInv
  BY DEF IInv
<1>1. /\ answers' = {a \in answers : a[1] \notin Of(p)}
      /\ UNCHANGED <<call, queue, dropped, after>>
  BY DEF LosesChannel
<1>2. PICK F : Breaks(p, F)
  BY LosesEffect
<1>3. \A y \in Items :
       \/ F[y[1]][y[2]] = FateOf(y)
       \/ y \in Of(p) /\ F[y[1]][y[2]] \in {"error", "rejected"}
  BY <1>2 DEF Breaks
<1>4. Onward(F)
  BY <1>1, <1>2 DEF Onward, Breaks
<1>5. /\ CallInv' /\ TurnInv' /\ AfterInv' /\ QueueInv' /\ DropInv'
      /\ OwnIsRouted'
      /\ \A y \in Items : Gone(y) => Gone(y)'
      /\ \A y \in Items :
           F[y[1]][y[2]] \notin {"waiting", "serializing"}
             => FateOf(y)' = F[y[1]][y[2]]
      /\ \A y \in Items :
           FateOf(y)' \notin {"waiting", "serializing"}
             => F[y[1]][y[2]] = FateOf(y)'
      /\ fate' = [l \in Calls |-> fate'[l]]
      /\ \A k \in Calls : fate'[k] \in [Positions(k) -> Fates]
  BY <1>4, OnwardKeeps
<1>6. /\ wire' \in [Producers -> Seq(Items)]
      /\ \A q \in Producers : \A i \in DOMAIN wire'[q] :
           i \in DOMAIN wire[q] /\ wire'[q][i] = wire[q][i]
  <2>1. wire \in [Producers -> Seq(Items)]
    BY <1>0 DEF ProducerTypeOK
  <2>2. CASE wire' = wire
    BY <2>1, <2>2
  <2>3. CASE wire' = [wire EXCEPT ![p] = <<>>]
    <3>1. <<>> \in Seq(Items) /\ DOMAIN <<>> = {}
      BY EmptySeq
    <3>2. wire'[p] = <<>> /\ \A q \in Producers \ {p} : wire'[q] = wire[q]
      BY <2>1, <2>3
    <3>3. wire' \in [Producers -> Seq(Items)]
      BY <2>1, <2>3, <3>1
    <3> QED
      BY <3>1, <3>2, <3>3
  <2> QED
    BY <2>2, <2>3
<1>7. ProducerTypeOK'
  <2>1. answers' \subseteq Items \X BOOLEAN
    BY <1>0, <1>1 DEF ProducerTypeOK
  <2> QED
    BY <1>0, <1>1, <1>5, <1>6, <2>1 DEF ProducerTypeOK
<1>8. ASSUME NEW y \in Items, Begun(y[1]), call[y[1]].by # p
      PROVE  /\ F[y[1]][y[2]] = FateOf(y)
             /\ FateOf(y) = "sent" => FateOf(y)' = "sent"
  <2>1. F[y[1]][y[2]] = FateOf(y)
    BY <1>3, <1>8 DEF Of
  <2> QED
    BY <1>5, <2>1
<1>9. \A q \in Producers : Confirms(q)' <=> Confirms(q)
  BY DEF Confirms
<1>10. WireInv'
  <2> SUFFICES ASSUME NEW q \in Producers, NEW i \in DOMAIN wire'[q]
               PROVE  Carried(q, wire[q][i])'
    BY DEF WireInv
  <2>1. PICK y \in Items : y = wire[q][i] /\ wire'[q][i] = y
    BY <1>0, <1>6 DEF ProducerTypeOK
  <2>2. Carried(q, y)
    BY <1>0, <1>6, <2>1 DEF WireInv
  <2>3. Gone(y)' /\ call'[y[1]].by = q /\ Begun(y[1])
    BY <1>1, <1>5, <2>2 DEF Carried, Gone
  <2>4. (Confirms(q)' /\ chan'[q] = "open") => FateOf(y)' = "sent"
    BY <1>1, <1>8, <1>9, <2>2, <2>3 DEF Carried
  <2>5. Carried(q, y)'
    BY <2>3, <2>4 DEF Carried
  <2> QED
    BY <2>1, <2>5 DEF Carried
<1>11. AnswerInv'
  <2> SUFFICES ASSUME NEW y \in Items, NEW took \in BOOLEAN,
                      <<y, took>> \in answers'
               PROVE  (/\ Begun(y[1])
                       /\ chan[call[y[1]].by] = "open"
                       /\ Confirms(call[y[1]].by)
                       /\ FateOf(y) = "sent"
                       /\ ~OnWire(y, call[y[1]].by)
                       /\ <<y, ~took>> \notin answers
                       /\ took => Kept(y))'
    BY DEF AnswerInv
  <2>1. <<y, took>> \in answers /\ y \notin Of(p)
    BY <1>1
  <2>2. /\ Begun(y[1])
        /\ chan[call[y[1]].by] = "open"
        /\ Confirms(call[y[1]].by)
        /\ FateOf(y) = "sent"
        /\ ~OnWire(y, call[y[1]].by)
        /\ <<y, ~took>> \notin answers
        /\ took => Kept(y)
    BY <1>0, <2>1 DEF AnswerInv
  <2>3. y[1] \in Calls /\ call[y[1]].by \in Producers \ {p}
    <3>1. y[1] \in Calls
      BY ItemIs
    <3>2. call[y[1]].by \in Producers
      BY <1>0, <2>2, <3>1, ByWhom
    <3>3. call[y[1]].by # p
      BY <2>1, <2>2 DEF Of, Begun
    <3> QED
      BY <3>1, <3>2, <3>3
  <2>4. call'[y[1]].by = call[y[1]].by /\ Begun(y[1])'
    BY <1>1, <2>2 DEF Begun
  <2>5. FateOf(y)' = "sent"
    BY <1>8, <2>2, <2>3
  <2>6. ~OnWire(y, call[y[1]].by)'
    BY <1>6, <2>2, <2>3, <2>4 DEF OnWire
  <2>7. Kept(y)' <=> Kept(y)
    BY <1>1 DEF Kept, OnQueue
  <2>8. Confirms(call[y[1]].by)'
    BY <2>2, <2>4 DEF Confirms
  <2> QED
    BY <1>1, <2>2, <2>3, <2>4, <2>5, <2>6, <2>7, <2>8
<1>12. ConfirmedIsHeld'
  <2>0. \A q \in Producers : Of(q)' = Of(q) /\ Of(q) \subseteq Items
    BY <1>1 DEF Of
  <2> SUFFICES ASSUME NEW q \in Producers, Confirms(q), NEW y \in Of(q),
                      FateOf(y)' = "id"
               PROVE  Kept(y)'
    BY <1>9, <2>0 DEF ConfirmedIsHeld, Kept, OnQueue
  <2>1. y \in Items /\ F[y[1]][y[2]] = "id"
    BY <1>5, <2>0
  <2>2. FateOf(y) = "id"
    BY <1>3, <2>1
  <2> QED
    BY <1>0, <1>1, <2>2 DEF ConfirmedIsHeld, Kept, OnQueue
<1>13. OrderInv'
  <2>1. UNCHANGED <<call, after, queue>>
    BY <1>1
  <2>2. (\A i, j \in DOMAIN queue : i < j => Before(queue[i], queue[j]))'
    BY <1>0, <2>1 DEF OrderInv, Before
  <2>3. \A q \in Producers : \A i, j \in DOMAIN wire'[q] :
          i < j => Before(wire'[q][i], wire'[q][j])
    BY <1>0, <1>6 DEF OrderInv
  <2>4. \A i \in DOMAIN queue, q \in Producers : \A j \in DOMAIN wire'[q] :
          Before(queue[i], wire'[q][j])
    BY <1>0, <1>6 DEF OrderInv
  <2>5. (\A q \in Producers : \A i, j \in DOMAIN wire[q] :
           i < j => Before(wire[q][i], wire[q][j]))'
    BY <2>1, <2>3 DEF Before
  <2>6. (\A i \in DOMAIN queue, q \in Producers : \A j \in DOMAIN wire[q] :
           Before(queue[i], wire[q][j]))'
    BY <2>1, <2>4 DEF Before
  <2> QED
    BY <2>2, <2>5, <2>6 DEF OrderInv
<1> QED
  BY <1>5, <1>7, <1>10, <1>11, <1>12, <1>13 DEF IInv

LEMMA ProducerFails ==
  ASSUME IInv, NEW p \in Producers, ChannelError(p) \/ ConnectionError(p),
         wire' = [wire EXCEPT ![p] = <<>>], LosesChannel(p), shut' = shut
  PROVE  IInv'
<1>1. p \in Instances /\ Producers \subseteq Instances
  BY DEF Instances
<1>2. /\ StartupTypeOK' /\ LaunchInv'
      /\ UNCHANGED <<config, declared>>
      /\ chan'[p] # "open"
      /\ boot[p] \in {"up", "exited"} => boot'[p] \in {"up", "exited"}
      /\ \A j \in Instances \ {p} : chan'[j] = chan[j] /\ boot'[j] = boot[j]
  BY <1>1, ErrorEffect
<1>3. shut' \in [Producers -> BOOLEAN]
  BY DEF IInv, ProducerTypeOK
<1> QED
  BY <1>1, <1>2, <1>3, LosesStep

LEMMA ShutdownStep ==
  ASSUME IInv, NEW p \in Producers, Shutdown(p)
  PROVE  IInv'
<1>0. /\ StartupTypeOK /\ LaunchInv /\ shut \in [Producers -> BOOLEAN]
      /\ Producers \subseteq Instances
  BY DEF IInv, ProducerTypeOK, Instances
<1>1. /\ boot[p] = "up"
      /\ shut' = [shut EXCEPT ![p] = TRUE]
      /\ chan' = Shut(chan, p) /\ conn' = Shut(conn, p)
      /\ LosesChannel(p)
      /\ UNCHANGED <<boot, config, death, declared, wire>>
  BY DEF Shutdown
<1>2. /\ chan' \in [Instances -> Handles] /\ conn' \in [Instances -> Handles]
      /\ chan'[p] # "open"
      /\ chan[p] = "none" <=> chan'[p] = "none"
      /\ conn[p] = "none" <=> conn'[p] = "none"
      /\ \A j \in Instances \ {p} : chan'[j] = chan[j] /\ conn'[j] = conn[j]
  BY <1>0, <1>1 DEF StartupTypeOK, Shut, Handles
<1>3. /\ shut' \in [Producers -> BOOLEAN] /\ shut'[p]
      /\ \A q \in Producers : shut[q] => shut'[q]
  BY <1>0, <1>1
<1>4. StartupTypeOK'
  BY <1>0, <1>1, <1>2 DEF StartupTypeOK
<1>5. ASSUME NEW j \in Instances PROVE Launched(j)'
  <2>1. CASE j = p
    BY <1>0, <1>1, <1>2, <1>3, <2>1 DEF LaunchInv, Launched, Known
  <2>2. CASE j # p
    BY <1>0, <1>1, <1>2, <1>3, <2>2, LaunchedStays DEF LaunchInv
  <2> QED
    BY <2>1, <2>2
<1>6. LaunchInv'
  BY <1>5 DEF LaunchInv
<1> QED
  BY <1>0, <1>1, <1>2, <1>3, <1>4, <1>6, LosesStep

-----------------------------------------------------------------------------
(* The theorems.                                                           *)

LEMMA InitStep ==
  ASSUME Init
  PROVE  IInv
<1> USE DEF Init, StartupInit
<1>1. StartupTypeOK
  BY DEF StartupTypeOK, Handles, Booting, Deaths
<1>2. ProducerTypeOK
  <2>1. \A k \in Calls : fate[k] = [n \in Positions(k) |-> "waiting"]
    OBVIOUS
  <2>2. \A k \in Calls : fate[k] \in [Positions(k) -> Fates]
    BY <2>1 DEF Fates
  <2>3. fate = [k \in Calls |-> fate[k]]
    OBVIOUS
  <2>4. wire \in [Producers -> Seq(Items)] /\ queue \in Seq(Items)
    BY EmptySeq
  <2> QED
    BY <1>1, <2>2, <2>3, <2>4 DEF ProducerTypeOK
<1>3. LaunchInv
  BY DEF LaunchInv, Launched
<1>4. \A k \in Calls : ~Begun(k)
  BY DEF Begun
<1>5. CallInv /\ TurnInv /\ AfterInv
  BY <1>4 DEF CallInv, TurnInv, AfterInv
<1>6. /\ DOMAIN queue = {} /\ dropped = {} /\ answers = {}
      /\ \A p \in Producers : DOMAIN wire[p] = {}
  BY EmptySeq
<1>7. WireInv /\ QueueInv /\ DropInv /\ AnswerInv /\ OwnIsRouted /\ OrderInv
  BY <1>6 DEF WireInv, QueueInv, DropInv, AnswerInv, OwnIsRouted, OrderInv
<1>8. ConfirmedIsHeld
  BY <1>4, ItemIs DEF ConfirmedIsHeld, Of, Begun
<1> QED
  BY <1>2, <1>3, <1>5, <1>7, <1>8 DEF IInv

LEMMA Stutter ==
  ASSUME IInv, UNCHANGED vars
  PROVE  IInv'
<1>1. StartupTypeOK' /\ Bystander
  BY DEF IInv, ProducerTypeOK, StartupTypeOK, Bystander, vars, startVars, callVars
<1>2. LaunchInv'
  BY LaunchStays DEF IInv, vars, startVars, callVars
<1> QED
  BY <1>1, <1>2, BystanderKeeps

LEMMA NextStep ==
  ASSUME IInv, [Next]_vars
  PROVE  IInv'
<1>1. CASE StartupNext /\ UNCHANGED callVars
  BY <1>1, StartupStep
<1>2. ASSUME NEW i \in Instances, Fails(i) PROVE IInv'
  <2>1. CASE i \in Producers /\ wire' = [wire EXCEPT ![i] = <<>>]
             /\ LosesChannel(i) /\ shut' = shut
    BY <1>2, <2>1, ProducerFails DEF Fails
  <2>2. CASE i \in Consumers /\ UNCHANGED callVars
    BY <1>2, <2>2, ConsumerFails DEF Fails
  <2> QED
    BY <1>2, <2>1, <2>2 DEF Fails
<1>3. CASE Declare
  BY <1>3, DeclareStep
<1>4. ASSUME NEW k \in Calls, NEW g \in Flags, Enqueue(k, g) PROVE IInv'
  BY <1>4, EnqueueStep
<1>5. ASSUME NEW k \in Calls, NEW n \in Positions(k),
             Send(k, n) \/ SerializerThrows(k, n)
      PROVE  IInv'
  BY <1>5, SentStep, ThrowsStep
<1>6. ASSUME NEW x \in Items, NEW took \in BOOLEAN, Confirmed(x, took) PROVE IInv'
  BY <1>6, ConfirmedStep
<1>7. ASSUME NEW p \in Producers, Route(p) \/ Shutdown(p) PROVE IInv'
  BY <1>7, RouteStep, ShutdownStep
<1>8. CASE UNCHANGED vars
  BY <1>8, Stutter
<1> QED
  BY <1>1, <1>2, <1>3, <1>4, <1>5, <1>6, <1>7, <1>8, RequestIs DEF Next

\* The inductive invariant: what every instance, call, item and message of the
\* producer keeps to, in every reachable state.
THEOREM ProducerInvariant == Spec => []IInv
<1>1. Init => IInv
  BY InitStep
<1>2. IInv /\ [Next]_vars => IInv'
  BY NextStep
<1> QED
  BY <1>1, <1>2, PTL DEF Spec

\* Every variable keeps to its type.
THEOREM ProducerTypeCorrect == Spec => []ProducerTypeOK
<1>1. IInv => ProducerTypeOK
  BY DEF IInv
<1> QED
  BY <1>1, ProducerInvariant, PTL

\* No instance that came up with an open channel misses that channel's end,
\* but a consumer whose own connection broke while its coordinator was awaited:
\* both handlers are attached before anything else is awaited, and emit 'fatal'
\* before they await anything themselves.
THEOREM DeathGetsHeard == Spec => []DeathIsHeard
<1>1. IInv => DeathIsHeard
  BY DEF IInv, LaunchInv, Launched, Known, DeathIsHeard
<1> QED
  BY <1>1, ProducerInvariant, PTL

\* A producer with its own channel never sends to a queue that is not there.
THEOREM OwnGetsRouted == Spec => []OwnIsRouted
<1>1. IInv => OwnIsRouted
  BY DEF IInv
<1> QED
  BY <1>1, ProducerInvariant, PTL

\* An id given out on a confirm channel stands for an item on the queue, or
\* for one that had no queue to go to.
THEOREM ConfirmedGetsHeld == Spec => []ConfirmedIsHeld
<1>1. IInv => ConfirmedIsHeld
  BY DEF IInv
<1> QED
  BY <1>1, ProducerInvariant, PTL

\* The queue holds the items of a keepOrder call in their order, and those of
\* a call made after another had resolved behind that one's.
THEOREM OrderGetsKept == Spec => []OrderIsKept
<1>1. IInv => OrderIsKept
  BY DEF IInv, OrderInv, Before, OrderIsKept
<1> QED
  BY <1>1, ProducerInvariant, PTL

\* However serializers, channels and confirms race, no item is on the queue
\* twice: what a caller finds there twice it has enqueued twice (71-73).
THEOREM QueuedAtMostOnce ==
  Spec => [](\A i, j \in DOMAIN queue : queue[i] = queue[j] => i = j)
<1>1. IInv => \A i, j \in DOMAIN queue : queue[i] = queue[j] => i = j
  <2> SUFFICES ASSUME IInv, NEW i \in DOMAIN queue, NEW j \in DOMAIN queue, i # j
               PROVE  queue[i] # queue[j]
    OBVIOUS
  <2>1. i \in Nat /\ j \in Nat
    BY DEF IInv, ProducerTypeOK
  <2>2. i < j \/ j < i
    BY <2>1
  <2> QED
    BY <2>2 DEF IInv, OrderInv, Before
<1> QED
  BY <1>1, ProducerInvariant, PTL

\* A step leaves the fates of a call that was made, or moves some on.
LEMMA MadeMoves ==
  ASSUME IInv, Next, NEW k \in Calls, Begun(k)
  PROVE  fate'[k] = fate[k] \/ \E F : Moves(F) /\ fate' = Advance(F)
<1> DEFINE Goal == fate'[k] = fate[k] \/ \E F : Moves(F) /\ fate' = Advance(F)
<1>1. CASE fate' = fate
  BY <1>1
<1>2. ASSUME NEW p \in Producers, LosesChannel(p) PROVE Goal
  BY <1>2, LosesEffect DEF Breaks
<1>3. ASSUME NEW l \in Calls, NEW g \in Flags, Enqueue(l, g) PROVE Goal
  <2>1. l # k /\ fate' = [fate EXCEPT ![l] = fate'[l]]
    BY <1>3 DEF Enqueue, Begun, IInv, ProducerTypeOK
  <2>2. fate'[k] = fate[k]
    BY <2>1 DEF IInv, ProducerTypeOK
  <2> QED
    BY <2>2
<1>4. ASSUME NEW l \in Calls, NEW n \in Positions(l),
             Send(l, n) \/ SerializerThrows(l, n)
      PROVE  Goal
  <2>1. PICK o \in {"sent", "id", "rejected"} :
          fate[l][n] = "serializing" /\ Settle(<<l, n>>, o)
    BY <1>4 DEF Send, SerializerThrows, Serialized
  <2> QED
    BY <2>1, SettleMoves
<1>5. ASSUME NEW x \in Items, NEW took \in BOOLEAN, Confirmed(x, took) PROVE Goal
  <2>1. PICK l \in Calls : \E n \in Positions(l) : x = <<l, n>>
    BY ItemIs
  <2>5. PICK n \in Positions(l) : x = <<l, n>>
    BY <2>1
  <2>2. PICK o \in {"id", "error", "rejected"} : Settle(<<l, n>>, o)
    BY <1>5, <2>5 DEF Confirmed, ErrorFate
  <2>3. FateOf(x) = "sent"
    BY <1>5 DEF Confirmed, IInv, AnswerInv
  <2>4. fate[l][n] = "sent"
    BY <2>5, <2>3 DEF FateOf
  <2> QED
    BY <2>2, <2>4, SettleMoves
<1> QED
  BY <1>1, <1>2, <1>3, <1>4, <1>5, RequestIs
  DEF Next, Fails, Declare, Route, Shutdown, callVars

\* A keepOrder call that has rejected has no item under way.
LEMMA RejectedRests ==
  ASSUME IInv, NEW k \in Calls, Begun(k), call[k].keepOrder, Rejected(k),
         NEW F, Moves(F), fate' = Advance(F)
  PROVE  fate'[k] = fate[k]
<1>0. ProducerTypeOK /\ InTurn(k)
  BY DEF IInv, TurnInv
<1>1. PICK m \in Positions(k) : fate[k][m] = "rejected"
  BY DEF Rejected
<1>2. ASSUME NEW n \in Positions(k)
      PROVE  fate[k][n] \notin {"serializing", "sent"}
  <2>1. n \in Nat /\ m \in Nat
    BY Neighbours
  <2>2. CASE m < n
    BY <1>0, <1>1, <2>2 DEF InTurn, Done
  <2>3. CASE n < m
    BY <1>0, <1>1, <2>3 DEF InTurn, Done
  <2>4. CASE n = m
    BY <1>1, <2>4
  <2> QED
    BY <2>1, <2>2, <2>3, <2>4
<1>3. \A n \in Positions(k) : F[k][n] = fate[k][n]
  BY <1>2 DEF Moves
<1>4. ASSUME NEW n \in Positions(k) PROVE fate'[k][n] = fate[k][n]
  <2>1. fate'[k][n] = IF /\ F[k][n] = "waiting" /\ n > 1 /\ Begun(k)
                         /\ F[k][n - 1] \in Done
                        THEN "serializing" ELSE F[k][n]
    BY <1>0, AdvanceIs
  <2>2. n > 1 => n - 1 \in Positions(k)
    BY Neighbours
  <2> QED
    BY <1>0, <1>3, <2>1, <2>2 DEF InTurn
<1>5. fate[k] \in [Positions(k) -> Fates] /\ fate'[k] \in [Positions(k) -> Fates]
  BY <1>0, AdvanceIs DEF ProducerTypeOK
<1> QED
  BY <1>4, <1>5

\* A keepOrder call that has rejected sends nothing more, whatever happens to
\* the other items, the channel and the broker.
THEOREM RejectedStaysStopped == Spec => RejectedStops
<1>1. ASSUME IInv, [Next]_vars, NEW k \in Calls, Begun(k), call[k].keepOrder,
             Rejected(k)
      PROVE  fate'[k] = fate[k]
  <2>1. CASE Next
    BY <1>1, <2>1, MadeMoves, RejectedRests
  <2>2. CASE UNCHANGED vars
    BY <2>2 DEF vars, callVars
  <2> QED
    BY <1>1, <2>1, <2>2
<1>2. IInv /\ [Next]_vars
        => [\A k \in Calls :
              call[k] # NoCall /\ call[k].keepOrder /\ Rejected(k)
                => fate'[k] = fate[k]]_vars
  BY <1>1 DEF Begun
<1> QED
  BY <1>2, ProducerInvariant, PTL DEF Spec, RejectedStops


-----------------------------------------------------------------------------
(* The producer implements Delivery.                                       *)

\* What was dropped was sent before, and is not sent again.
AsideInv ==
  \A x \in dropped : Gone(x) /\ \A p \in Producers : ~OnWire(x, p)

\* An item that is not sent is nowhere else, and one on the wire is neither
\* queued nor dropped.
LEMMA WhereItIs ==
  ASSUME IInv, AsideInv, NEW x \in Items
  PROVE  /\ FateOf(x) \in Unsent =>
              /\ ~OnQueue(x) /\ x \notin dropped
              /\ \A p \in Producers : ~OnWire(x, p)
         /\ \A p \in Producers : OnWire(x, p) =>
              /\ Begun(x[1]) /\ call[x[1]].by = p /\ FateOf(x) \notin Unsent
              /\ ~OnQueue(x) /\ x \notin dropped /\ PlaceOf(x) = "sent"
         /\ PlaceOf(x) = "sent" => \E p \in Producers : OnWire(x, p)
<1>0. WireInv /\ QueueInv /\ OrderInv
  BY DEF IInv
<1>1. ASSUME NEW p \in Producers, OnWire(x, p)
      PROVE  Gone(x) /\ call[x[1]].by = p /\ ~OnQueue(x) /\ x \notin dropped
  <2>1. Carried(p, x)
    BY <1>0, <1>1 DEF WireInv, OnWire
  <2>2. ~OnQueue(x)
    BY <1>0, <1>1 DEF OrderInv, Before, OnWire, OnQueue
  <2>3. x \notin dropped
    BY <1>1 DEF AsideInv
  <2> QED
    BY <2>1, <2>2, <2>3 DEF Carried
<1>2. OnQueue(x) => Gone(x)
  BY <1>0 DEF QueueInv, OnQueue
<1>3. x \in dropped => Gone(x)
  BY DEF AsideInv
<1>4. Gone(x) => Begun(x[1]) /\ FateOf(x) \notin Unsent
  BY DEF Gone, Unsent
<1>5. \A p \in Producers : OnWire(x, p) => PlaceOf(x) = "sent"
  BY <1>1, <1>4 DEF PlaceOf
<1>6. PlaceOf(x) = "sent" => \E p \in Producers : OnWire(x, p)
  BY DEF PlaceOf
<1> QED
  BY <1>1, <1>2, <1>3, <1>4, <1>5, <1>6

\* An unsent item stays so, and the others keep what has become of them.
SameFate(y) ==
  IF FateOf(y) \in Unsent THEN FateOf(y)' \in Unsent ELSE FateOf(y)' = FateOf(y)

LEMMA SettleFates ==
  ASSUME IInv, NEW k \in Calls, NEW n \in Positions(k), NEW o,
         \/ fate[k][n] = "serializing" /\ o \in {"sent", "id", "error", "rejected"}
         \/ fate[k][n] = "sent" /\ o \in {"id", "error", "rejected"},
         Settle(<<k, n>>, o), call' = call
  PROVE  /\ FateOf(<<k, n>>)' = o
         /\ \A y \in Items \ {<<k, n>>} : SameFate(y)
<1> DEFINE F == [fate EXCEPT ![k][n] = o]
<1>1. /\ Moves(F) /\ fate' = Advance(F) /\ F[k][n] = o
      /\ \A y \in Items : y # <<k, n>> => F[y[1]][y[2]] = FateOf(y)
  BY SettleMoves
<1> HIDE DEF F
<1>2. /\ \A l \in Calls : \A m \in Positions(l) :
           F[l][m] \notin {"waiting", "serializing"} => fate'[l][m] = F[l][m]
      /\ \A l \in Calls : \A m \in Positions(l) :
           F[l][m] \in {"waiting", "serializing"}
             => fate'[l][m] \in {"waiting", "serializing"}
  BY <1>1, FateStep
<1>3. FateOf(<<k, n>>)' = o
  BY <1>1, <1>2 DEF FateOf
<1>4. \A y \in Items \ {<<k, n>>} : SameFate(y)
  BY <1>1, <1>2, ItemIs DEF SameFate, FateOf, Unsent
<1> QED
  BY <1>3, <1>4

\* The callbacks that wait on p's channel are told of an error, or nothing.
LEMMA LosesFates ==
  ASSUME IInv, NEW p \in Producers, LosesChannel(p)
  PROVE  \A y \in Items :
           \/ SameFate(y)
           \/ y \in Of(p) /\ FateOf(y) = "sent" /\ FateOf(y)' = ErrorFate(y)
<1>1. CASE fate' = fate
  BY <1>1 DEF SameFate, FateOf
<1>2. ASSUME NEW F,
             F = [k \in Calls |-> [n \in Positions(k) |->
                    IF <<k, n>> \in Of(p) /\ fate[k][n] = "sent"
                      THEN ErrorFate(<<k, n>>) ELSE fate[k][n]]],
             fate' = Advance(F)
      PROVE  \A y \in Items :
               \/ SameFate(y)
               \/ y \in Of(p) /\ FateOf(y) = "sent" /\ FateOf(y)' = ErrorFate(y)
  <2>0. \A k \in Calls : fate[k] \in [Positions(k) -> Fates]
    BY DEF IInv, ProducerTypeOK
  <2>1. \A y : ErrorFate(y) \in {"error", "rejected"}
    BY DEF ErrorFate
  <2>2. ASSUME NEW y \in Items
        PROVE  F[y[1]][y[2]] = IF y \in Of(p) /\ FateOf(y) = "sent"
                                 THEN ErrorFate(y) ELSE FateOf(y)
    BY <1>2, ItemIs DEF FateOf
  <2>3. Moves(F)
    <3>1. DOMAIN F = Calls
      BY <1>2
    <3>2. ASSUME NEW k \in Calls
          PROVE  /\ F[k] \in [Positions(k) -> Fates]
                 /\ \A n \in Positions(k) :
                      \/ F[k][n] = fate[k][n]
                      \/ fate[k][n] = "sent" /\ F[k][n] \in {"error", "rejected"}
      <4>1. F[k] = [n \in Positions(k) |->
                      IF <<k, n>> \in Of(p) /\ fate[k][n] = "sent"
                        THEN ErrorFate(<<k, n>>) ELSE fate[k][n]]
        BY <1>2
      <4>2. {"error", "rejected"} \subseteq Fates
        BY DEF Fates
      <4> QED
        BY <2>0, <2>1, <4>1, <4>2
    <3> QED
      BY <3>1, <3>2 DEF Moves
  <2>4. call' = call /\ fate' = Advance(F)
    BY <1>2 DEF LosesChannel
  <2>5. /\ \A l \in Calls : \A m \in Positions(l) :
             F[l][m] \notin {"waiting", "serializing"} => fate'[l][m] = F[l][m]
        /\ \A l \in Calls : \A m \in Positions(l) :
             F[l][m] \in {"waiting", "serializing"}
               => fate'[l][m] \in {"waiting", "serializing"}
    BY <2>3, <2>4, FateStep
  <2>6. ASSUME NEW y \in Items
        PROVE  /\ F[y[1]][y[2]] \notin Unsent => FateOf(y)' = F[y[1]][y[2]]
               /\ F[y[1]][y[2]] \in Unsent => FateOf(y)' \in Unsent
    BY <2>5, ItemIs DEF FateOf, Unsent
  <2> QED
    BY <2>1, <2>2, <2>6 DEF SameFate, Unsent
<1> QED
  BY <1>1, <1>2 DEF LosesChannel

-----------------------------------------------------------------------------
(* What Delivery sees.                                                     *)

LEMMA SamePlace ==
  ASSUME NEW y, SameFate(y), OnQueue(y)' <=> OnQueue(y),
         y \in dropped' <=> y \in dropped,
         \A p \in Producers : OnWire(y, p)' <=> OnWire(y, p)
  PROVE  PlaceOf(y)' = PlaceOf(y) /\ ToldOf(y)' = ToldOf(y)
BY DEF SameFate, PlaceOf, ToldOf, Unsent

LEMMA SameConfirming ==
  ASSUME UNCHANGED <<call, config>>
  PROVE  Confirming' = Confirming
BY DEF Confirming, Confirms

\* A step that concerns x alone.
LEMMA OneMoves ==
  ASSUME NEW x \in Items,
         \A y \in Items \ {x} : PlaceOf(y)' = PlaceOf(y) /\ ToldOf(y)' = ToldOf(y)
  PROVE  /\ [y \in Items |-> PlaceOf(y)]'
              = [[y \in Items |-> PlaceOf(y)] EXCEPT ![x] = PlaceOf(x)']
         /\ [y \in Items |-> ToldOf(y)]'
              = [[y \in Items |-> ToldOf(y)] EXCEPT ![x] = ToldOf(x)']
OBVIOUS

LEMMA Mapped ==
  ASSUME NEW x \in Items
  PROVE  /\ [y \in Items |-> PlaceOf(y)][x] = PlaceOf(x)
         /\ [y \in Items |-> ToldOf(y)][x] = ToldOf(x)
OBVIOUS

DeliveryStep == [D!DeliveryNext]_(D!deliveryVars)

LEMMA NothingMoves ==
  ASSUME UNCHANGED <<call, after, queue, dropped, wire>>, Confirming' = Confirming,
         \A y \in Items : SameFate(y)
  PROVE  DeliveryStep
<1>1. \A y \in Items : PlaceOf(y)' = PlaceOf(y) /\ ToldOf(y)' = ToldOf(y)
  <2>1. ASSUME NEW y \in Items PROVE PlaceOf(y)' = PlaceOf(y) /\ ToldOf(y)' = ToldOf(y)
    <3>1. /\ OnQueue(y)' <=> OnQueue(y)
          /\ \A p \in Producers : OnWire(y, p)' <=> OnWire(y, p)
      BY DEF OnQueue, OnWire
    <3> QED
      BY <3>1, SamePlace
  <2> QED
    BY <2>1
<1>2. /\ [y \in Items |-> PlaceOf(y)]' = [y \in Items |-> PlaceOf(y)]
      /\ [y \in Items |-> ToldOf(y)]' = [y \in Items |-> ToldOf(y)]
  BY <1>1
<1>3. UNCHANGED D!deliveryVars
  BY <1>2 DEF D!deliveryVars
<1> QED
  BY <1>3 DEF DeliveryStep

LEMMA AsideKeeps ==
  ASSUME IInv, AsideInv, UNCHANGED <<call, dropped>>,
         \A y \in Items : FateOf(y) \in Unsent \/ FateOf(y)' \notin Unsent,
         \A y \in dropped, p \in Producers : OnWire(y, p)' => OnWire(y, p)
  PROVE  AsideInv'
<1>1. dropped \subseteq Items
  BY DEF IInv, ProducerTypeOK
<1> QED
  BY <1>1 DEF AsideInv, Gone, Begun, Unsent

\* An item that gets on is in its turn.
LEMMA TurnComes ==
  ASSUME IInv, NEW k \in Calls, NEW n \in Positions(k), fate[k][n] = "serializing"
  PROVE  D!InTurn(<<k, n>>)
<1>1. TurnInv /\ Begun(k)
  BY NotYet DEF IInv
<1>2. ASSUME call[k].keepOrder, NEW y \in Items, y[1] = k, y[2] < n
      PROVE  ToldOf(y) \in {"id", "error"}
  <2>1. y[2] \in Positions(k) /\ FateOf(y) = fate[k][y[2]]
    BY <1>2, ItemIs DEF FateOf
  <2>2. fate[k][y[2]] \in {"id", "error"}
    BY <1>1, <1>2, <2>1 DEF TurnInv, InTurn, Done
  <2> QED
    BY <2>1, <2>2 DEF ToldOf, Unsent
<1> QED
  BY <1>1, <1>2, Mapped DEF D!InTurn, D!ItemsOf, D!Done, Begun

LEMMA SendIsSend ==
  ASSUME IInv, AsideInv, NEW k \in Calls, NEW n \in Positions(k), Send(k, n),
         chan[call[k].by] = "open"
  PROVE  D!Send(<<k, n>>) /\ AsideInv'
<1>0. PICK p, x : p = call[k].by /\ x = <<k, n>>
  OBVIOUS
<1> DEFINE o == IF Confirms(p) THEN "sent" ELSE "id"
<1>1. /\ fate[k][n] = "serializing"
      /\ UNCHANGED <<config, call, queue, dropped, after>>
      /\ wire' = [wire EXCEPT ![p] = Append(@, x)]
      /\ Settle(x, o)
  BY <1>0 DEF Send, Serialized, startVars
<1>2. /\ Begun(k) /\ x \in Items /\ FateOf(x) = "serializing" /\ p \in Producers
      /\ x[1] = k /\ x[2] = n
  BY <1>0, <1>1, NotYet, ByWhom DEF IInv
<1>3. FateOf(x)' = o /\ \A y \in Items \ {x} : SameFate(y)
  <2>1. o \in {"sent", "id", "error", "rejected"}
    OBVIOUS
  <2>2. Settle(<<k, n>>, o) /\ fate[k][n] = "serializing" /\ call' = call
    BY <1>0, <1>1
  <2> HIDE DEF o
  <2> QED
    BY <1>0, <2>1, <2>2, SettleFates
<1>4. /\ OnWire(x, p)'
      /\ \A y \in Items \ {x}, q \in Producers : OnWire(y, q)' <=> OnWire(y, q)
  <2>1. wire \in [Producers -> Seq(Items)] /\ wire[p] \in Seq(Items)
    BY <1>2 DEF IInv, ProducerTypeOK
  <2>2. wire'[p] = Append(wire[p], x) /\ \A q \in Producers \ {p} : wire'[q] = wire[q]
    BY <1>1, <1>2, <2>1
  <2>3. /\ DOMAIN wire[p] = 1 .. Len(wire[p]) /\ Len(wire[p]) \in Nat
        /\ DOMAIN wire'[p] = 1 .. Len(wire[p]) + 1
        /\ wire'[p][Len(wire[p]) + 1] = x
        /\ \A i \in DOMAIN wire[p] : wire'[p][i] = wire[p][i]
    BY <1>2, <2>1, <2>2, Growth
  <2>4. \A i \in DOMAIN wire'[p] : i \in DOMAIN wire[p] \/ i = Len(wire[p]) + 1
    BY <2>3
  <2>5. \A i \in DOMAIN wire[p] : i \in DOMAIN wire'[p]
    BY <2>3
  <2>6. OnWire(x, p)'
    BY <2>3 DEF OnWire
  <2>7. \A y \in Items \ {x} : OnWire(y, p)' <=> OnWire(y, p)
    BY <2>3, <2>4, <2>5 DEF OnWire
  <2>8. \A y, q : q \in Producers \ {p} => (OnWire(y, q)' <=> OnWire(y, q))
    BY <2>2 DEF OnWire
  <2> QED
    BY <2>6, <2>7, <2>8
<1>5. \A y \in Items \ {x} : PlaceOf(y)' = PlaceOf(y) /\ ToldOf(y)' = ToldOf(y)
  <2>1. ASSUME NEW y \in Items \ {x}
        PROVE  PlaceOf(y)' = PlaceOf(y) /\ ToldOf(y)' = ToldOf(y)
    <3>1. OnQueue(y)' <=> OnQueue(y)
      BY <1>1 DEF OnQueue
    <3>2. (y \in dropped') <=> (y \in dropped)
      BY <1>1
    <3> QED
      BY <1>3, <1>4, <3>1, <3>2, SamePlace
  <2> QED
    BY <2>1
<1>6. ~OnQueue(x) /\ x \notin dropped /\ \A q \in Producers : ~OnWire(x, q)
  BY <1>2, WhereItIs DEF Unsent
<1>7. /\ PlaceOf(x) = "held" /\ ToldOf(x) = "open"
      /\ PlaceOf(x)' = "sent"
      /\ ToldOf(x)' = IF Confirms(p) THEN "open" ELSE "id"
  <2>1. ~OnQueue(x)' /\ x \notin dropped'
    BY <1>1, <1>6 DEF OnQueue
  <2> QED
    BY <1>2, <1>3, <1>4, <2>1 DEF PlaceOf, ToldOf, Unsent
<1>8. k \in Confirming <=> Confirms(p)
  BY <1>0, <1>2 DEF Confirming, Begun
<1>9. Confirming' = Confirming
  BY <1>1, SameConfirming
<1>10. /\ [y \in Items |-> PlaceOf(y)]'
            = [[y \in Items |-> PlaceOf(y)] EXCEPT ![x] = "sent"]
       /\ [y \in Items |-> ToldOf(y)]'
            = IF k \in Confirming THEN [y \in Items |-> ToldOf(y)]
              ELSE [[y \in Items |-> ToldOf(y)] EXCEPT ![x] = "id"]
  <2>1. CASE Confirms(p)
    <3>1. \A y \in Items : ToldOf(y)' = ToldOf(y)
      BY <1>5, <1>7, <2>1
    <3> QED
      BY <1>2, <1>5, <1>7, <1>8, <2>1, <3>1, OneMoves
  <2>2. CASE ~Confirms(p)
    BY <1>2, <1>5, <1>7, <1>8, <2>2, OneMoves
  <2> QED
    BY <2>1, <2>2
<1>11. D!InTurn(x)
  BY <1>0, <1>1, TurnComes
<1>12. D!Send(x)
  BY <1>1, <1>2, <1>7, <1>9, <1>10, <1>11, Mapped DEF D!Send
<1>13. AsideInv'
  <2>1. \A y \in Items : FateOf(y) \in Unsent \/ FateOf(y)' \notin Unsent
    BY <1>2, <1>3 DEF SameFate, Unsent
  <2>2. dropped \subseteq Items
    BY DEF IInv, ProducerTypeOK
  <2> QED
    BY <1>1, <1>4, <1>6, <2>1, <2>2, AsideKeeps
<1> QED
  BY <1>0, <1>12, <1>13

LEMMA RejectIsRefuse ==
  ASSUME IInv, AsideInv, NEW k \in Calls, NEW n \in Positions(k), Serialized(k, n),
         Settle(<<k, n>>, "rejected"), wire' = wire
  PROVE  D!Refuse(<<k, n>>) /\ AsideInv'
<1>0. PICK x : x = <<k, n>>
  OBVIOUS
<1>1. /\ fate[k][n] = "serializing"
      /\ UNCHANGED <<config, call, queue, dropped, after>>
  BY DEF Serialized, startVars
<1>2. Begun(k) /\ x \in Items /\ FateOf(x) = "serializing" /\ x[1] = k
  BY <1>0, <1>1, NotYet
<1>3. FateOf(x)' = "rejected" /\ \A y \in Items \ {x} : SameFate(y)
  BY <1>0, <1>1, SettleFates
<1>4. \A y : /\ OnQueue(y)' <=> OnQueue(y)
             /\ \A q : OnWire(y, q)' <=> OnWire(y, q)
  BY <1>1 DEF OnQueue, OnWire
<1>5. \A y \in Items \ {x} : PlaceOf(y)' = PlaceOf(y) /\ ToldOf(y)' = ToldOf(y)
  BY <1>1, <1>3, <1>4, SamePlace
<1>6. ~OnQueue(x) /\ x \notin dropped /\ \A q \in Producers : ~OnWire(x, q)
  BY <1>2, WhereItIs DEF Unsent
<1>7. /\ PlaceOf(x) = "held" /\ ToldOf(x) = "open"
      /\ PlaceOf(x)' = "gone" /\ ToldOf(x)' = "rejected"
  BY <1>1, <1>2, <1>3, <1>4, <1>6 DEF PlaceOf, ToldOf, Unsent
<1>8. Confirming' = Confirming
  BY <1>1, SameConfirming
<1>9. D!InTurn(x)
  BY <1>0, <1>1, TurnComes
<1>10. /\ [y \in Items |-> PlaceOf(y)]'
            = [[y \in Items |-> PlaceOf(y)] EXCEPT ![x] = "gone"]
       /\ [y \in Items |-> ToldOf(y)]'
            = [[y \in Items |-> ToldOf(y)] EXCEPT ![x] = "rejected"]
  BY <1>2, <1>5, <1>7, OneMoves
<1>11. D!Refuse(x)
  BY <1>1, <1>2, <1>7, <1>8, <1>9, <1>10, Mapped DEF D!Refuse
<1>12. AsideInv'
  <2>1. \A y \in Items : FateOf(y) \in Unsent \/ FateOf(y)' \notin Unsent
    BY <1>2, <1>3 DEF SameFate, Unsent
  <2> QED
    BY <1>1, <1>4, <2>1, AsideKeeps
<1> QED
  BY <1>0, <1>11, <1>12

\* A step in which some items of p get lost or are given up.
LEMMA FailIs ==
  ASSUME NEW p \in Producers, UNCHANGED <<call, after, queue>>,
         Confirming' = Confirming,
         \A y \in Items :
           \/ PlaceOf(y)' = PlaceOf(y)
           \/ PlaceOf(y) = "sent" /\ call[y[1]].by = p /\ PlaceOf(y)' = "gone",
         \A y \in Items :
           \/ ToldOf(y)' = ToldOf(y)
           \/ /\ PlaceOf(y) # "held" /\ ToldOf(y) = "open" /\ call[y[1]].by = p
              /\ ToldOf(y)' = ErrorFate(y)
  PROVE  D!Fail(p)
<1> DEFINE P == [y \in Items |-> PlaceOf(y)]
           T == [y \in Items |-> ToldOf(y)]
           L == {y \in Items : PlaceOf(y) = "sent" /\ call[y[1]].by = p
                                 /\ PlaceOf(y)' = "gone"}
           G == {y \in Items : /\ PlaceOf(y) # "held" /\ ToldOf(y) = "open"
                               /\ call[y[1]].by = p /\ ToldOf(y)' = ErrorFate(y)}
<1>1. /\ L \in SUBSET {y \in Items : P[y] = "sent" /\ call[y[1]].by = p}
      /\ P' = [y \in Items |-> IF y \in L THEN "gone" ELSE P[y]]
  OBVIOUS
<1>2. /\ G \in SUBSET {y \in Items : /\ P[y] # "held" /\ T[y] = "open"
                                     /\ call[y[1]].by = p}
      /\ T' = [y \in Items |->
                 IF y \notin G THEN T[y]
                 ELSE IF call[y[1]].rejectOnError THEN "rejected" ELSE "error"]
  BY DEF ErrorFate
<1> HIDE DEF L, G
<1> QED
  BY <1>1, <1>2 DEF D!Fail

LEMMA ConfirmedIs ==
  ASSUME IInv, AsideInv, NEW x \in Items, NEW took \in BOOLEAN, Confirmed(x, took)
  PROVE  DeliveryStep /\ AsideInv'
<1> DEFINE o == IF took THEN "id" ELSE ErrorFate(x)
<1>1. /\ <<x, took>> \in answers /\ Settle(x, o)
      /\ UNCHANGED <<config, call, wire, queue, dropped, after>>
  BY DEF Confirmed, startVars
<1>2. /\ Begun(x[1]) /\ Confirms(call[x[1]].by) /\ FateOf(x) = "sent"
      /\ call[x[1]].by \in Producers
      /\ took => x \in dropped \/ OnQueue(x)
  BY <1>1, ItemIs, ByWhom DEF IInv, AnswerInv, Kept
<1>3. FateOf(x)' = o /\ \A y \in Items \ {x} : SameFate(y)
  <2>1. o \in {"id", "error", "rejected"}
    BY DEF ErrorFate
  <2>2. /\ x[1] \in Calls /\ x[2] \in Positions(x[1]) /\ x = <<x[1], x[2]>>
        /\ fate[x[1]][x[2]] = "sent" /\ call' = call
    BY <1>1, <1>2, ItemIs DEF FateOf
  <2>3. Settle(<<x[1], x[2]>>, o)
    BY <1>1, <2>2
  <2> HIDE DEF o
  <2>4. /\ FateOf(<<x[1], x[2]>>)' = o
        /\ \A y \in Items \ {<<x[1], x[2]>>} : SameFate(y)
    BY <2>1, <2>2, <2>3, SettleFates
  <2> QED
    BY <2>2, <2>4
<1>4. \A y : /\ OnQueue(y)' <=> OnQueue(y)
             /\ \A q : OnWire(y, q)' <=> OnWire(y, q)
  BY <1>1 DEF OnQueue, OnWire
<1>5. \A y \in Items \ {x} : PlaceOf(y)' = PlaceOf(y) /\ ToldOf(y)' = ToldOf(y)
  BY <1>1, <1>3, <1>4, SamePlace
<1>6. o \notin Unsent \cup {"sent"}
  BY DEF ErrorFate, Unsent
<1>7. /\ PlaceOf(x)' = PlaceOf(x) /\ PlaceOf(x) # "held"
      /\ ToldOf(x) = "open" /\ ToldOf(x)' = o
      /\ took => PlaceOf(x) \in {"queued", "dropped"}
  BY <1>1, <1>2, <1>3, <1>4, <1>6 DEF PlaceOf, ToldOf, Unsent
<1>8. Confirming' = Confirming /\ x[1] \in Confirming
  BY <1>1, <1>2, ItemIs, SameConfirming DEF Confirming, Begun
<1>9. ASSUME took PROVE DeliveryStep
  <2>1. /\ [y \in Items |-> PlaceOf(y)]' = [y \in Items |-> PlaceOf(y)]
        /\ [y \in Items |-> ToldOf(y)]'
             = [[y \in Items |-> ToldOf(y)] EXCEPT ![x] = "id"]
    BY <1>5, <1>7, <1>9, OneMoves
  <2>2. D!Confirm(x)
    BY <1>1, <1>7, <1>8, <1>9, <2>1, Mapped DEF D!Confirm
  <2> QED
    BY <2>2 DEF DeliveryStep, D!DeliveryNext
<1>10. ASSUME ~took PROVE DeliveryStep
  <2>1. D!Fail(call[x[1]].by)
    BY <1>1, <1>2, <1>5, <1>7, <1>8, <1>10, FailIs
  <2> QED
    BY <1>2, <2>1 DEF DeliveryStep, D!DeliveryNext
<1>11. AsideInv'
  <2>1. \A y \in Items : FateOf(y) \in Unsent \/ FateOf(y)' \notin Unsent
    BY <1>3, <1>6 DEF SameFate
  <2> QED
    BY <1>1, <1>4, <2>1, AsideKeeps
<1> QED
  BY <1>9, <1>10, <1>11

LEMMA LosesIsFail ==
  ASSUME IInv, AsideInv, NEW p \in Producers, LosesChannel(p), config' = config,
         wire' \in {wire, [wire EXCEPT ![p] = <<>>]}
  PROVE  D!Fail(p) /\ AsideInv'
<1>1. UNCHANGED <<call, queue, dropped, after>>
  BY DEF LosesChannel
<1>2. \A y \in Items :
        \/ SameFate(y)
        \/ y \in Of(p) /\ FateOf(y) = "sent" /\ FateOf(y)' = ErrorFate(y)
  BY LosesFates
<1>3. /\ \A y : OnWire(y, p)' => OnWire(y, p)
      /\ \A y, q : q \in Producers \ {p} => (OnWire(y, q)' <=> OnWire(y, q))
  <2>1. wire \in [Producers -> Seq(Items)]
    BY DEF IInv, ProducerTypeOK
  <2>2. CASE wire' = wire
    BY <2>2 DEF OnWire
  <2>3. CASE wire' = [wire EXCEPT ![p] = <<>>]
    <3>1. wire'[p] = <<>> /\ \A q \in Producers \ {p} : wire'[q] = wire[q]
      BY <2>1, <2>3
    <3>2. DOMAIN <<>> = {}
      BY EmptySeq
    <3> QED
      BY <3>1, <3>2 DEF OnWire
  <2> QED
    BY <2>2, <2>3
<1>4. ASSUME NEW y \in Items
      PROVE  /\ (FateOf(y) \in Unsent) <=> (FateOf(y)' \in Unsent)
             /\ \/ ToldOf(y)' = ToldOf(y)
                \/ /\ PlaceOf(y) # "held" /\ ToldOf(y) = "open"
                   /\ call[y[1]].by = p /\ ToldOf(y)' = ErrorFate(y)
  <2>1. ErrorFate(y) \notin Unsent \cup {"sent"}
    BY DEF ErrorFate, Unsent
  <2>2. CASE SameFate(y)
    BY <2>2 DEF SameFate, ToldOf
  <2>3. CASE y \in Of(p) /\ FateOf(y) = "sent" /\ FateOf(y)' = ErrorFate(y)
    BY <2>1, <2>3 DEF PlaceOf, ToldOf, Of, Unsent
  <2> QED
    BY <1>2, <2>2, <2>3
<1>5. ASSUME NEW y \in Items
      PROVE  \/ PlaceOf(y)' = PlaceOf(y)
             \/ PlaceOf(y) = "sent" /\ call[y[1]].by = p /\ PlaceOf(y)' = "gone"
  <2>1. (OnQueue(y)' <=> OnQueue(y)) /\ ((y \in dropped') <=> (y \in dropped))
    BY <1>1 DEF OnQueue
  <2>2. CASE OnWire(y, p)
    <3>1. /\ call[y[1]].by = p /\ FateOf(y) \notin Unsent
          /\ ~OnQueue(y) /\ y \notin dropped /\ PlaceOf(y) = "sent"
      BY <2>2, WhereItIs
    <3> QED
      BY <1>4, <2>1, <3>1 DEF PlaceOf
  <2>3. CASE ~OnWire(y, p)
    <3>1. \A q \in Producers : OnWire(y, q)' <=> OnWire(y, q)
      BY <1>3, <2>3
    <3> QED
      BY <1>4, <2>1, <3>1 DEF PlaceOf
  <2> QED
    BY <2>2, <2>3
<1>6. Confirming' = Confirming
  BY <1>1, SameConfirming
<1>7. D!Fail(p)
  BY <1>1, <1>4, <1>5, <1>6, FailIs
<1>8. AsideInv'
  <2>1. \A y \in dropped, q \in Producers : OnWire(y, q)' => OnWire(y, q)
    BY <1>3
  <2> QED
    BY <1>1, <1>4, <2>1, AsideKeeps
<1> QED
  BY <1>7, <1>8

\* The broker reads x, the first on p's channel.
LEMMA RouteIs ==
  ASSUME IInv, AsideInv, NEW p \in Producers, Route(p)
  PROVE  DeliveryStep /\ AsideInv'
<1>0. /\ WireInv /\ OrderInv /\ AfterInv /\ ProducerTypeOK
      /\ wire \in [Producers -> Seq(Items)] /\ queue \in Seq(Items)
      /\ dropped \subseteq Items
  BY DEF IInv, ProducerTypeOK
<1>1. wire[p] \in Seq(Items) /\ wire[p] # <<>>
  BY <1>0 DEF Route
<1>2. PICK x : x = Head(wire[p])
  OBVIOUS
<1>3. /\ x \in Items /\ wire[p][1] = x /\ 1 \in DOMAIN wire[p]
      /\ OnWire(x, p)
  BY <1>1, <1>2, Shrink DEF OnWire
<1>4. /\ Begun(x[1]) /\ call[x[1]].by = p /\ FateOf(x) \notin Unsent
      /\ ~OnQueue(x) /\ x \notin dropped /\ PlaceOf(x) = "sent"
  BY <1>3, WhereItIs
<1>5. /\ wire' = [wire EXCEPT ![p] = Tail(@)]
      /\ UNCHANGED <<config, call, fate, after>>
  BY DEF Route, startVars
<1>6. \/ queue' = Append(queue, x) /\ dropped' = dropped
      \/ queue' = queue /\ dropped' = dropped
      \/ queue' = queue /\ dropped' = dropped \cup {x}
  BY <1>2 DEF Route
<1>7. ASSUME NEW i \in DOMAIN wire[p], wire[p][i] # x PROVE i > 1
  <2>1. DOMAIN wire[p] = 1 .. Len(wire[p])
    BY <1>1
  <2> QED
    BY <1>3, <1>7, <2>1
<1>8. /\ \A q \in Producers : ~OnWire(x, q)'
      /\ \A y \in Items \ {x}, q \in Producers : OnWire(y, q)' <=> OnWire(y, q)
  <2>1. wire'[p] = Tail(wire[p]) /\ \A q \in Producers \ {p} : wire'[q] = wire[q]
    BY <1>0, <1>5
  <2>2. /\ DOMAIN wire[p] = 1 .. Len(wire[p]) /\ Len(wire[p]) \in Nat
        /\ DOMAIN Tail(wire[p]) = 1 .. Len(wire[p]) - 1
        /\ \A i \in 1 .. Len(wire[p]) - 1 : Tail(wire[p])[i] = wire[p][i + 1]
    BY <1>1, HeadTailProperties, LenProperties, EmptySeq
  <2>3. \A i \in DOMAIN wire'[p] : /\ i + 1 \in DOMAIN wire[p] /\ i + 1 > 1
                                   /\ wire'[p][i] = wire[p][i + 1]
    BY <2>1, <2>2
  <2>4. \A i \in DOMAIN wire[p] : i > 1 =>
          /\ i - 1 \in DOMAIN wire'[p] /\ wire'[p][i - 1] = wire[p][i]
    BY <2>1, <2>2
  <2>5. ~OnWire(x, p)'
    BY <1>0, <1>3, <2>3 DEF OnWire, OrderInv, Before
  <2>6. \A y \in Items \ {x} : OnWire(y, p)' <=> OnWire(y, p)
    BY <1>7, <2>3, <2>4 DEF OnWire
  <2>7. \A y, q : q \in Producers \ {p} => (OnWire(y, q)' <=> OnWire(y, q))
    BY <2>1 DEF OnWire
  <2>8. \A q \in Producers \ {p} : ~OnWire(x, q)
    BY <1>3, <1>4, WhereItIs
  <2> QED
    BY <2>5, <2>6, <2>7, <2>8
<1>9. \A y \in Items : FateOf(y)' = FateOf(y) /\ SameFate(y) /\ ToldOf(y)' = ToldOf(y)
  BY <1>5 DEF FateOf, SameFate, ToldOf
<1>10. /\ queue' = Append(queue, x) => OnQueue(x)'
       /\ queue' = queue => ~OnQueue(x)'
       /\ \A y \in Items \ {x} : OnQueue(y)' <=> OnQueue(y)
  <2>1. CASE queue' = Append(queue, x)
    <3>1. /\ DOMAIN queue = 1 .. Len(queue) /\ Len(queue) \in Nat
          /\ DOMAIN queue' = 1 .. Len(queue) + 1
          /\ queue'[Len(queue) + 1] = x
          /\ \A i \in DOMAIN queue : queue'[i] = queue[i]
      BY <1>0, <1>3, <2>1, Growth
    <3>2. /\ \A i \in DOMAIN queue' : i \in DOMAIN queue \/ i = Len(queue) + 1
          /\ \A i \in DOMAIN queue : i \in DOMAIN queue'
          /\ Len(queue) + 1 \in DOMAIN queue'
      BY <3>1
    <3>3. OnQueue(x)' /\ \A y \in Items \ {x} : OnQueue(y)' <=> OnQueue(y)
      BY <3>1, <3>2 DEF OnQueue
    <3>4. queue' # queue
      BY <1>4, <3>3 DEF OnQueue
    <3> QED
      BY <3>3, <3>4
  <2>2. CASE queue' = queue
    BY <1>4, <2>2 DEF OnQueue
  <2> QED
    BY <1>6, <2>1, <2>2
<1>11. \A y \in Items \ {x} : PlaceOf(y)' = PlaceOf(y) /\ ToldOf(y)' = ToldOf(y)
  <2>1. \A y \in Items \ {x} : (y \in dropped') <=> (y \in dropped)
    BY <1>6
  <2> QED
    BY <1>8, <1>9, <1>10, <2>1, SamePlace
<1>12. [y \in Items |-> ToldOf(y)]' = [y \in Items |-> ToldOf(y)]
  BY <1>9
<1>13. Confirming' = Confirming
  BY <1>5, SameConfirming
<1>14. ASSUME queue' = Append(queue, x) /\ dropped' = dropped PROVE D!Arrive(x)
  <2>1. PlaceOf(x)' = "queued"
    BY <1>3, <1>4, <1>9, <1>10, <1>14 DEF PlaceOf
  <2>2. [y \in Items |-> PlaceOf(y)]'
          = [[y \in Items |-> PlaceOf(y)] EXCEPT ![x] = "queued"]
    BY <1>3, <1>11, <2>1, OneMoves
  <2>3. ASSUME NEW y \in Items \ {x}, D!Precedes(y, x), PlaceOf(y) = "sent"
        PROVE  FALSE
    <3>1. PICK q \in Producers : OnWire(y, q)
      BY <2>3, WhereItIs
    <3>2. Begun(y[1]) /\ call[y[1]].by = q
      BY <3>1, WhereItIs
    <3>3. y[1] = x[1] \/ y[1] \in after[x[1]]
      BY <2>3 DEF D!Precedes
    <3>4. q = p
      BY <1>0, <1>3, <1>4, <3>2, <3>3, ItemIs DEF AfterInv
    <3>5. PICK j \in DOMAIN wire[p] : wire[p][j] = y
      BY <3>1, <3>4 DEF OnWire
    <3>6. j > 1
      BY <1>7, <3>5
    <3>7. Before(x, y)
      BY <1>0, <1>3, <3>5, <3>6 DEF OrderInv
    <3>8. x[2] \in Nat /\ y[2] \in Nat
      BY <1>3, ItemIs, Neighbours
    <3> QED
      BY <2>3, <3>7, <3>8 DEF D!Precedes, Before
  <2>4. \A y \in Items \ {x} :
          D!Precedes(y, x) => [z \in Items |-> PlaceOf(z)][y] # "sent"
    BY <2>3
  <2> QED
    BY <1>3, <1>4, <1>5, <1>12, <1>13, <1>14, <2>2, <2>4, Mapped DEF D!Arrive
<1>15. ASSUME queue' = queue /\ dropped' = dropped PROVE D!Fail(p)
  <2>1. PlaceOf(x)' = "gone"
    BY <1>3, <1>4, <1>8, <1>9, <1>10, <1>15 DEF PlaceOf
  <2> QED
    BY <1>4, <1>5, <1>9, <1>11, <1>13, <1>15, <2>1, FailIs
<1>16. ASSUME queue' = queue /\ dropped' = dropped \cup {x} PROVE D!Drop(x)
  <2>1. PlaceOf(x)' = "dropped"
    BY <1>3, <1>4, <1>9, <1>10, <1>16 DEF PlaceOf
  <2>2. [y \in Items |-> PlaceOf(y)]'
          = [[y \in Items |-> PlaceOf(y)] EXCEPT ![x] = "dropped"]
    BY <1>3, <1>11, <2>1, OneMoves
  <2> QED
    BY <1>3, <1>4, <1>5, <1>12, <1>13, <1>16, <2>2, Mapped DEF D!Drop
<1>17. DeliveryStep
  BY <1>3, <1>6, <1>14, <1>15, <1>16 DEF DeliveryStep, D!DeliveryNext
<1>18. AsideInv'
  <2>1. ASSUME NEW y \in dropped'
        PROVE  Gone(y)' /\ \A q \in Producers : ~OnWire(y, q)'
    <3>1. CASE y = x
      <4>1. Begun(x[1])' /\ FateOf(x)' \notin {"waiting", "serializing"}
        BY <1>3, <1>4, <1>5, <1>9 DEF Begun, Unsent
      <4>2. Gone(x)'
        BY <4>1 DEF Gone
      <4> QED
        BY <1>8, <3>1, <4>2 DEF Gone, Begun, FateOf, OnWire
    <3>2. CASE y # x
      <4>1. y \in dropped /\ y \in Items
        BY <1>0, <1>6, <3>2
      <4> QED
        BY <1>5, <1>8, <1>9, <3>2, <4>1 DEF AsideInv, Gone, Begun
    <3> QED
      BY <3>1, <3>2
  <2> QED
    BY <2>1 DEF AsideInv
<1> QED
  BY <1>17, <1>18

LEMMA EnqueueIs ==
  ASSUME IInv, AsideInv, NEW k \in Calls, NEW g \in Flags, Enqueue(k, g)
  PROVE  D!Enqueue(k, g) /\ AsideInv'
<1>0. /\ CallInv /\ call \in [Calls -> Flags \cup {NoCall}]
      /\ fate = [l \in Calls |-> fate[l]] /\ dropped \subseteq Items
  BY DEF IInv, ProducerTypeOK
<1>1. /\ call[k] = NoCall
      /\ call' = [call EXCEPT ![k] = g]
      /\ fate' = [fate EXCEPT ![k] = [n \in Positions(k) |->
                    IF Begins(g, n) THEN "serializing" ELSE "waiting"]]
      /\ after' = [after EXCEPT ![k] =
                     {l \in Calls : Resolved(l) /\ call[l].by = g.by}]
      /\ UNCHANGED <<config, wire, queue, dropped>>
  BY DEF Enqueue, startVars
<1>2. ASSUME NEW y \in Items
      PROVE  /\ SameFate(y)
             /\ y[1] = k => FateOf(y) = "waiting"
  <2>1. CASE y[1] = k
    <3>1. FateOf(y) = "waiting"
      BY <1>0, <1>1, <2>1, ItemIs DEF CallInv, Begun, FateOf
    <3>2. FateOf(y)' \in Unsent
      BY <1>0, <1>1, <2>1, ItemIs DEF FateOf, Unsent
    <3> QED
      BY <3>1, <3>2 DEF SameFate, Unsent
  <2>2. CASE y[1] # k
    <3>1. FateOf(y)' = FateOf(y)
      BY <1>0, <1>1, <2>2, ItemIs DEF FateOf
    <3> QED
      BY <2>2, <3>1 DEF SameFate
  <2> QED
    BY <2>1, <2>2
<1>3. \A y : /\ OnQueue(y)' <=> OnQueue(y)
             /\ \A q : OnWire(y, q)' <=> OnWire(y, q)
  BY <1>1 DEF OnQueue, OnWire
<1>4. \A y \in Items : PlaceOf(y)' = PlaceOf(y) /\ ToldOf(y)' = ToldOf(y)
  BY <1>1, <1>2, <1>3, SamePlace
<1>5. /\ [y \in Items |-> PlaceOf(y)]' = [y \in Items |-> PlaceOf(y)]
      /\ [y \in Items |-> ToldOf(y)]' = [y \in Items |-> ToldOf(y)]
  BY <1>4
<1>6. Confirming' \in {Confirming, Confirming \cup {k}}
  <2>1. \A q : Confirms(q)' <=> Confirms(q)
    BY <1>1 DEF Confirms
  <2>2. \A l \in Calls \ {k} : l \in Confirming' <=> l \in Confirming
    BY <1>0, <1>1, <2>1 DEF Confirming, Confirms
  <2>3. Confirming \subseteq Calls /\ Confirming' \subseteq Calls /\ k \notin Confirming
    BY <1>1 DEF Confirming
  <2> QED
    BY <2>2, <2>3
<1>7. \A l \in Calls :
        Resolved(l) <=> \A y \in D!ItemsOf(l) :
                          [z \in Items |-> ToldOf(z)][y] \in D!Done
  <2> SUFFICES ASSUME NEW l \in Calls
               PROVE  Resolved(l) <=> \A y \in D!ItemsOf(l) :
                                        [z \in Items |-> ToldOf(z)][y] \in D!Done
    OBVIOUS
  <2>1. ASSUME NEW n \in Positions(l)
        PROVE  /\ <<l, n>> \in D!ItemsOf(l)
               /\ fate[l][n] \in {"id", "error"} <=> ToldOf(<<l, n>>) \in {"id", "error"}
    BY IsItem DEF D!ItemsOf, ToldOf, FateOf, Unsent
  <2>2. \A y \in D!ItemsOf(l) : y \in Items /\ y[2] \in Positions(l) /\ y = <<l, y[2]>>
    BY ItemIs DEF D!ItemsOf
  <2> QED
    BY <2>1, <2>2, Mapped DEF Resolved, D!Done
<1>8. {l \in Calls : Resolved(l) /\ call[l].by = g.by}
        = {l \in Calls : call[l].by = g.by /\ \A y \in D!ItemsOf(l) :
                           [z \in Items |-> ToldOf(z)][y] \in D!Done}
  BY <1>7
<1>9. D!Enqueue(k, g)
  BY <1>1, <1>5, <1>6, <1>8 DEF D!Enqueue
<1>10. AsideInv'
  <2>1. ASSUME NEW y \in dropped'
        PROVE  Gone(y)' /\ \A q \in Producers : ~OnWire(y, q)'
    <3>1. y \in dropped /\ y \in Items /\ y[1] \in Calls
      BY <1>0, <1>1, ItemIs
    <3>2. Gone(y) /\ \A q \in Producers : ~OnWire(y, q)
      BY <3>1 DEF AsideInv
    <3>3. y[1] # k
      BY <1>1, <3>2 DEF Gone, Begun
    <3>4. Begun(y[1])'
      BY <1>0, <1>1, <3>1, <3>2, <3>3 DEF Gone, Begun
    <3>5. FateOf(y)' \notin {"waiting", "serializing"}
      BY <1>2, <3>1, <3>2 DEF SameFate, Gone, Unsent
    <3> QED
      BY <1>3, <3>2, <3>4, <3>5 DEF Gone
  <2> QED
    BY <2>1 DEF AsideInv
<1> QED
  BY <1>9, <1>10

\* Boot moves no item, and calls are made when it is over.
LEMMA BootMovesNothing ==
  ASSUME IInv, AsideInv, UNCHANGED callVars,
         \/ config' = config
         \/ \E i \in Instances : \E g \in Configs[i] : Initialize(i, g)
  PROVE  DeliveryStep /\ AsideInv'
<1>0. /\ CallInv /\ call \in [Calls -> Flags \cup {NoCall}]
      /\ config \in [Instances -> Configurations \cup {NoConfig}]
  BY DEF IInv, ProducerTypeOK, StartupTypeOK
<1>1. UNCHANGED <<call, after, queue, dropped, wire, fate>>
  BY DEF callVars
<1>2. ASSUME NEW k \in Calls, Begun(k) PROVE Confirms(call[k].by)' <=> Confirms(call[k].by)
  <2>1. CASE config' = config
    BY <1>1, <2>1 DEF Confirms
  <2>2. ASSUME NEW i \in Instances, NEW g \in Configs[i], Initialize(i, g)
        PROVE  config'[call[k].by] = config[call[k].by]
    <3>1. boot[i] = "new" /\ config' = [config EXCEPT ![i] = g]
      BY <2>2 DEF Initialize
    <3>2. boot[call[k].by] \in {"up", "exited"}
      BY <1>0, <1>2 DEF CallInv
    <3> QED
      BY <1>0, <3>1, <3>2
  <2> QED
    BY <1>1, <2>1, <2>2 DEF Confirms
<1>3. Confirming' = Confirming
  BY <1>1, <1>2 DEF Confirming, Begun
<1>4. \A y \in Items : SameFate(y)
  BY <1>1 DEF SameFate, FateOf
<1>5. DeliveryStep
  BY <1>1, <1>3, <1>4, NothingMoves
<1>6. AsideInv'
  BY <1>1 DEF AsideInv, Gone, Begun, FateOf, OnWire
<1> QED
  BY <1>5, <1>6

LEMMA NextIsDeliveryStep ==
  ASSUME IInv, AsideInv, [Next]_vars
  PROVE  DeliveryStep /\ AsideInv'
<1>1. CASE StartupNext /\ UNCHANGED callVars
  <2>1. \/ config' = config
        \/ \E i \in Instances : \E g \in Configs[i] : Initialize(i, g)
    BY <1>1 DEF StartupNext, Connect, CreateChannel, AssertQueue, Coordinate, Dies
  <2> QED
    BY <1>1, <2>1, BootMovesNothing
<1>2. ASSUME NEW i \in Instances, Fails(i) PROVE DeliveryStep /\ AsideInv'
  <2>1. config' = config
    BY <1>2 DEF Fails, ChannelError, ConnectionError, HandleFatalError
  <2>2. CASE i \in Producers /\ wire' = [wire EXCEPT ![i] = <<>>] /\ LosesChannel(i)
    BY <2>1, <2>2, LosesIsFail DEF DeliveryStep, D!DeliveryNext
  <2>3. CASE i \in Consumers /\ UNCHANGED callVars
    BY <2>1, <2>3, BootMovesNothing
  <2> QED
    BY <1>2, <2>2, <2>3 DEF Fails
<1>3. CASE Declare
  BY <1>3, BootMovesNothing DEF Declare
<1>4. ASSUME NEW k \in Calls, NEW g \in Flags, Enqueue(k, g)
      PROVE  DeliveryStep /\ AsideInv'
  BY <1>4, EnqueueIs DEF DeliveryStep, D!DeliveryNext
<1>5. ASSUME NEW k \in Calls, NEW n \in Positions(k),
             Send(k, n) \/ SerializerThrows(k, n)
      PROVE  DeliveryStep /\ AsideInv'
  <2>1. <<k, n>> \in Items
    BY IsItem
  <2>2. CASE Send(k, n) /\ chan[call[k].by] = "open"
    BY <2>1, <2>2, SendIsSend DEF DeliveryStep, D!DeliveryNext
  <2>3. CASE \/ Send(k, n) /\ chan[call[k].by] # "open"
             \/ SerializerThrows(k, n)
    <3>1. Serialized(k, n) /\ Settle(<<k, n>>, "rejected") /\ wire' = wire
      BY <2>3 DEF Send, SerializerThrows
    <3> QED
      BY <2>1, <3>1, RejectIsRefuse DEF DeliveryStep, D!DeliveryNext
  <2> QED
    BY <1>5, <2>2, <2>3
<1>6. ASSUME NEW x \in Items, NEW took \in BOOLEAN, Confirmed(x, took)
      PROVE  DeliveryStep /\ AsideInv'
  BY <1>6, ConfirmedIs
<1>7. ASSUME NEW p \in Producers, Route(p) \/ Shutdown(p)
      PROVE  DeliveryStep /\ AsideInv'
  <2>1. CASE Route(p)
    BY <2>1, RouteIs
  <2>2. CASE Shutdown(p)
    <3>1. LosesChannel(p) /\ config' = config /\ wire' = wire
      BY <2>2 DEF Shutdown
    <3> QED
      BY <3>1, LosesIsFail DEF DeliveryStep, D!DeliveryNext
  <2> QED
    BY <1>7, <2>1, <2>2
<1>8. CASE UNCHANGED vars
  BY <1>8, BootMovesNothing DEF vars, startVars
<1> QED
  BY <1>1, <1>2, <1>3, <1>4, <1>5, <1>6, <1>7, <1>8, RequestIs DEF Next

LEMMA InitIsDeliveryInit == Init => D!DeliveryInit /\ AsideInv
<1> SUFFICES ASSUME Init
             PROVE  D!DeliveryInit /\ AsideInv
  OBVIOUS
<1>1. \A y \in Items : FateOf(y) = "waiting"
  BY ItemIs DEF Init, FateOf
<1>2. \A y \in Items : PlaceOf(y) = "held" /\ ToldOf(y) = "open"
  BY <1>1 DEF PlaceOf, ToldOf, Unsent
<1>3. Confirming = {}
  BY DEF Init, Confirming
<1>4. AsideInv
  BY DEF Init, AsideInv
<1> QED
  BY <1>2, <1>3, <1>4 DEF Init, D!DeliveryInit

\* Every step of boot, channels, confirms and serializers is a step of
\* Delivery or none: enqueue sends an item at most once and in its turn, the
\* queue has it at most once and behind what precedes it, and its caller is
\* told once (ToRabbitMQBucketQueue.ts:54-116).
THEOREM ImplementsTheDelivery == Spec => ImplementsDelivery
<1>1. Init => IInv /\ AsideInv /\ D!DeliveryInit
  BY InitStep, InitIsDeliveryInit
<1>2. IInv /\ AsideInv /\ [Next]_vars => IInv' /\ AsideInv'
  BY NextStep, NextIsDeliveryStep
<1>3. IInv /\ AsideInv /\ [Next]_vars => [D!DeliveryNext]_(D!deliveryVars)
  BY NextIsDeliveryStep DEF DeliveryStep
<1> QED
  BY <1>1, <1>2, <1>3, PTL DEF Spec, ImplementsDelivery, D!DeliverySpec
=============================================================================
