------------------------------ MODULE Startup ------------------------------
(***************************************************************************)
(* How an instance of either class comes up: initialize and #doBoot of     *)
(* src/RabbitMQToBucketQueue.ts (the consumers) and of                     *)
(* src/ToRabbitMQBucketQueue.ts (the producers), with the errors of the    *)
(* channel and the connection that arrive meanwhile and afterwards.        *)
(*                                                                         *)
(* Repairs names the defects of boot that an instance of this module takes *)
(* as mended, to reach the code behind them; the code as it is has {}.     *)
(*   ownChannel  validation lets a configuration without rmqChannel pass   *)
(*   booted      #doBoot sets #booted                                      *)
(*   serializer  #doBoot keeps the serializeItem of the configuration      *)
(***************************************************************************)
EXTENDS Naturals

CONSTANTS
  Consumers,      \* instances of RabbitMQToBucketQueue
  Producers,      \* instances of ToRabbitMQBucketQueue
  Configs,        \* Configs[i]: the configurations i may be given
  Repairs,
  ErrorListener   \* whether the application listens to the 'error' event

Instances == Consumers \cup Producers
BuiltIn == {"memory", "redis", "mqtt", "database", "lite"}

\* channel is rmqChannel, stale whether that one is closed already; both is
\* the two callbacks together, rest every other constraint together.
Configurations ==
  [channel : {"none", "channel", "confirmChannel"}, stale : BOOLEAN,
   queueType : {"queue", "confirmQueue", "channel", "confirmChannel"},
   coordinator : BuiltIn \cup {"instance", "unknown"},
   both : BOOLEAN, rest : BOOLEAN]

ASSUME StartupAssumption ==
  /\ Consumers \cap Producers = {}
  /\ Configs \in [Consumers \cup Producers -> SUBSET Configurations]
  /\ Repairs \subseteq {"ownChannel", "booted", "serializer"}
  /\ ErrorListener \in BOOLEAN

VARIABLES
  boot,      \* where initialize is
  config,    \* the configuration it was given
  conn,      \* #connection, for an instance that opens its own
  chan,      \* #channel
  death,     \* what the application has heard of a fatal error
  declared   \* whether the queue exists at the broker

startVars == <<boot, config, conn, chan, death, declared>>

Booting == {"connecting", "opening", "asserting", "coordinating"}
Handles == {"none", "open", "closed"}
\* missed: the events came before anybody could listen; fatal: 'fatal' was
\* heard, and 'died' is due when the coordinator has shut down.
Deaths == {"none", "missed", "fatal", "died"}
NoConfig == [channel |-> "unset"]

StartupTypeOK ==
  /\ boot \in [Instances -> Booting \cup {"new", "up", "failed", "exited"}]
  /\ config \in [Instances -> Configurations \cup {NoConfig}]
  /\ conn \in [Instances -> Handles]
  /\ chan \in [Instances -> Handles]
  /\ death \in [Instances -> Deaths]
  /\ declared \in BOOLEAN

\* The application may or may not have declared the queue itself.
StartupInit ==
  /\ boot = [i \in Instances |-> "new"]
  /\ config = [i \in Instances |-> NoConfig]
  /\ conn = [i \in Instances |-> "none"]
  /\ chan = [i \in Instances |-> "none"]
  /\ death = [i \in Instances |-> "none"]
  /\ declared \in BOOLEAN

-----------------------------------------------------------------------------
(* #validateAndSanitizeConfiguration.                                      *)

\* 'queue: true' runs the validator on an absent rmqChannel too, and it takes
\* only channels.
ChannelAccepted(g) ==
  \/ g.channel # "none"
  \/ /\ "ownChannel" \in Repairs
     /\ g.queueType \in {"queue", "confirmQueue"}

CoordinatorAccepted(g) ==
  g.coordinator \in {"memory", "redis", "mqtt", "database", "instance"}

Accepts(i, g) ==
  /\ g.rest
  /\ ChannelAccepted(g)
  /\ i \in Consumers => CoordinatorAccepted(g) /\ ~g.both

-----------------------------------------------------------------------------
(* initialize.  A rejection closes nothing that boot has opened.           *)

Reject(i) == boot' = [boot EXCEPT ![i] = "failed"]

\* What is left to do once the channel is there and its 'error' event heard:
\* ready() of a built-in coordinator, the memory one's at once.
AfterChannel(i, g) ==
  IF i \in Consumers /\ g.coordinator \notin {"memory", "instance"}
    THEN "coordinating" ELSE "up"

Initialize(i, g) ==
  /\ boot[i] = "new"
  /\ config' = [config EXCEPT ![i] = g]
  /\ \/ /\ ~Accepts(i, g)
        /\ Reject(i)
        /\ UNCHANGED chan
     \/ /\ Accepts(i, g)
        /\ g.channel = "none"
        /\ boot' = [boot EXCEPT ![i] = "connecting"]
        /\ UNCHANGED chan
     \/ /\ Accepts(i, g)
        /\ g.channel # "none"
        /\ chan' = [chan EXCEPT ![i] = IF g.stale THEN "closed" ELSE "open"]
        /\ boot' = [boot EXCEPT ![i] = AfterChannel(i, g)]
  /\ UNCHANGED <<conn, death, declared>>

\* amqplib.connect, with the 'error' event of the connection heard from here.
Connect(i) ==
  /\ boot[i] = "connecting"
  /\ \/ /\ conn' = [conn EXCEPT ![i] = "open"]
        /\ boot' = [boot EXCEPT ![i] = "opening"]
     \/ /\ Reject(i)
        /\ UNCHANGED conn
  /\ UNCHANGED <<config, chan, death, declared>>

\* createConfirmChannel or createChannel.
CreateChannel(i) ==
  /\ boot[i] = "opening"
  /\ \/ /\ chan' = [chan EXCEPT ![i] = "open"]
        /\ boot' = [boot EXCEPT ![i] = "asserting"]
     \/ /\ Reject(i)
        /\ UNCHANGED chan
  /\ UNCHANGED <<config, conn, death, declared>>

\* Mutant: assertQueue is not awaited.
AssertsLater(i) ==
  /\ boot[i] = "asserting"
  /\ boot' = [boot EXCEPT ![i] = AfterChannel(i, config[i])]
  /\ UNCHANGED <<config, conn, chan, death, declared>>

\* assertQueue; a broker whose queue has other options refuses it and closes
\* the channel.
AssertQueue(i) ==
  /\ boot[i] = "asserting"
  /\ \/ /\ boot' = [boot EXCEPT ![i] = AfterChannel(i, config[i])]
        /\ declared' = TRUE
        /\ UNCHANGED chan
     \/ /\ Reject(i)
        /\ chan' = [chan EXCEPT ![i] = "closed"]
        /\ UNCHANGED declared
  /\ UNCHANGED <<config, conn, death>>

\* ready() of the coordinator resolves, and initialize with it, or rejects.
Coordinate(i) ==
  /\ boot[i] = "coordinating"
  /\ boot' = [boot EXCEPT ![i] = "up"] \/ Reject(i)
  /\ UNCHANGED <<config, conn, chan, death, declared>>

-----------------------------------------------------------------------------
(* #handleFatalError.                                                      *)

Shut(h, i) == [h EXCEPT ![i] = IF @ = "none" THEN @ ELSE "closed"]

\* Whether closing the channel h goes without an 'error' event that nobody
\* hears: before initialize has resolved no listener can be attached.
Survives(i, h) == h # "closed" \/ (ErrorListener /\ boot[i] = "up")

\* What is heard of the handler's events, up to its first await: a consumer
\* that is up awaits its coordinator's shutdown before it emits 'died'.
Heard(i) ==
  IF boot[i] # "up" THEN "missed" ELSE IF i \in Consumers THEN "fatal" ELSE "died"

\* h is the channel as the handler finds it.  Boot goes on, except where a
\* call on the lost connection is pending: that call rejects.
HandleFatalError(i, h) ==
  /\ chan' = Shut(chan, i)
  /\ conn' = Shut(conn, i)
  /\ \/ /\ Survives(i, h)
        /\ death' = [death EXCEPT ![i] = Heard(i)]
        /\ IF boot[i] \in {"opening", "asserting"}
             THEN Reject(i) ELSE UNCHANGED boot
     \/ /\ ~Survives(i, h)
        /\ boot' = [boot EXCEPT ![i] = "exited"]
        /\ UNCHANGED death
  /\ UNCHANGED <<config, declared>>

\* The await of the coordinator's shutdown is over, if ever; a rejection is
\* emitted as an 'error'.
Dies(i) ==
  /\ i \in Consumers
  /\ boot[i] = "up"
  /\ death[i] = "fatal"
  /\ \/ /\ death' = [death EXCEPT ![i] = "died"]
        /\ UNCHANGED boot
     \/ /\ ~ErrorListener
        /\ boot' = [boot EXCEPT ![i] = "exited"]
        /\ UNCHANGED death
  /\ UNCHANGED <<config, conn, chan, declared>>

\* Mutant: the handler is attached when the coordinator is ready.
HeardWhenUp(i) ==
  /\ chan[i] = "open"
  /\ boot[i] \in {"coordinating", "up"}
  /\ IF boot[i] = "up"
       THEN HandleFatalError(i, "closed")
       ELSE /\ chan' = Shut(chan, i)
            /\ UNCHANGED <<boot, config, conn, death, declared>>

\* The broker closes the channel, and then its 'error' event comes.
ChannelError(i) ==
  /\ chan[i] = "open"
  /\ boot[i] \in {"coordinating", "up"}
  /\ HandleFatalError(i, "closed")

\* The 'error' event of the instance's own connection comes before its
\* channels are closed.
ConnectionError(i) ==
  /\ conn[i] = "open"
  /\ boot[i] \in Booting \cup {"up"}
  /\ HandleFatalError(i, chan[i])

StartupNext ==
  \E i \in Instances :
    \/ \E g \in Configs[i] : Initialize(i, g)
    \/ Connect(i)
    \/ CreateChannel(i)
    \/ AssertQueue(i)
    \/ Coordinate(i)
    \/ Dies(i)
=============================================================================
