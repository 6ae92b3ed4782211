--------------------------- MODULE SlidingBucket ---------------------------
(***************************************************************************)
(* The coordinators that keep one entry per increment and let it expire:   *)
(* src/coordinators/database.ts (a row with expires_at) and                *)
(* src/coordinators/redis.ts (a key with a time to live).  The window      *)
(* slides: quota returns entry by entry, an interval after each increment. *)
(*                                                                         *)
(* Consumers keep the discipline of Bucket: take quota when nothing is     *)
(* owed, use it, count it.  A slot stands for one use of quota and is free *)
(* again once the use is out of every window.  An increment's entry is the *)
(* set of its slots, which expire together.  The database compares         *)
(* expires_at with the clock of the process that reads or writes; Redis    *)
(* counts down by its own clock, and reads and resets in two calls.        *)
(***************************************************************************)
EXTENDS Integers, FiniteSets

CONSTANTS
  Consumers,   \* the processes that share the coordinator
  Slots,       \* numbered slots for the uses still remembered (a bound)
  MaxBatch,    \* the quota of any interval
  Interval,    \* its length, in ticks of the clock
  MaxSkew,     \* how far clocks of two processes may be apart
  Drivers,     \* the drivers examined: "database", "redis"
  MaxFaults    \* bound: crashes and failed increments

ASSUME SlidingAssumption ==
  /\ IsFiniteSet(Slots) /\ Slots \subseteq Nat
  /\ "nobody" \notin Consumers
  /\ MaxBatch \in Nat \ {0}
  /\ Interval \in Nat \ {0}
  /\ MaxSkew \in Nat
  /\ Drivers \subseteq {"database", "redis"}
  /\ MaxFaults \in Nat

VARIABLES
  driver,  \* the driver in use; never changes
  skew,    \* skew[c]: how far c's clock is ahead of the slowest; never changes
  claim,   \* claim[c]: quota taken and not used
  mode,    \* mode[c]: "rest", or "reading" between KEYS and MGET
  keys,    \* keys[c]: the slots of the keys that KEYS returned
  doomed,  \* the slots of the keys that a reset is about to delete
  phase,   \* phase[i]: what became of the use in slot i
  by,      \* by[i]: the consumer that made it, "nobody" for a free slot
  age,     \* age[i]: ticks since it was made, up to Interval
  left,    \* left[i]: ticks until the slowest clock reaches its expiry
  faults   \* bound on the faults so far

reading == <<claim, mode, keys>>
slotVars == <<phase, by, age, left>>
slidingVars == <<driver, skew, reading, doomed, slotVars, faults>>

\* owed: used and not counted; sent: the INSERT is under way; entry: in the
\* store, expired or not; lost: it will never be counted.
SlotPhases == {"free", "owed", "sent", "entry", "lost"}

SlidingTypeOK ==
  /\ driver \in Drivers
  /\ skew \in [Consumers -> 0 .. MaxSkew]
  /\ claim \in [Consumers -> 0 .. MaxBatch]
  /\ mode \in [Consumers -> {"rest", "reading"}]
  /\ keys \in [Consumers -> SUBSET Slots]
  /\ doomed \in SUBSET Slots
  /\ phase \in [Slots -> SlotPhases]
  /\ by \in [Slots -> Consumers \cup {"nobody"}]
  /\ age \in [Slots -> 0 .. Interval]
  /\ left \in [Slots -> 0 .. Interval + MaxSkew]
  /\ faults \in 0 .. MaxFaults

SlidingInit ==
  /\ driver \in Drivers
  /\ skew \in [Consumers -> IF driver = "redis" THEN {0} ELSE 0 .. MaxSkew]
  /\ \E c \in Consumers : skew[c] = 0
  /\ claim = [c \in Consumers |-> 0]
  /\ mode = [c \in Consumers |-> "rest"]
  /\ keys = [c \in Consumers |-> {}]
  /\ doomed = {}
  /\ phase = [i \in Slots |-> "free"]
  /\ by = [i \in Slots |-> "nobody"]
  /\ age = [i \in Slots |-> 0]
  /\ left = [i \in Slots |-> 0]
  /\ faults = 0

-----------------------------------------------------------------------------
(* What a process sees of the store.                                       *)

\* By how much an expiry set or read by c differs from the slowest clock.
Clock(c) == IF driver = "redis" THEN 0 ELSE skew[c]

Entries == {i \in Slots : phase[i] = "entry"}

\* Mutant: the balance without its condition on expires_at.
ExpiredToo(c, l) == TRUE
\* Whether c sees an entry that the slowest clock gives l more ticks.
Unexpired(c, l) == l > Clock(c)

Sees(c) == {i \in Entries : Unexpired(c, left[i])}

Uncounted(c) == {i \in Slots : by[i] = c /\ phase[i] \in {"owed", "sent"}}

\* Mutant: without the lower bound.
RemainingUnclamped(S) == MaxBatch - Cardinality(S)
\* maxBatch minus the sum of the counts, and at least 0.
Remaining(S) == IF Cardinality(S) >= MaxBatch THEN 0 ELSE MaxBatch - Cardinality(S)

-----------------------------------------------------------------------------
(* Reading the balance, and resetting.                                     *)

Settled(c) == claim[c] = 0 /\ Uncounted(c) = {} /\ mode[c] = "rest"

\* The database answers one query.
Read(c) ==
  /\ driver = "database"
  /\ Settled(c)
  /\ claim' = [claim EXCEPT ![c] = Remaining(Sees(c))]
  /\ UNCHANGED <<driver, skew, mode, keys, doomed, slotVars, faults>>

\* KEYS.  No key means no use: the whole quota.
Keys(c) ==
  /\ driver = "redis"
  /\ Settled(c)
  /\ IF Sees(c) = {}
       THEN /\ claim' = [claim EXCEPT ![c] = MaxBatch]
            /\ UNCHANGED <<mode, keys>>
       ELSE /\ mode' = [mode EXCEPT ![c] = "reading"]
            /\ keys' = [keys EXCEPT ![c] = Sees(c)]
            /\ UNCHANGED claim
  /\ UNCHANGED <<driver, skew, doomed, slotVars, faults>>

\* Mutant: the values summed up to the first key that is gone.
MgetStopping(c) ==
  /\ mode[c] = "reading"
  /\ mode' = [mode EXCEPT ![c] = "rest"]
  /\ claim' = [claim EXCEPT ![c] =
                 IF keys[c] \subseteq Sees(c) THEN Remaining(keys[c]) ELSE MaxBatch]
  /\ keys' = [keys EXCEPT ![c] = {}]
  /\ UNCHANGED <<driver, skew, doomed, slotVars, faults>>

\* MGET.  A listed key that is gone makes the sum NaN, and a balance of NaN
\* is not > 0: the tick takes nothing.
Mget(c) ==
  /\ mode[c] = "reading"
  /\ mode' = [mode EXCEPT ![c] = "rest"]
  /\ claim' = [claim EXCEPT ![c] =
                 IF keys[c] \subseteq Sees(c) THEN Remaining(keys[c]) ELSE 0]
  /\ keys' = [keys EXCEPT ![c] = {}]
  /\ UNCHANGED <<driver, skew, doomed, slotVars, faults>>

\* The slots of S become free.
Forget(S) ==
  /\ phase' = [i \in Slots |-> IF i \in S THEN "free" ELSE phase[i]]
  /\ by' = [i \in Slots |-> IF i \in S THEN "nobody" ELSE by[i]]
  /\ age' = [i \in Slots |-> IF i \in S THEN 0 ELSE age[i]]
  /\ left' = [i \in Slots |-> IF i \in S THEN 0 ELSE left[i]]

\* reset of the database: one DELETE, of the entries that are there.
ResetEntries ==
  /\ driver = "database"
  /\ Entries # {}
  /\ Forget(Entries)
  /\ UNCHANGED <<driver, skew, reading, doomed, faults>>

\* reset of Redis: KEYS, then DEL of what it listed.  One reset at a time.
ResetKeys(c) ==
  /\ driver = "redis"
  /\ doomed = {}
  /\ Sees(c) # {}
  /\ doomed' = Sees(c)
  /\ UNCHANGED <<driver, skew, reading, slotVars, faults>>

ResetDel ==
  /\ doomed # {}
  /\ Forget(doomed \cap Entries)
  /\ doomed' = {}
  /\ UNCHANGED <<driver, skew, reading, faults>>

-----------------------------------------------------------------------------
(* Using quota, and counting the uses.                                     *)

\* A tick uses quota item by item, or gives it back.
Use(c) ==
  /\ claim[c] > 0
  /\ claim' = [claim EXCEPT ![c] = @ - 1]
  /\ \E i \in Slots :
       /\ phase[i] = "free"
       /\ \A j \in Slots : j < i => phase[j] # "free"
       /\ phase' = [phase EXCEPT ![i] = "owed"]
       /\ by' = [by EXCEPT ![i] = c]
  /\ UNCHANGED <<driver, skew, mode, keys, doomed, age, left, faults>>

GiveBack(c) ==
  /\ claim[c] > 0
  /\ claim' = [claim EXCEPT ![c] = 0]
  /\ UNCHANGED <<driver, skew, mode, keys, doomed, slotVars, faults>>

Owed(c) == {i \in Slots : by[i] = c /\ phase[i] = "owed"}
Sent(c) == {i \in Slots : by[i] = c /\ phase[i] = "sent"}

\* Mutant: a time to live one tick short, as by rounding down.
ExpiryShort(c) == Interval - 1 + Clock(c)
\* expires_at = now + interval by c's clock; the time to live in Redis.
Expiry(c) == Interval + Clock(c)

\* increment: the expiry is computed.  SETEX does it in the step that stores
\* the entry, the database before the INSERT is sent.
Increment(c) ==
  \E S \in SUBSET Owed(c) \ {{}} :
    /\ phase' = [i \in Slots |->
                   IF i \notin S THEN phase[i]
                   ELSE IF driver = "redis" THEN "entry" ELSE "sent"]
    /\ left' = [i \in Slots |-> IF i \in S THEN Expiry(c) ELSE left[i]]
    /\ UNCHANGED <<driver, skew, reading, doomed, by, age, faults>>

\* The INSERT arrives.
Insert(c) ==
  \E S \in SUBSET Sent(c) \ {{}} :
    /\ phase' = [i \in Slots |-> IF i \in S THEN "entry" ELSE phase[i]]
    /\ UNCHANGED <<driver, skew, reading, doomed, by, age, left, faults>>

\* The increment of some uses fails, and nobody repeats it.
IncrementFails(c) ==
  /\ faults < MaxFaults
  /\ faults' = faults + 1
  /\ \E S \in SUBSET Uncounted(c) \ {{}} :
       phase' = [i \in Slots |-> IF i \in S THEN "lost" ELSE phase[i]]
  /\ UNCHANGED <<driver, skew, reading, doomed, by, age, left>>

\* The process dies, and is started again; what it had sent arrived or not.
Crash(c) ==
  /\ faults < MaxFaults
  /\ faults' = faults + 1
  /\ claim' = [claim EXCEPT ![c] = 0]
  /\ mode' = [mode EXCEPT ![c] = "rest"]
  /\ keys' = [keys EXCEPT ![c] = {}]
  /\ \E S \in SUBSET Sent(c) :
       phase' = [i \in Slots |-> IF i \in S THEN "entry"
                                 ELSE IF i \in Uncounted(c) THEN "lost"
                                 ELSE phase[i]]
  /\ UNCHANGED <<driver, skew, doomed, by, age, left>>

-----------------------------------------------------------------------------
(* Time.                                                                   *)

Older(i) == IF phase[i] # "free" /\ age[i] < Interval THEN age[i] + 1 ELSE age[i]
Nearer(i) == IF left[i] > 0 THEN left[i] - 1 ELSE 0

\* A use is over for everybody: out of every window, and its entry expired
\* for everybody.  Nothing calls declutter: the row itself stays.
Over(i) ==
  /\ Older(i) = Interval
  /\ \/ phase[i] = "lost"
     \/ phase[i] = "entry" /\ \A c \in Consumers : ~Unexpired(c, Nearer(i))

TimePasses ==
  /\ phase' = [i \in Slots |-> IF Over(i) THEN "free" ELSE phase[i]]
  /\ by' = [i \in Slots |-> IF Over(i) THEN "nobody" ELSE by[i]]
  /\ age' = [i \in Slots |-> IF Over(i) THEN 0 ELSE Older(i)]
  /\ left' = [i \in Slots |-> IF Over(i) THEN 0 ELSE Nearer(i)]
  /\ UNCHANGED <<driver, skew, reading, doomed, faults>>

Work(c) ==
  \/ Read(c) \/ Keys(c) \/ Mget(c)
  \/ Use(c) \/ GiveBack(c) \/ Increment(c) \/ Insert(c)

SlidingNext ==
  \/ \E c \in Consumers :
       Work(c) \/ ResetKeys(c) \/ IncrementFails(c) \/ Crash(c)
  \/ ResetEntries \/ ResetDel \/ TimePasses

\* A process goes on with its tick, the store answers, and time passes.
\* Nothing makes anybody reset.
SlidingSpec ==
  /\ SlidingInit
  /\ [][SlidingNext]_slidingVars
  /\ \A c \in Consumers : WF_slidingVars(Work(c))
  /\ WF_slidingVars(TimePasses)

-----------------------------------------------------------------------------
(* Properties.                                                             *)

\* Uses by c in the last interval that c counted or will count.
Window(c) ==
  {i \in Slots : by[i] = c /\ age[i] < Interval /\ phase[i] \in {"owed", "sent", "entry"}}

\* The rate limit as the sliding drivers keep it: in any interval, wherever
\* it begins, a consumer uses no more than one quota, apart from uses whose
\* count was lost or reset, whatever clocks the others have and however
\* reads, increments and resets interleave (README.md:4).
WindowBound == \A c \in Consumers : Cardinality(Window(c)) + claim[c] <= MaxBatch

\* How much earlier than an interval reader c may take w's entry as expired.
Lag(c, w) == IF Clock(c) > Clock(w) THEN Clock(c) - Clock(w) ELSE 0

\* The uses of all consumers that c's read has to respect: in the store when
\* the read begins, still there when it ends, and young by c's clock.
Known(c) ==
  {i \in IF mode[c] = "reading" THEN keys[c] ELSE Slots :
     phase[i] = "entry" /\ age[i] + Lag(c, by[i]) < Interval}

\* A consumer never takes quota that another one has used and counted within
\* the interval, but for the difference of their clocks (database.ts:82,
\* redis.ts:83-93).
CountsAreSeen ==
  [][\A c \in Consumers :
       claim'[c] > claim[c] => claim'[c] + Cardinality(Known(c)) <= MaxBatch]_slidingVars

\* Quota comes back: however reads meet expiring keys, sooner or later some
\* consumer gets quota again.
QuotaComesBack == []<>(\E c \in Consumers : claim[c] > 0)
=============================================================================
