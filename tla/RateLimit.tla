------------------------------ MODULE RateLimit ------------------------------
(***************************************************************************)
(* The token buckets in front of detection ingest (app/ratelimit.py) and   *)
(* the requests that draw on them (app/api/detections.py): every detection *)
(* of a request takes a token of its sensor's bucket, then one of its      *)
(* site's, and the first refusal rejects the whole request with 429 and a  *)
(* Retry-After.                                                            *)
(*                                                                         *)
(* allow() reads the clock BEFORE it takes the lock (in memory) or the row *)
(* lock (PostgreSQL), and so does retry_after(): the reading and its use   *)
(* are two steps here, and threads may use their readings out of order.    *)
(*                                                                         *)
(* Tokens are counted in units: a detection costs Cost of them and a       *)
(* bucket gains RateOf of them per second of the clock, so rates below one *)
(* detection a second are covered.  The first request that needs a bucket  *)
(* creates it full; the same comes out of a row that holds more than any   *)
(* burst from the start, since a refill cuts it to the burst of its user.  *)
(***************************************************************************)
EXTENDS Integers

CONSTANTS
  Thread,        \* threads, of every replica, that serve ingest requests
  Sensor,        \* sensor ids of one site
  Site,          \* str(site_id), the name of the site's own bucket
  Postgres,      \* buckets in table rate_limit_bucket, or in process memory
  Rate, Burst,   \* RATE_LIMIT_PER_SECOND, RATE_LIMIT_BURST, in units
  SiteRate, SiteBurst, \* GLOBAL_RATE_LIMIT_PER_SECOND, GLOBAL_RATE_LIMIT_BURST
  Cost,          \* the units of one detection
  MaxBatch,      \* MAX_BATCH_SIZE
  MaxTime        \* bound on the clock

\* A limiter and the name it is asked for: RateLimiter.allow(key).
SensorKey(s) == [limiter |-> "sensor", name |-> s]
SiteKey      == [limiter |-> "site", name |-> Site]
Key          == {SensorKey(s) : s \in Sensor} \cup {SiteKey}

RateOf  == [k \in Key |-> IF k = SiteKey THEN SiteRate ELSE Rate]
BurstOf == [k \in Key |-> IF k = SiteKey THEN SiteBurst ELSE Burst]

\* Where the bucket of a key is kept: each limiter has a dictionary of its own
\* in memory, but in the database both use one table, keyed by the name alone.
Row == [k \in Key |-> IF Postgres THEN k.name ELSE k]
Rows == {Row[k] : k \in Key}

\* A bug: a new bucket starts out empty.
Empty == 0

\* More than the burst of either limiter: a row nobody has used yet.
Fresh == Burst + SiteBurst

ASSUME LimitsAssumption ==
  /\ {Rate, SiteRate, Cost, MaxBatch} \subseteq Nat \ {0}
  /\ {Burst, SiteBurst, MaxTime} \subseteq Nat
  /\ Cost <= Burst /\ Cost <= SiteBurst
  /\ Postgres \in BOOLEAN

VARIABLES
  clock,         \* time.monotonic(), or the database's clock_timestamp()
  tokens,        \* of each bucket, in units
  lastRefill,    \* of each bucket
  pc,            \* what each thread does next
  sensor,        \* whose detections a thread's request holds
  left,          \* how many of them have yet to pass
  key,           \* the bucket a thread asks
  now,           \* the clock as the thread has read it
  \* history
  granted,       \* tokens each bucket has given out
  rewound,       \* how far back each bucket's lastRefill has moved, in all
  promised       \* of each bucket, the moments a Retry-After told a client to
                 \* come back at, since the last token was given out

request == <<pc, sensor, left, key, now>>
vars    == <<clock, tokens, lastRefill, request, granted, rewound, promised>>

TypeOK ==
  /\ clock \in Nat
  /\ tokens \in [Rows -> 0..Fresh]
  /\ lastRefill \in [Rows -> Nat]
  /\ pc \in [Thread -> {"idle", "read_clock", "allow", "skew", "reread_clock", "retry_after"}]
  /\ sensor \in [Thread -> Sensor]
  /\ left \in [Thread -> 0..MaxBatch]
  /\ key \in [Thread -> Key]
  /\ now \in [Thread -> Nat]
  /\ granted \in [Key -> Nat]
  /\ rewound \in [Rows -> Nat]
  /\ promised \in [Key -> SUBSET Nat]

-----------------------------------------------------------------------------
(* The bucket. *)

\* A bug: a reading older than the last refill counts as time.
ElapsedEitherWay(k, t) == IF t > lastRefill[Row[k]] THEN t - lastRefill[Row[k]] ELSE lastRefill[Row[k]] - t

Elapsed(k, t) == IF t > lastRefill[Row[k]] THEN t - lastRefill[Row[k]] ELSE 0

\* A bug: the burst does not cap what a quiet bucket gathers.
RefillUncapped(k, t) == tokens[Row[k]] + Elapsed(k, t) * RateOf[k]

\* _refill: what the bucket holds at time t.
Refill(k, t) ==
  LET full == tokens[Row[k]] + Elapsed(k, t) * RateOf[k]
  IN  IF full < BurstOf[k] THEN full ELSE BurstOf[k]

\* A bug: rounded down instead of up.
WaitRoundedDown(k, t) ==
  IF Refill(k, t) >= Cost THEN 0 ELSE (Cost - Refill(k, t)) \div RateOf[k]

\* Seconds, rounded up as the Retry-After header is, until bucket k holds the
\* price of a detection, for a caller whose clock says t.
Wait(k, t) ==
  IF Refill(k, t) >= Cost THEN 0
  ELSE (Cost - Refill(k, t) + RateOf[k] - 1) \div RateOf[k]

-----------------------------------------------------------------------------
(* The requests. *)

Goto(t, p) == pc' = [pc EXCEPT ![t] = p]

\* POST /api/detections, or /api/detections/batch with several detections of
\* one sensor; a batch above MaxBatch is refused before it touches a bucket.
Ingest(t) ==
  /\ pc[t] = "idle"
  /\ \E s \in Sensor, n \in 1..MaxBatch :
       /\ sensor' = [sensor EXCEPT ![t] = s]
       /\ key' = [key EXCEPT ![t] = SensorKey(s)]
       /\ left' = [left EXCEPT ![t] = n]
  /\ Goto(t, "read_clock")
  /\ UNCHANGED <<clock, tokens, lastRefill, now, granted, rewound, promised>>

\* allow(key): the clock is read before the lock is taken.
ReadClock(t) ==
  /\ pc[t] = "read_clock"
  /\ now' = [now EXCEPT ![t] = clock]
  /\ Goto(t, "allow")
  /\ UNCHANGED <<clock, tokens, lastRefill, sensor, left, key,
                 granted, rewound, promised>>

\* Inside the lock: the refill is dated with the reading, be it older than the
\* last refill or not.
Stamp(t) ==
  LET r == Row[key[t]] IN
  /\ lastRefill' = [lastRefill EXCEPT ![r] = now[t]]
  /\ rewound' = [rewound EXCEPT ![r] =
                   IF now[t] < lastRefill[r] THEN @ + (lastRefill[r] - now[t]) ELSE @]

\* allow returns True; after the sensor's bucket comes the site's, after the
\* site's the clock skew check.
Grant(t) ==
  LET k == key[t] IN
  /\ pc[t] = "allow"
  /\ Refill(k, now[t]) >= Cost
  /\ Stamp(t)
  /\ tokens' = [tokens EXCEPT ![Row[k]] = Refill(k, now[t]) - Cost]
  /\ granted' = [granted EXCEPT ![k] = @ + 1]
  /\ promised' = [promised EXCEPT ![k] = {}]
  /\ IF k = SiteKey
       THEN Goto(t, "skew") /\ UNCHANGED key
       ELSE Goto(t, "read_clock") /\ key' = [key EXCEPT ![t] = SiteKey]
  /\ UNCHANGED <<clock, sensor, left, now>>

\* allow returns False: the refill stays, and Retry-After is worked out next.
Reject(t) ==
  LET k == key[t] IN
  /\ pc[t] = "allow"
  /\ Refill(k, now[t]) < Cost
  /\ Stamp(t)
  /\ tokens' = [tokens EXCEPT ![Row[k]] = Refill(k, now[t])]
  /\ Goto(t, "reread_clock")
  /\ UNCHANGED <<clock, sensor, left, key, now, granted, promised>>

\* retry_after(key) reads the clock anew, again before the lock ...
RereadClock(t) ==
  /\ pc[t] = "reread_clock"
  /\ now' = [now EXCEPT ![t] = clock]
  /\ Goto(t, "retry_after")
  /\ UNCHANGED <<clock, tokens, lastRefill, sensor, left, key,
                 granted, rewound, promised>>

\* ... and looks into the bucket without touching it; the request ends with
\* 429.  What an earlier detection of it has taken is not given back.
RetryAfter(t) ==
  /\ pc[t] = "retry_after"
  /\ promised' = [promised EXCEPT ![key[t]] = @ \cup {clock + Wait(key[t], now[t])}]
  /\ Goto(t, "idle")
  /\ UNCHANGED <<clock, tokens, lastRefill, sensor, left, key, now,
                 granted, rewound>>

\* The clock skew check of a detection both buckets have let through: it may
\* reject the request with 400; else the next detection is up, or the request
\* goes on to the association.
CheckSkew(t) ==
  /\ pc[t] = "skew"
  /\ \/ Goto(t, "idle") /\ UNCHANGED <<left, key>>
     \/ /\ left' = [left EXCEPT ![t] = @ - 1]
        /\ IF left[t] > 1
             THEN Goto(t, "read_clock") /\ key' = [key EXCEPT ![t] = SensorKey(sensor[t])]
             ELSE Goto(t, "idle") /\ UNCHANGED key
  /\ UNCHANGED <<clock, tokens, lastRefill, sensor, now,
                 granted, rewound, promised>>

Tick ==
  /\ clock < MaxTime
  /\ clock' = clock + 1
  /\ UNCHANGED <<tokens, lastRefill, request, granted, rewound, promised>>

Init ==
  /\ clock = 0
  /\ tokens = [r \in Rows |-> Fresh]
  /\ lastRefill = [r \in Rows |-> 0]
  /\ pc = [t \in Thread |-> "idle"]
  /\ sensor \in [Thread -> Sensor]
  /\ left = [t \in Thread |-> 0]
  /\ key = [t \in Thread |-> SensorKey(sensor[t])]
  /\ now = [t \in Thread |-> 0]
  /\ granted = [k \in Key |-> 0]
  /\ rewound = [r \in Rows |-> 0]
  /\ promised = [k \in Key |-> {}]

Next ==
  \/ Tick
  \/ \E t \in Thread :
       \/ Ingest(t) \/ ReadClock(t) \/ Grant(t) \/ Reject(t)
       \/ RereadClock(t) \/ RetryAfter(t) \/ CheckSkew(t)

Spec == Init /\ [][Next]_vars

-----------------------------------------------------------------------------
(* Properties. *)

\* What a bucket gives out up to the present is at most its burst plus what its
\* rate yields in the time passed: what RATE_LIMIT_PER_SECOND and
\* RATE_LIMIT_BURST promise.  It holds when one thread serves the requests and
\* no sensor is named like its site's bucket.
GrantedWithinLimit ==
  \A k \in Key : Cost * granted[k] <= BurstOf[k] + RateOf[k] * clock

\* With several threads an old reading dates a refill back, and the time
\* between is counted again: by exactly that much a bucket may give out more.
GrantedWithinLimitAndRewinds ==
  \A k \in Key : Cost * granted[k] <= BurstOf[k] + RateOf[k] * (clock + rewound[Row[k]])

\* A bucket refuses nobody before it has given out its burst: no thread, no other
\* bucket and no earlier refusal uses tokens up.  It holds when no sensor is
\* named like its site's bucket.
BurstGoesOut ==
  [][\A t \in Thread : Reject(t) => Cost * (granted[key[t]] + 1) > BurstOf[key[t]]]_vars

\* A client that comes back when a Retry-After told it to is not refused by that
\* bucket unless somebody else has taken the token: whatever other threads
\* read and ask in between, a refusal never puts off the moment.
RetryAfterIsHonest ==
  [][\A t \in Thread : Reject(t) => \A p \in promised[key[t]] : now[t] < p]_vars
=============================================================================
