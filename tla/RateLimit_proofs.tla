--------------------------- MODULE RateLimit_proofs ---------------------------
(***************************************************************************)
(* Proofs about RateLimit, for any number of threads, sensors and seconds  *)
(* and any limits: how much a bucket can give out, how little it may give  *)
(* out before it refuses, and that a Retry-After is never put off.  What   *)
(* each bucket owes is kept by three inequalities that a refill and a      *)
(* reading of the clock, however old, preserve.                            *)
(***************************************************************************)
EXTENDS RateLimit, TLAPS

\* No two keys share a row: buckets are in memory, or no sensor is named like
\* the site's bucket.
OwnRows == \A j, k \in Key : Row[j] = Row[k] => j = k

\* What bucket k holds that its own limiter can use.
Held(k) == IF tokens[Row[k]] < BurstOf[k] THEN tokens[Row[k]] ELSE BurstOf[k]

\* Every reading of the clock is one of the past.
ReadingsArePast ==
  /\ \A r \in Rows : lastRefill[r] <= clock
  /\ \A t \in Thread : now[t] <= clock

\* A request under way has detections left.
RequestsLoaded == \A t \in Thread : pc[t] # "idle" => left[t] > 0

\* What was given out and what is left came from the burst and from the seconds
\* counted, each second once and once more for every rewind across it.
Budget ==
  \A k \in Key :
    Cost * granted[k] + Held(k)
      <= BurstOf[k] + RateOf[k] * (lastRefill[Row[k]] + rewound[Row[k]])

\* Nothing of the burst is lost.
NothingLost ==
  \A k \in Key : BurstOf[k] <= Cost * granted[k] + tokens[Row[k]]

\* At every promised moment the bucket will hold the price of a detection.
PromisesCovered ==
  \A k \in Key : \A p \in promised[k] :
    /\ lastRefill[Row[k]] <= p
    /\ Cost <= tokens[Row[k]] + RateOf[k] * (p - lastRefill[Row[k]])

TypeInv == TypeOK /\ ReadingsArePast /\ RequestsLoaded

IInv == TypeInv /\ Budget /\ NothingLost /\ PromisesCovered

-----------------------------------------------------------------------------
(* Arithmetic and the tables of limits. *)

\* Limits are numbers, and each bucket can hold the price of a detection.
LEMMA Limits ==
  /\ Cost \in Nat /\ Cost > 0 /\ MaxBatch \in Nat /\ MaxBatch > 0
  /\ Fresh \in Nat
  /\ \A k \in Key : /\ RateOf[k] \in Nat /\ RateOf[k] > 0
                    /\ BurstOf[k] \in Nat /\ Cost <= BurstOf[k] /\ BurstOf[k] <= Fresh
                    /\ Row[k] \in Rows
  /\ SiteKey \in Key
  /\ \A s \in Sensor : SensorKey(s) \in Key
  <1>1. /\ Cost \in Nat /\ Cost > 0 /\ MaxBatch \in Nat /\ MaxBatch > 0
        /\ Rate \in Nat /\ Rate > 0 /\ SiteRate \in Nat /\ SiteRate > 0
        /\ Burst \in Nat /\ SiteBurst \in Nat /\ Cost <= Burst /\ Cost <= SiteBurst
    BY LimitsAssumption
  <1>2. Fresh \in Nat /\ Burst <= Fresh /\ SiteBurst <= Fresh
    BY <1>1 DEF Fresh
  <1>3. SiteKey \in Key /\ \A s \in Sensor : SensorKey(s) \in Key
    BY DEF Key
  <1>4. ASSUME NEW k \in Key
        PROVE  /\ RateOf[k] \in Nat /\ RateOf[k] > 0
               /\ BurstOf[k] \in Nat /\ Cost <= BurstOf[k] /\ BurstOf[k] <= Fresh
    BY <1>1, <1>2 DEF RateOf, BurstOf
  <1>5. \A k \in Key : Row[k] \in Rows
    BY DEF Rows
  <1> QED
    BY <1>1, <1>2, <1>3, <1>4, <1>5

\* Multiplication by a rate distributes over time.
LEMMA Distributes ==
  ASSUME NEW r \in Nat, NEW a \in Int, NEW b \in Int
  PROVE  r * (a + b) = r * a + r * b /\ r * (a - b) = r * a - r * b
  OBVIOUS

\* A longer time yields no less.
LEMMA Monotone ==
  ASSUME NEW r \in Nat, NEW a \in Int, NEW b \in Int, a <= b
  PROVE  r * a <= r * b
  OBVIOUS

\* The seconds of a Retry-After are enough for the units that are missing.
LEMMA RoundedUp ==
  ASSUME NEW n \in Nat, NEW r \in Nat, r > 0
  PROVE  (n + r - 1) \div r \in Nat /\ n <= r * ((n + r - 1) \div r)
  OBVIOUS

\* What a refill returns: the tokens and the yield of the time since, cut to
\* the burst.
LEMMA Refilled ==
  ASSUME TypeOK, NEW k \in Key, NEW n \in Nat
  PROVE  /\ Elapsed(k, n) \in Nat
         /\ Refill(k, n) \in 0..BurstOf[k]
         /\ Refill(k, n) <= Held(k) + RateOf[k] * Elapsed(k, n)
         /\ Refill(k, n) < BurstOf[k] =>
              Refill(k, n) = tokens[Row[k]] + RateOf[k] * Elapsed(k, n)
  <1>1. /\ tokens[Row[k]] \in Nat /\ lastRefill[Row[k]] \in Nat
        /\ RateOf[k] \in Nat /\ BurstOf[k] \in Nat
    BY Limits DEF TypeOK
  <1>2. Elapsed(k, n) \in Nat
    BY <1>1 DEF Elapsed
  <1>3. RateOf[k] * Elapsed(k, n) \in Nat /\ Elapsed(k, n) * RateOf[k] = RateOf[k] * Elapsed(k, n)
    BY <1>1, <1>2
  <1> QED
    BY <1>1, <1>2, <1>3 DEF Refill, Held

\* retry_after: once the time it names has passed, the bucket holds the price.
LEMMA WaitIsEnough ==
  ASSUME TypeOK, NEW k \in Key, NEW n \in Nat
  PROVE  /\ Wait(k, n) \in Nat
         /\ Cost <= tokens[Row[k]] + RateOf[k] * (Elapsed(k, n) + Wait(k, n))
  <1> DEFINE f == Refill(k, n)
             e == Elapsed(k, n)
             w == Wait(k, n)
             r == RateOf[k]
             held == tokens[Row[k]]
  <1>1. /\ f \in Nat /\ e \in Nat /\ r \in Nat /\ r > 0 /\ held \in Nat /\ Cost \in Nat
        /\ f <= held + r * e
    <2>1. tokens[Row[k]] \in Nat
      BY Limits DEF TypeOK
    <2> QED
      BY <2>1, Limits, Refilled DEF Held
  <1>2. CASE f >= Cost
    BY <1>1, <1>2 DEF Wait
  <1>3. CASE f < Cost
    <2> DEFINE n0 == Cost - f
    <2>1. n0 \in Nat /\ w = (n0 + r - 1) \div r
      BY <1>1, <1>3 DEF Wait
    <2> HIDE DEF n0, w, r, e, f, held
    <2>2. w \in Nat /\ n0 <= r * w
      BY <2>1, <1>1, RoundedUp
    <2>3. r * (e + w) = r * e + r * w
      BY <2>2, <1>1, Distributes
    <2>4. f + n0 = Cost
      BY <1>1 DEF n0
    <2>5. r * e \in Nat /\ r * w \in Nat
      BY <1>1, <2>2
    <2>6. Cost <= held + r * (e + w)
      BY <1>1, <2>1, <2>2, <2>3, <2>4, <2>5
    <2> QED
      BY <2>2, <2>6 DEF w, r, e, held
  <1> QED
    BY <1>1, <1>2, <1>3

-----------------------------------------------------------------------------
(* Steps. *)

\* Types, past readings and loaded requests are kept by every step.
LEMMA TypeStep ==
  ASSUME TypeInv, [Next]_vars
  PROVE  TypeInv'
  <1> USE Limits DEF TypeInv, TypeOK, ReadingsArePast, RequestsLoaded
  <1>1. CASE Tick
    BY <1>1 DEF Tick, request
  <1>2. ASSUME NEW t \in Thread, Ingest(t)
        PROVE  TypeInv'
    BY <1>2 DEF Ingest, Goto
  <1>3. ASSUME NEW t \in Thread, ReadClock(t)
        PROVE  TypeInv'
    BY <1>3 DEF ReadClock, Goto
  <1>4. ASSUME NEW t \in Thread, Grant(t) \/ Reject(t)
        PROVE  TypeInv'
    <2> DEFINE k == key[t]
    <2>1. k \in Key /\ now[t] \in Nat /\ Row[k] \in Rows /\ now[t] <= clock /\ pc[t] = "allow"
      BY <1>4 DEF Grant, Reject
    <2>2. Refill(k, now[t]) \in 0..BurstOf[k]
      BY <2>1, Refilled
    <2>3. /\ lastRefill' = [lastRefill EXCEPT ![Row[k]] = now[t]]
          /\ rewound' \in [Rows -> Nat]
          /\ clock' = clock /\ now' = now /\ left' = left
      BY <1>4, <2>1 DEF Grant, Reject, Stamp
    <2>4. tokens' \in [Rows -> 0..Fresh]
      <3>1. CASE Grant(t)
        <4>1. Refill(k, now[t]) - Cost \in 0..Fresh
          BY <3>1, <2>1, <2>2 DEF Grant
        <4> QED
          BY <3>1, <4>1 DEF Grant
      <3>2. CASE Reject(t)
        <4>1. Refill(k, now[t]) \in 0..Fresh
          BY <2>1, <2>2
        <4> QED
          BY <3>2, <4>1 DEF Reject
      <3> QED
        BY <1>4, <3>1, <3>2
    <2>5. lastRefill' \in [Rows -> Nat] /\ \A r \in Rows : lastRefill'[r] <= clock'
      BY <2>1, <2>3
    <2>6. CASE Grant(t)
      <3>1. granted' \in [Key -> Nat] /\ promised' \in [Key -> SUBSET Nat]
        BY <2>6, <2>1 DEF Grant
      <3>2. key' \in [Thread -> Key]
        BY <2>6, <2>1 DEF Grant
      <3>3. /\ pc' \in [Thread -> {"idle", "read_clock", "allow", "skew", "reread_clock", "retry_after"}]
            /\ \A u \in Thread : pc'[u] # "idle" => left[u] > 0
        BY <2>6, <2>1 DEF Grant, Goto
      <3> QED
        BY <2>6, <2>3, <2>4, <2>5, <3>1, <3>2, <3>3 DEF Grant
    <2>7. CASE Reject(t)
      BY <2>7, <2>1, <2>3, <2>4, <2>5 DEF Reject, Goto
    <2> QED
      BY <1>4, <2>6, <2>7
  <1>5. ASSUME NEW t \in Thread, RereadClock(t)
        PROVE  TypeInv'
    BY <1>5 DEF RereadClock, Goto
  <1>6. ASSUME NEW t \in Thread, RetryAfter(t)
        PROVE  TypeInv'
    <2>1. Wait(key[t], now[t]) \in Nat
      BY WaitIsEnough
    <2> QED
      BY <1>6, <2>1 DEF RetryAfter, Goto
  <1>7. ASSUME NEW t \in Thread, CheckSkew(t)
        PROVE  TypeInv'
    <2>1. left[t] \in 1..MaxBatch /\ left[t] - 1 \in 0..MaxBatch
      BY <1>7 DEF CheckSkew
    <2>2. sensor[t] \in Sensor /\ SensorKey(sensor[t]) \in Key
      OBVIOUS
    <2>3. key' \in [Thread -> Key] /\ left' \in [Thread -> 0..MaxBatch]
      BY <1>7, <2>1, <2>2 DEF CheckSkew
    <2>4. \A u \in Thread : pc'[u] # "idle" => left'[u] > 0
      BY <1>7, <2>1 DEF CheckSkew, Goto
    <2>5. pc' \in [Thread -> {"idle", "read_clock", "allow", "skew", "reread_clock", "retry_after"}]
      BY <1>7 DEF CheckSkew, Goto
    <2> QED
      BY <1>7, <2>3, <2>4, <2>5 DEF CheckSkew
  <1>8. CASE UNCHANGED vars
    BY <1>8 DEF vars, request
  <1> QED
    BY <1>1, <1>2, <1>3, <1>4, <1>5, <1>6, <1>7, <1>8 DEF Next

\* A refill, dated with whatever reading, counts the seconds it yields for once:
\* either the last refill moves on by them, or it moves back and is a rewind.
LEMMA Dating ==
  ASSUME TypeInv, NEW t \in Thread, pc[t] = "allow", Stamp(t)
  PROVE  LET r == Row[key[t]] IN
         /\ lastRefill'[r] = now[t]
         /\ lastRefill'[r] + rewound'[r]
              = lastRefill[r] + rewound[r] + Elapsed(key[t], now[t])
         /\ \A q \in Rows \ {r} : lastRefill'[q] = lastRefill[q] /\ rewound'[q] = rewound[q]
  BY Limits DEF Stamp, TypeInv, TypeOK, Elapsed

\* Everything in a bucket's account is a number.
LEMMA Numbers ==
  ASSUME TypeInv, NEW k \in Key
  PROVE  /\ Row[k] \in Rows
         /\ tokens[Row[k]] \in Nat /\ lastRefill[Row[k]] \in Nat /\ rewound[Row[k]] \in Nat
         /\ granted[k] \in Nat /\ promised[k] \subseteq Nat
         /\ RateOf[k] \in Nat /\ BurstOf[k] \in Nat /\ Cost \in Nat
  BY Limits DEF TypeInv, TypeOK

\* Only granting, refusing and telling a Retry-After touch the accounts.
Calm == UNCHANGED <<tokens, lastRefill, granted, rewound, promised>>

LEMMA CalmSteps ==
  ASSUME [Next]_vars
  PROVE  \/ Calm
         \/ \E t \in Thread : Grant(t) \/ Reject(t) \/ RetryAfter(t)
  BY DEF Next, vars, request, Calm, Tick, Ingest, ReadClock, RereadClock, CheckSkew

\* A refused bucket holds what it held and the yield, and less than the price.
LEMMA Refused ==
  ASSUME TypeInv, NEW t \in Thread, Reject(t)
  PROVE  LET k == key[t] IN
         /\ Refill(k, now[t]) < Cost
         /\ Refill(k, now[t]) = tokens[Row[k]] + RateOf[k] * Elapsed(k, now[t])
  <1>1. key[t] \in Key /\ now[t] \in Nat
    BY DEF TypeInv, TypeOK
  <1>2. Refill(key[t], now[t]) < Cost
    BY DEF Reject
  <1>3. Refill(key[t], now[t]) < BurstOf[key[t]]
    BY <1>1, <1>2, Limits, Refilled DEF TypeInv
  <1> QED
    BY <1>1, <1>2, <1>3, Refilled DEF TypeInv

\* Budget is kept.
LEMMA BudgetStep ==
  ASSUME OwnRows, TypeInv, TypeInv', Budget, [Next]_vars
  PROVE  Budget'
  <1>1. CASE Calm
    BY <1>1 DEF Calm, Budget, Held
  <1>2. ASSUME NEW t \in Thread, RetryAfter(t)
        PROVE  Budget'
    BY <1>2 DEF RetryAfter, Budget, Held
  <1>3. ASSUME NEW t \in Thread, Grant(t) \/ Reject(t)
        PROVE  Budget'
    <2> SUFFICES ASSUME NEW k \in Key, k = key[t]
                 PROVE  Budget'
      BY DEF TypeInv, TypeOK
    <2> DEFINE e == Elapsed(k, now[t])
               f == Refill(k, now[t])
    <2>1. /\ now[t] \in Nat /\ pc[t] = "allow" /\ Stamp(t) /\ Row[k] \in Rows
          /\ \A j \in Key \ {k} : Row[j] \in Rows \ {Row[k]}
      BY <1>3, Limits DEF Grant, Reject, TypeInv, TypeOK, OwnRows
    <2>2. ASSUME NEW j \in Key \ {k}
          PROVE  Cost * granted'[j] + Held(j)'
                   <= BurstOf[j] + RateOf[j] * (lastRefill'[Row[j]] + rewound'[Row[j]])
      <3>1. /\ lastRefill'[Row[j]] = lastRefill[Row[j]] /\ rewound'[Row[j]] = rewound[Row[j]]
        BY <2>1, Dating
      <3>2. granted'[j] = granted[j] /\ tokens'[Row[j]] = tokens[Row[j]]
        BY <1>3, <2>1 DEF Grant, Reject, TypeInv, TypeOK
      <3> QED
        BY <3>1, <3>2 DEF Budget, Held
    <2>3. Cost * granted'[k] + Held(k)'
            <= BurstOf[k] + RateOf[k] * (lastRefill'[Row[k]] + rewound'[Row[k]])
      <3>1. /\ e \in Nat /\ f \in Nat /\ f <= Held(k) + RateOf[k] * e
            /\ RateOf[k] \in Nat /\ BurstOf[k] \in Nat /\ Cost \in Nat
            /\ granted[k] \in Nat /\ Held(k) \in Nat
            /\ lastRefill[Row[k]] + rewound[Row[k]] \in Nat
        <4>1. e \in Nat /\ f \in 0..BurstOf[k] /\ f <= Held(k) + RateOf[k] * e
          BY <2>1, Refilled DEF TypeInv
        <4> QED
          BY <4>1, Numbers DEF Held
      <3>2. lastRefill'[Row[k]] + rewound'[Row[k]] = lastRefill[Row[k]] + rewound[Row[k]] + e
        BY <2>1, Dating
      <3>3. RateOf[k] * (lastRefill[Row[k]] + rewound[Row[k]] + e)
              = RateOf[k] * (lastRefill[Row[k]] + rewound[Row[k]]) + RateOf[k] * e
        BY <3>1, Distributes
      <3>4. Cost * granted[k] + Held(k) <= BurstOf[k] + RateOf[k] * (lastRefill[Row[k]] + rewound[Row[k]])
        BY <2>1 DEF Budget
      <3>5. Held(k)' <= tokens'[Row[k]] /\ Held(k)' \in Nat
        BY <2>1, Limits DEF Held, TypeInv, TypeOK
      <3>6. Cost * granted'[k] + tokens'[Row[k]] = Cost * granted[k] + f
        <4>1. CASE Grant(t)
          <5>1. granted'[k] = granted[k] + 1 /\ tokens'[Row[k]] = f - Cost
            BY <4>1, <2>1 DEF Grant, TypeInv, TypeOK
          <5>2. Cost * (granted[k] + 1) = Cost * granted[k] + Cost
            BY <3>1, Distributes
          <5> QED
            BY <5>1, <5>2, <3>1
        <4>2. CASE Reject(t)
          BY <4>2, <2>1 DEF Reject, TypeInv, TypeOK
        <4> QED
          BY <1>3, <4>1, <4>2
      <3>7. /\ Cost * granted'[k] \in Nat /\ Cost * granted[k] \in Nat /\ RateOf[k] * e \in Nat
            /\ RateOf[k] * (lastRefill[Row[k]] + rewound[Row[k]]) \in Nat /\ tokens'[Row[k]] \in Nat
        BY <3>1, <2>1 DEF TypeInv, TypeOK
      <3> HIDE DEF e, f
      <3> QED
        BY <3>1, <3>2, <3>3, <3>4, <3>5, <3>6, <3>7
    <2> QED
      BY <2>2, <2>3 DEF Budget
  <1> QED
    BY <1>1, <1>2, <1>3, CalmSteps

\* NothingLost is kept.
LEMMA NothingLostStep ==
  ASSUME OwnRows, TypeInv, TypeInv', NothingLost, [Next]_vars
  PROVE  NothingLost'
  <1>1. CASE Calm
    BY <1>1 DEF Calm, NothingLost
  <1>2. ASSUME NEW t \in Thread, RetryAfter(t)
        PROVE  NothingLost'
    BY <1>2 DEF RetryAfter, NothingLost
  <1>3. ASSUME NEW t \in Thread, Grant(t) \/ Reject(t)
        PROVE  NothingLost'
    <2> SUFFICES ASSUME NEW k \in Key, k = key[t]
                 PROVE  NothingLost'
      BY DEF TypeInv, TypeOK
    <2> DEFINE f == Refill(k, now[t])
    <2>1. /\ now[t] \in Nat /\ Row[k] \in Rows
          /\ \A j \in Key \ {k} : Row[j] \in Rows \ {Row[k]}
      BY Limits DEF TypeInv, TypeOK, OwnRows
    <2>2. ASSUME NEW j \in Key \ {k}
          PROVE  BurstOf[j] <= Cost * granted'[j] + tokens'[Row[j]]
      <3>1. granted'[j] = granted[j] /\ tokens'[Row[j]] = tokens[Row[j]]
        BY <1>3, <2>1 DEF Grant, Reject, TypeInv, TypeOK
      <3> QED
        BY <3>1 DEF NothingLost
    <2>3. /\ granted[k] \in Nat /\ tokens[Row[k]] \in Nat /\ Cost \in Nat /\ f \in Nat /\ BurstOf[k] \in Nat
          /\ Cost * granted[k] \in Nat
      <3>1. f \in 0..BurstOf[k]
        BY <2>1, Refilled DEF TypeInv
      <3> QED
        BY <3>1, Numbers
    <2>4. BurstOf[k] <= Cost * granted[k] + f
      <3>1. CASE f < BurstOf[k]
        <4>1. f = tokens[Row[k]] + RateOf[k] * Elapsed(k, now[t]) /\ Elapsed(k, now[t]) \in Nat
          BY <3>1, <2>1, Refilled DEF TypeInv
        <4>2. RateOf[k] * Elapsed(k, now[t]) \in Nat
          BY <4>1, Limits
        <4> HIDE DEF f
        <4> QED
          BY <4>1, <4>2, <2>3 DEF NothingLost
      <3>2. CASE ~(f < BurstOf[k])
        BY <3>2, <2>3
      <3> QED
        BY <3>1, <3>2
    <2>5. Cost * granted'[k] + tokens'[Row[k]] = Cost * granted[k] + f
      <3>1. CASE Grant(t)
        <4>1. granted'[k] = granted[k] + 1 /\ tokens'[Row[k]] = f - Cost
          BY <3>1, <2>1 DEF Grant, TypeInv, TypeOK
        <4>2. Cost * (granted[k] + 1) = Cost * granted[k] + Cost
          BY <2>3, Distributes
        <4> QED
          BY <4>1, <4>2, <2>3
      <3>2. CASE Reject(t)
        BY <3>2, <2>1 DEF Reject, TypeInv, TypeOK
      <3> QED
        BY <1>3, <3>1, <3>2
    <2>6. BurstOf[k] <= Cost * granted'[k] + tokens'[Row[k]]
      BY <2>4, <2>5
    <2> QED
      BY <2>2, <2>6 DEF NothingLost
  <1> QED
    BY <1>1, <1>2, <1>3, CalmSteps

\* A bucket refuses only before every promised moment: at one, it would hold the
\* price.
LEMMA RefusedEarly ==
  ASSUME TypeInv, PromisesCovered, NEW t \in Thread, Reject(t),
         NEW p \in promised[key[t]]
  PROVE  now[t] < p
  <1> DEFINE k == key[t]
             e == Elapsed(k, now[t])
             l == lastRefill[Row[k]]
  <1>1. /\ k \in Key /\ now[t] \in Nat /\ l \in Nat /\ p \in Nat /\ tokens[Row[k]] \in Nat
        /\ RateOf[k] \in Nat /\ e \in Nat /\ Cost \in Nat
    <2>1. /\ k \in Key /\ now[t] \in Nat /\ promised[k] \subseteq Nat
          /\ lastRefill \in [Rows -> Nat] /\ tokens \in [Rows -> 0..Fresh]
      BY DEF TypeInv, TypeOK
    <2>2. Row[k] \in Rows /\ RateOf[k] \in Nat /\ Cost \in Nat /\ Fresh \in Nat
      BY <2>1, Limits
    <2>3. e \in Nat
      BY <2>1, Refilled DEF TypeInv
    <2> QED
      BY <2>1, <2>2, <2>3
  <1>2. l <= p /\ Cost <= tokens[Row[k]] + RateOf[k] * (p - l)
    BY <1>1 DEF PromisesCovered
  <1>3. tokens[Row[k]] + RateOf[k] * e < Cost
    BY <1>1, Refused
  <1>4. SUFFICES ASSUME p <= now[t]
                 PROVE  FALSE
    BY <1>1
  <1>5. p - l <= e
    BY <1>1, <1>2, <1>4 DEF Elapsed
  <1> HIDE DEF e, l, k
  <1>6. RateOf[k] * (p - l) <= RateOf[k] * e
    BY <1>1, <1>5, Monotone
  <1>7. RateOf[k] * e \in Int /\ RateOf[k] * (p - l) \in Int
    BY <1>1
  <1> QED
    BY <1>1, <1>2, <1>3, <1>6, <1>7

\* PromisesCovered is kept.
LEMMA PromisesStep ==
  ASSUME OwnRows, TypeInv, TypeInv', PromisesCovered, [Next]_vars
  PROVE  PromisesCovered'
  <1>1. CASE Calm
    BY <1>1 DEF Calm, PromisesCovered
  <1>2. ASSUME NEW t \in Thread, RetryAfter(t)
        PROVE  PromisesCovered'
    <2> SUFFICES ASSUME NEW k \in Key, k = key[t]
                 PROVE  PromisesCovered'
      BY DEF TypeInv, TypeOK
    <2> DEFINE w == Wait(k, now[t])
               e == Elapsed(k, now[t])
               l == lastRefill[Row[k]]
    <2>1. /\ now[t] \in Nat /\ l \in Nat /\ clock \in Nat /\ now[t] <= clock /\ l <= clock
          /\ RateOf[k] \in Nat /\ tokens[Row[k]] \in Nat /\ e \in Nat /\ Cost \in Nat
      <3>1. now[t] \in Nat /\ clock \in Nat
        BY DEF TypeInv, TypeOK
      <3>2. now[t] <= clock /\ l <= clock
        BY Numbers DEF TypeInv, ReadingsArePast
      <3>3. e \in Nat
        BY <3>1, Refilled DEF TypeInv
      <3> QED
        BY <3>1, <3>2, <3>3, Numbers
    <2>2. w \in Nat /\ Cost <= tokens[Row[k]] + RateOf[k] * (e + w)
      BY <2>1, WaitIsEnough DEF TypeInv
    <2>3. e + w <= clock + w - l /\ l <= clock + w
      BY <2>1, <2>2 DEF Elapsed
    <2>4. l <= clock + w /\ Cost <= tokens[Row[k]] + RateOf[k] * ((clock + w) - l)
      <3> HIDE DEF w, e, l
      <3>1. RateOf[k] * (e + w) <= RateOf[k] * ((clock + w) - l)
        BY <2>1, <2>2, <2>3, Monotone
      <3>2. RateOf[k] * (e + w) \in Int /\ RateOf[k] * ((clock + w) - l) \in Int
        BY <2>1, <2>2
      <3> QED
        BY <2>1, <2>2, <2>3, <3>1, <3>2
    <2>5. promised' = [promised EXCEPT ![k] = @ \cup {clock + w}]
      BY <1>2 DEF RetryAfter
    <2>6. ASSUME NEW j \in Key, NEW p \in promised'[j]
          PROVE  p \in promised[j] \/ (j = k /\ p = clock + w)
      BY <2>5, <2>6 DEF TypeInv, TypeOK
    <2>7. lastRefill' = lastRefill /\ tokens' = tokens
      BY <1>2 DEF RetryAfter
    <2> HIDE DEF w
    <2> QED
      BY <2>4, <2>6, <2>7 DEF PromisesCovered
  <1>3. ASSUME NEW t \in Thread, Grant(t) \/ Reject(t)
        PROVE  PromisesCovered'
    <2> SUFFICES ASSUME NEW k \in Key, k = key[t]
                 PROVE  PromisesCovered'
      BY DEF TypeInv, TypeOK
    <2>1. /\ now[t] \in Nat /\ Row[k] \in Rows /\ pc[t] = "allow" /\ Stamp(t)
          /\ \A j \in Key \ {k} : Row[j] \in Rows \ {Row[k]}
      BY <1>3, Limits DEF TypeInv, TypeOK, OwnRows, Grant, Reject
    <2>2. ASSUME NEW j \in Key \ {k}
          PROVE  /\ promised'[j] = promised[j] /\ tokens'[Row[j]] = tokens[Row[j]]
                 /\ lastRefill'[Row[j]] = lastRefill[Row[j]]
      <3>1. lastRefill'[Row[j]] = lastRefill[Row[j]]
        BY <2>1, Dating
      <3> QED
        BY <1>3, <2>1, <3>1 DEF Grant, Reject, TypeInv, TypeOK
    <2>3. CASE Grant(t)
      <3>1. promised'[k] = {}
        BY <2>3 DEF Grant, TypeInv, TypeOK
      <3> QED
        BY <3>1, <2>2 DEF PromisesCovered
    <2>4. CASE Reject(t)
      <3> DEFINE e == Elapsed(k, now[t])
                 l == lastRefill[Row[k]]
      <3>1. /\ promised'[k] = promised[k] /\ lastRefill'[Row[k]] = now[t]
            /\ tokens'[Row[k]] = tokens[Row[k]] + RateOf[k] * e
        BY <2>4, <2>1, Dating, Refused DEF Reject, TypeInv, TypeOK
      <3>2. ASSUME NEW p \in promised[k]
            PROVE  now[t] <= p /\ Cost <= tokens[Row[k]] + RateOf[k] * e + RateOf[k] * (p - now[t])
        <4>1. /\ l \in Nat /\ p \in Nat /\ tokens[Row[k]] \in Nat
              /\ RateOf[k] \in Nat /\ e \in Nat /\ Cost \in Nat
          <5>1. e \in Nat
            BY <2>1, Refilled DEF TypeInv
          <5> QED
            BY <5>1, Numbers
        <4>2. now[t] < p
          BY <2>4, RefusedEarly
        <4>3. l <= p /\ Cost <= tokens[Row[k]] + RateOf[k] * (p - l)
          BY DEF PromisesCovered
        <4>4. p - l <= e + (p - now[t])
          BY <4>1, <2>1 DEF Elapsed
        <4> HIDE DEF e, l
        <4>5. RateOf[k] * (p - l) <= RateOf[k] * (e + (p - now[t]))
          BY <4>1, <2>1, <4>4, Monotone
        <4>6. RateOf[k] * (e + (p - now[t])) = RateOf[k] * e + RateOf[k] * (p - now[t])
          BY <4>1, <2>1, Distributes
        <4>7. /\ RateOf[k] * (p - l) \in Int /\ RateOf[k] * e \in Int
              /\ RateOf[k] * (p - now[t]) \in Int
          BY <4>1, <2>1
        <4> QED
          BY <4>1, <2>1, <4>2, <4>3, <4>5, <4>6, <4>7
      <3> HIDE DEF e
      <3> QED
        BY <2>2, <3>1, <3>2 DEF PromisesCovered
    <2> QED
      BY <1>3, <2>3, <2>4
  <1> QED
    BY <1>1, <1>2, <1>3, CalmSteps

-----------------------------------------------------------------------------
(* Theorems. *)

LEMMA InitTypeInv == Init => TypeInv
  BY Limits DEF Init, TypeInv, TypeOK, ReadingsArePast, RequestsLoaded, vars

\* Tokens, clock readings and requests are of their types, for any limits.
THEOREM TypeCorrect == Spec => []TypeOK
  <1>1. TypeInv /\ [Next]_vars => TypeInv'
    BY TypeStep
  <1>2. TypeInv => TypeOK
    BY DEF TypeInv
  <1> QED
    BY InitTypeInv, <1>1, <1>2, PTL DEF Spec

LEMMA InitIInv == Init => IInv
  <1> SUFFICES ASSUME Init
               PROVE  IInv
    OBVIOUS
  <1>1. TypeInv
    BY InitTypeInv
  <1>2. ASSUME NEW k \in Key
        PROVE  /\ granted[k] = 0 /\ promised[k] = {}
               /\ tokens[Row[k]] = Fresh /\ lastRefill[Row[k]] = 0 /\ rewound[Row[k]] = 0
    BY Limits DEF Init
  <1>3. ASSUME NEW k \in Key
        PROVE  /\ Cost * granted[k] = 0
               /\ RateOf[k] * (lastRefill[Row[k]] + rewound[Row[k]]) = 0
    BY <1>2, Limits
  <1>4. Budget
    BY <1>2, <1>3, Limits DEF Budget, Held
  <1>5. NothingLost
    BY <1>2, <1>3, Limits DEF NothingLost
  <1>6. PromisesCovered
    BY <1>2 DEF PromisesCovered
  <1> QED
    BY <1>1, <1>4, <1>5, <1>6 DEF IInv

LEMMA IInvStep ==
  ASSUME OwnRows, IInv, [Next]_vars
  PROVE  IInv'
  <1>1. TypeInv'
    BY TypeStep DEF IInv
  <1> QED
    BY <1>1, BudgetStep, NothingLostStep, PromisesStep DEF IInv

LEMMA IInvHolds ==
  ASSUME OwnRows
  PROVE  Spec => []IInv
  <1>1. IInv /\ [Next]_vars => IInv'
    BY IInvStep
  <1> QED
    BY InitIInv, <1>1, PTL DEF Spec

\* A bucket gives out its burst and the yield of the seconds passed, plus that of
\* the seconds its last refill was dated back by: nothing else lets more through,
\* however many threads and replicas draw on it.
THEOREM WithinLimitAndRewinds ==
  ASSUME OwnRows
  PROVE  Spec => []GrantedWithinLimitAndRewinds
  <1>1. ASSUME IInv
        PROVE  GrantedWithinLimitAndRewinds
    <2> SUFFICES ASSUME NEW k \in Key
                 PROVE  Cost * granted[k] <= BurstOf[k] + RateOf[k] * (clock + rewound[Row[k]])
      BY DEF GrantedWithinLimitAndRewinds
    <2> DEFINE l == lastRefill[Row[k]]
               w == rewound[Row[k]]
    <2>1. /\ l \in Nat /\ w \in Nat /\ clock \in Nat /\ RateOf[k] \in Nat
          /\ BurstOf[k] \in Nat /\ granted[k] \in Nat /\ Cost \in Nat
          /\ Held(k) \in Nat
      BY <1>1, Numbers DEF IInv, TypeInv, TypeOK, Held
    <2>2. l <= clock
      BY <1>1, Numbers DEF IInv, TypeInv, ReadingsArePast
    <2>3. Cost * granted[k] + Held(k) <= BurstOf[k] + RateOf[k] * (l + w)
      BY <1>1 DEF IInv, Budget
    <2> HIDE DEF l, w
    <2>4. RateOf[k] * (l + w) <= RateOf[k] * (clock + w)
      BY <2>1, <2>2, Monotone
    <2>5. /\ RateOf[k] * (l + w) \in Int /\ RateOf[k] * (clock + w) \in Int
          /\ Cost * granted[k] \in Int
      BY <2>1
    <2>6. Cost * granted[k] <= BurstOf[k] + RateOf[k] * (clock + w)
      BY <2>1, <2>3, <2>4, <2>5
    <2> QED
      BY <2>6 DEF w
  <1>2. IInv => GrantedWithinLimitAndRewinds
    BY <1>1
  <1> QED
    BY IInvHolds, <1>2, PTL

\* A refusal never puts off the moment an earlier Retry-After named, whatever
\* other threads have read and asked in between.
THEOREM RetryAfterHonest ==
  ASSUME OwnRows
  PROVE  Spec => RetryAfterIsHonest
  <1>1. IInv /\ [Next]_vars =>
          [\A t \in Thread : Reject(t) => \A p \in promised[key[t]] : now[t] < p]_vars
    BY RefusedEarly DEF IInv
  <1> QED
    BY IInvHolds, <1>1, PTL DEF Spec, RetryAfterIsHonest

\* No bucket refuses before it has given out its burst.
THEOREM WholeBurstGoesOut ==
  ASSUME OwnRows
  PROVE  Spec => BurstGoesOut
  <1>1. ASSUME IInv, NEW t \in Thread, Reject(t)
        PROVE  Cost * (granted[key[t]] + 1) > BurstOf[key[t]]
    <2> DEFINE k == key[t]
               y == RateOf[k] * Elapsed(k, now[t])
    <2>1. k \in Key /\ now[t] \in Nat
      BY <1>1 DEF IInv, TypeInv, TypeOK
    <2>2. /\ tokens[Row[k]] \in Nat /\ granted[k] \in Nat /\ Cost \in Nat /\ BurstOf[k] \in Nat
          /\ RateOf[k] \in Nat
      BY <1>1, <2>1, Numbers DEF IInv
    <2>3. y \in Nat
      <3>1. Elapsed(k, now[t]) \in Nat
        BY <1>1, <2>1, Refilled DEF IInv, TypeInv
      <3> QED
        BY <2>2, <3>1
    <2>4. tokens[Row[k]] + y < Cost
      BY <1>1, Refused DEF IInv
    <2>5. BurstOf[k] <= Cost * granted[k] + tokens[Row[k]]
      BY <1>1, <2>1 DEF IInv, NothingLost
    <2> HIDE DEF k, y
    <2>6. Cost * (granted[k] + 1) = Cost * granted[k] + Cost /\ Cost * granted[k] \in Int
      BY <2>2, Distributes
    <2>7. Cost * (granted[k] + 1) > BurstOf[k]
      BY <2>2, <2>3, <2>4, <2>5, <2>6
    <2> QED
      BY <2>7 DEF k
  <1>2. IInv /\ [Next]_vars =>
          [\A t \in Thread : Reject(t) => Cost * (granted[key[t]] + 1) > BurstOf[key[t]]]_vars
    BY <1>1
  <1> QED
    BY IInvHolds, <1>2, PTL DEF Spec, BurstGoesOut

-----------------------------------------------------------------------------
(* One thread. *)

OneThread == \A s, t \in Thread : s = t

\* A single thread uses its readings in the order it takes them, so no refill is
\* dated back.
InOrder ==
  /\ \A r \in Rows : rewound[r] = 0
  /\ \A r \in Rows, t \in Thread : lastRefill[r] <= now[t]

LEMMA InOrderStep ==
  ASSUME OneThread, TypeInv, InOrder, [Next]_vars
  PROVE  InOrder'
  <1> USE DEF InOrder
  <1>1. CASE UNCHANGED <<lastRefill, rewound, now>>
    BY <1>1
  <1>2. ASSUME NEW t \in Thread, ReadClock(t) \/ RereadClock(t)
        PROVE  InOrder'
    BY <1>2 DEF ReadClock, RereadClock, OneThread, TypeInv, TypeOK, ReadingsArePast
  <1>3. ASSUME NEW t \in Thread, Grant(t) \/ Reject(t)
        PROVE  InOrder'
    <2>1. Row[key[t]] \in Rows /\ Stamp(t) /\ now' = now
      BY <1>3, Limits DEF Grant, Reject, TypeInv, TypeOK
    <2>2. rewound' = rewound
      BY <2>1 DEF Stamp, TypeInv, TypeOK
    <2>3. ASSUME NEW r \in Rows, NEW s \in Thread
          PROVE  lastRefill'[r] <= now[s]
      BY <2>1, <2>3 DEF Stamp, OneThread, TypeInv, TypeOK
    <2> QED
      BY <2>1, <2>2, <2>3
  <1> QED
    BY <1>1, <1>2, <1>3 DEF Next, vars, request, Tick, Ingest, CheckSkew, RetryAfter

\* With one thread the limits hold as they are configured.
THEOREM WithinLimit ==
  ASSUME OwnRows, OneThread
  PROVE  Spec => []GrantedWithinLimit
  <1>1. Init => InOrder
    BY Limits DEF Init, InOrder
  <1>2. TypeInv /\ InOrder /\ [Next]_vars => InOrder'
    BY InOrderStep
  <1>3. TypeInv /\ [Next]_vars => TypeInv'
    BY TypeStep
  <1>4. TypeInv /\ InOrder /\ GrantedWithinLimitAndRewinds => GrantedWithinLimit
    <2> SUFFICES ASSUME TypeInv, InOrder, GrantedWithinLimitAndRewinds, NEW k \in Key
                 PROVE  Cost * granted[k] <= BurstOf[k] + RateOf[k] * clock
      BY DEF GrantedWithinLimit
    <2>1. rewound[Row[k]] = 0 /\ clock + rewound[Row[k]] = clock
      BY Numbers DEF InOrder, TypeInv, TypeOK
    <2> QED
      BY <2>1 DEF GrantedWithinLimitAndRewinds
  <1> QED
    BY InitTypeInv, <1>1, <1>2, <1>3, <1>4, WithinLimitAndRewinds, PTL DEF Spec
=============================================================================
