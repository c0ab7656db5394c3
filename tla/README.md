# A TLA+ model of Drone Multi-Sensor

The program fuses detections from many sensors into tracks, watches restricted
zones, opens and closes incidents, and serves dashboards. This directory holds
TLA+ specifications of its stateful core, TLC configurations that check them on
small instances, and proofs checked by TLAPS.

    tlc -workers 2 -config Tracking_locked.cfg MCTracking
    tlc -workers 2 -config Delivery.cfg MCDelivery
    tlapm Tracking_proofs.tla

## 1. The system

FastAPI runs synchronous handlers in a thread pool; every helper of `app/db.py`
opens a transaction of its own (`db_session`, db.py:77-80); several replicas may
share one PostgreSQL database. So a handler is a *sequence of transactions* that
other handlers interleave with, unless a lock says otherwise.

| component | state | operations | talks to |
|---|---|---|---|
| association (`tracking.py`) | tables `track`, `track_kalman_state`, `detection`; `_association_lock` | associate one detection or a batch, expire stale tracks | incidents, live feed, queue |
| incidents (`incidents.py`, `api/incidents.py`) | table `incident` | open (zone, predicted, loitering, formation, shadowing), auto-close, acknowledge, resolve | alerting, live feed |
| track API (`api/tracks.py`) | none of its own | `GET`s that sweep first, **without the lock** | association |
| ingest (`api/detections.py`, `consumer.py`) | none | rate limit, clock skew, hand over | rate limiter, association |
| rate limiter (`ratelimit.py`) | buckets in memory, or `rate_limit_bucket` | `allow`, `retry_after` | |
| cluster lock (`cluster_lock.py`) | PostgreSQL advisory lock | wraps the association | |
| live feed (`live.py`, `api/live.py`) | subscriber sets, bounded queues, the event loop's callbacks | publish, subscribe, unsubscribe, close all | every component that changes a track or an incident |
| background loops (`main.py`) | two asyncio tasks | behavior sweep, retention purge | incidents, db |
| queue (`queue_publisher.py`, `consumer.py`) | a NATS connection per thread, a receive buffer | publish, consume, stop | association, alerting |
| alerting (`alerting.py`, `notifications.py`, `mitigation.py`) | none | tell every configured channel of an incident | incidents |
| assignment (`assignment.py`), fusion (`fusion.py`, `classification.py`, `rf_signatures.py`, `allowlist.py`), behavior (`behavior.py`), zone tests (`zones.py`, `zone_validation.py`) | none (pure) | | association, incidents |
| authentication (`auth.py`, `config.py`, `sso_session.py`, `scripts/rotate_api_key.py`) | the keys file, its cached contents, `api_key_usage` | authenticate, rotate, record use | every endpoint |
| zones, sites, sensors, audit (`api/*.py`, `db.py`) | tables `zone`, `site`, `sensor_registry`, `authorized_operator`, `audit_log` | create, rename, register, label, list by pages | |
| startup (`main.py`, `db.py`, `migrations/`) | the schema, the default site, the seed zones | create, alter, index, adopt, seed | other replicas, through the database |
| bridges (`adapters/`) | per receiver: what devices said, when each was posted | read, build, space, post with retries | ingest, over HTTP |
| filters (`kalman.py`, `imm.py`), geometry, airspace, ml, reporting, export, dashboard | numerics, parsing, formatting | | |

What is hard: the *check-then-act over several transactions* (a track or an
incident is looked up, then created), the *whole-row writes* of `update_track`
and `update_incident` (what was read long ago is written back), the sweeps that
run on `GET` requests outside the lock, reports that arrive late or with skewed
clocks, requests that die between two transactions, and the agreement of four
independently configured time limits. Around that core: callbacks handed from
worker threads to an event loop, a byte stream cut anywhere, replicas that
migrate one database at once, a keys file replaced while it is read, names that
are checked in one transaction and used in the next, pages cut out of a moving
table.

Correct means: an object is followed by one track; an alarm is raised once while
it is unresolved; a track leaves `active` only when quiet and never comes back
from `closed`; nothing stays open on a closed track; a label moves one way; quiet
tracks are closed in the end. A dashboard is shown its own site's events in
order and comes to the newest; no frame is torn; every channel hears of an
incident once; every replica starts, on a complete database; a removed key opens
nothing; a zone's name is its own; the audit log tells what happened; the pure
rules say what their definitions say.

## 2. Modules

| module | models | kind |
|---|---|---|
| `Tracking` | association, expiry, incidents of a track, acknowledge/resolve | specification and properties |
| `MCTracking` | instances of `Tracking` for TLC | symmetry |
| `Association` | what an association under the lock promises | abstract specification |
| `Tracking_proofs` | type correctness, one track per object, one open incident per alarm | proofs |
| `Tracking_lifecycle_proofs` | labels, expiry, closed tracks and their incidents, last_seen; `Tracking` implements `Association` | proofs |
| `RateLimit`, `MCRateLimit` | token buckets and the requests that draw on them | specification, properties, instances |
| `RateLimit_proofs` | budget of a bucket, honest Retry-After | proofs |
| `Retention`, `MCRetention` | behavior sweep and retention loop over shared tables | specification, properties, instances |
| `Retention_proofs` | one incident per behavior, active tracks stay | proofs |
| `Feed` | what the live feed promises | abstract specification |
| `LiveFeed` | the live feed: workers, loop callbacks, bounded queues, handlers, shutdown | specification, implements `Feed` |
| `LiveFeed_proofs` | types and queue bound; the steps of the feed are steps of `Feed` | proofs |
| `QueueConsumer` | consumers of a NATS queue group: framing, keep-alive, stop, reconnect | specification |
| `Bridges` | the loops of ten sensor bridges and their retries | specification |
| `Startup` | replicas that migrate and seed one database, with kills | specification |
| `Alerts` | severity of an incident and the fan-out to eight channels | specification |
| `MCDelivery` | one instance of the five | suite |
| `Delivery_proofs` | `Startup`, `Alerts`, `Bridges`, `QueueConsumer` | proofs |
| `Keys` | keys file, cache, rotation, cookies, key usage | specification |
| `Registry` | zones, sites, sensors, operators, labels and their audit entries | specification |
| `Paging` | listings read page by page while rows come and go | specification |
| `Assignment` | the Hungarian algorithm over a batch's costs | algorithm, step by step |
| `Rules` | zones, loitering, shadowing, formations | operators and references |
| `Fusion` | votes, signatures, operator claims, decay | operators over a growing history |
| `MCAccess` | one instance of the six | suite |
| `Assignment_proofs` | `Assignment`, `Fusion` | proofs |
| `Access_proofs` | `Registry`, `Keys`, `Paging` | proofs |

### Tracking

Processes: a `Worker` serves one detection at a time (`associate_detection`,
tracking.py:337-367) from its arrival to the end of its commit; a `Reader`
serves `GET /api/tracks` (api/tracks.py:37-57), i.e. runs the same sweep as of
`utcnow()` without the lock; an `Operator` acknowledges or resolves an incident
in two transactions; the clock ticks; a request may die anywhere (`Crash`).

Every transaction is one action, named after the helper or the step it runs:
`ListActive`, `MarkLost`, `ListLost`, `MarkClosed`, `ListOpen`, `AutoClose`
(sweep); `FindMatchingTrack`/`NoMatch`, `SpawnTrack`, `SaveFilter`,
`CreateDetection`, `UpdateTrack` (association and commit); `LookUp`,
`CreateIncident`, `ListExits`, `Foresee` (incident checks). `pc` says which
transaction a process runs next. Rows read in one transaction and written in a
later one live in `rows` (a sweep's listing) and `cur` (the track a worker
updates); `update_track` writes all columns, so these writes may undo what was
committed in between. That is the point of the model.

Abstracted: positions, velocities and filter states become *the object the track
follows*: a detection passes the spatial gates of a track exactly when both are
of the same object. The gates on time are kept. The fused label is a free choice
from `Votes`, the zones a position lies in are a free choice too, and one choice
serves both zone checks of a commit (zones do not change during a commit).
Publishing, alerting and logging are left out: they come after the state change
and do not fail into the caller.

Environment assumption: `MaxLate` bounds how much older than the newest pending
or stored report of its object a report may be when it is received. The clock
skew check (`Skew`) alone allows twice 300 s, far beyond the 30 s time gate.

`Association` says what the lock is for: a request expires all quiet tracks in one
step (`Expire`) and records its detection in another (`Record`: the row, the filter
and the detection at once, on a track that fits it or a new one where none does),
and nobody else expires or records in between; then it may change the label
(`Relabel`). `AssociatesAtomically` is the refinement. The table a request leaves is
there before its transactions have all run: `Outlook` ends the sweep that has begun
and writes the row the holder of the lock has in memory, `Filtered` and `Recorded`
add the filter and the detection it is about to store.
`reopened` is a history variable: incidents that a late acknowledgement took out
of `resolved`.

### RateLimit

A `Thread` serves one ingest request: for each of its detections the sensor's
bucket, then the site's, then the clock-skew check (api/detections.py:26-68,
100-161). `allow` is two actions, because it reads the clock before it takes the
lock: `ReadClock`, then `Grant` or `Reject`; a refusal is followed by
`RereadClock` and `RetryAfter`, the peek that fills the header. `Row` says where
a bucket lives: a dictionary per limiter in memory, one table for both in
PostgreSQL. Tokens are integers in units of a fraction of a detection, so rates
below one per second are covered; the header's rounding up is in `Wait`. A new
bucket is full; a row nobody has used holds more than any burst, and the first
refill cuts it to its user's burst, which is the same. `granted`, `rewound`
and `promised` are history. A batch holds detections of one sensor.

### Retention

The two asyncio loops of `main.py`, per `Replica`. The behavior loop reads the
active tracks (`ListActive`), then for every alarm the checks raise looks up
(`LookUp`) and inserts (`CreateIncident`); which tracks form a formation or
shadow each other is a free choice. An insert that refers to a purged row fails
(`FailSweep`); the loop logs it and starts over. The retention loop purges
detections, tracks (`SelectTracks`, then `PurgeTracks` in the same transaction
but after a read that locks nothing) and audit entries; a delete that leaves a
reference behind fails (`FailPurge`) and ends the loop, which has no handler. A
policy that is not configured purges nothing. Foreign keys are those of
`schema.py`, enforced on both databases (db.py:61). An `Operator` reads an
incident and checks its status (`ReadIncident`), then writes it back
(`WriteAcknowledged`, `WriteResolved`; api/incidents.py:42-84), whatever the sweeps
did in between; `form` is what it holds. Tracks expire in atomic steps and their
status only moves on: how such writes undo each other is the subject of
`Tracking`. `Quiet` bounds the tracks that go quiet; `found` and `reopened`
(incidents that a late acknowledgement took out of `resolved`) are history.

### Feed and LiveFeed

`Feed` says what a dashboard may count on: events of its own site, of one
publisher in order, none twice; some may be lost. `LiveFeed` is the code. A worker
that publishes (live.py:95-112) copies the set of its site's queues (`Publish`) and
hands each a callback (`HandOff`); the loop runs them in order (`RunCallback`,
dropping the oldest payload of a full queue); a handler (api/live.py:25-63)
accepts, subscribes, takes and sends (`Connect`, `Subscribe`, `TakeNext`,
`SendText`); `CloseAll` queues a sentinel for every subscriber, in any order, and
`CloseLoop` follows when no handler is left. A browser may `HangUp`, unnoticed by a
handler that waits. `KeepsPromise` is the refinement: `INSTANCE Feed WITH announced
<- published, heard <- received`. `newest` and `late` are history.

### QueueConsumer

The stream of a NATS connection is a sequence of units: a line's text, its CRLF,
and as many payload units as the header announces; `recv` returns any number of
them. `stage` follows `_subscribe_once` (queue_publisher.py:99-157): `SubscribeTo`,
`CheckStop`, `RecvChunk` or `RecvTimeout`, then the parser (`ParseMessage`,
`ParseLine`, `ParseMore`); `RecvClosed` is the reconnection of `consume`. The broker
is external: it gives a message to one connection of the group, sends PINGs,
closes connections or falls silent. `Signal` sets the stop event at any time. The
messages of `Harmful` are those whose handler raises what `consume` does not catch.

### Bridges

An initial state picks the bridge (`kind`); each reading (`HeardAdvertisement`,
`HeardBeacon`, `Swept`, `Recorded`, `Datagram`, `PositionMessage`, `PacketLine`,
`SbsLine`, `MotionFrame`, `YoloFrame`) is turned into the devices it can report, by
the conditions of that bridge's payload builder; `Consider` applies the bridge's
interval, `Accepted`, `Failed`, `AnswerLate` and `Wake` are `sdk.post_detection`.
Of a message only which fields it bears is kept; the clock is monotonic and starts
at 0 or 1. What differs between the bridges is what can go wrong: which of them
gather fields of several messages, which have an interval, whether it is stamped
before or after the post and whether a failed post stamps it.

### Startup

A process walks through `init_db`, `ensure_default_site` and `load_zones_from_file`
one transaction at a time; `boot` says which is next. Each of the first three
steps looks (`Inspect`) and alters later (`Alter`): `saw` holds the tables to drop
or make, or the columns to add, that the look found, and exactly those are
altered. `DROP TABLE` takes the table of the name whatever its shape is by then,
so a replica that saw the old filter table drops the new one another has made;
what is not possible any more (no table to drop, a table or column that is there
already) crashes the process. `Databases` are what the Alembic revisions and
`create_all` leave, with rows from before sites or after; `Kill` strikes anywhere,
`Restart` is the container's.

### Alerts

`Alarmed` works out the severity (kind, label, corroboration), opens the row and
lines up the messages that `_open_incident` or `_open_behavioral_incident` sends,
in their order, through each channel's threshold and recipients; `Answered`,
`Refused` and `Ended` are what a peer may do with the first of them. `Resolved`
lets the alarm be raised again.

### Keys

The keys file is the sequence of its versions. `RotateRead` and `RotateWrite` are the
script; a request (`StartWithKey`, `StartWithCookie`) passes `StatFile`, `ReadFile`,
`StoreFile` (config.py:20-45), is judged in one step by what it got (`JudgeKey`),
writes the key's usage in a later one (`WriteUsage`) if the flush slot was due, and
resolves its site (`ResolveSite`). A version's modification time is its number
divided by `Granularity`. `since` and `at` of a request are when it began.

### Registry

A call is a check, a change and an audit entry, each a transaction: `CreateZone` and
`InsertZone`, `EditZone` and `UpdateZone`, `CreateSite` and `InsertSite`; a
registration (an upsert) and a label are one change; `RecordAudit` follows each.
`Die` is a process that dies, or a database error, in between. Unique indexes
refuse what the checks let through. `changes` and `unaudited` are history.

### Paging

`Insert` adds a row of the present (log) or of about now (detections), `Purge` deletes
what is older than the retention, `ReadPage` reads a page at the current offset and
ends on a short one. A log is newest first, a window of detections oldest first
(`Ahead`). Each listing is ordered by one column that is not unique (db.py:296, 499,
953-956), and many rows share a value of it: the plots of a batch, the audit
entries of one instant. So each page chooses the order of ties anew: `NextPages` are
all pages whose rows are `InPlace`, i.e. behind the rows ahead of them and among
their ties, and none twice within the page.

### Assignment, Rules, Fusion

`Assignment` is `hungarian_min_cost` with one action per turn of its loop: `Reach`
raises the potentials and adds the nearest column to the tree, `Augment` flips the
path. Its initial states are all the cost matrices of the instance. `Rules` has no
steps: each initial state asks a question (four corners, two movements, a group of
tracks), and the property compares the code's algorithm with a definition that
says the same in another way: the sides of a triangle against ray casting, a
shared point against the orientation tests, transitive closure against
union-find, stretches without a gap against the scan. A point on a border is in
one of two adjacent zones, not in both and not in none. `Fusion` adds detections to a
track's history (`Commit`, newest first, cut at the limit) and checks the vote in
each state: who wins, by how much a single detection must tip it, and what the
confidences add up to. A detection of confidence 0 votes and weighs nothing; a label
that only such votes back has no confidence, as the code returns `None` for a total
of 0. Numbers are whole: distances lie on a line or a grid, confidences are
hundredths. What floats lose is not covered.

## 3. Runs

| run | question | bounds |
|---|---|---|
| `association` | can two active tracks follow one object? | 2 workers, 1 dashboard, 3 rows, detections with and without position, 1 crash, clock to 2, stale = drop = gate = 1 |
| `incidents` | can an alarm be opened twice? | 2 workers, 1 dashboard, 1 operator, 2 tracks, 2 incidents, 1 crash |
| `locked` | the lifecycle when every sweep is inside the lock; is an association atomic then? | 2 workers, no dashboard, no crash, 3 rows, clock to 3, labels unknown and drone, zone, prediction and loitering |
| `expiry` | do quiet tracks get closed? | 1 worker, 1 dashboard, fair |
| `dashboard_expiry` | the lifecycle with a dashboard: violated | 1 worker, 1 dashboard |
| `late_acknowledge` | is a zone's incident unique, as a comment says? violated | 1 worker, 1 operator |
| `ratelimit_threads` | how much does a bucket give out, how soon may it refuse, does a Retry-After hold? | 2 threads, 1 sensor, requests of 1 or 2 detections |
| `retention_overlap` | both loops at once: doubled or missing incidents, purged active tracks? | 2 tracks, shadowing, 3 incidents, 1 operator, track purges |
| `retention_purge` | is everything past its retention purged? | 2 tracks, 1 detection, 1 audit entry, formation, 1 incident, fair |
| `retention_shadowed_audit` | a purge against a shadowing incident: violated | 2 tracks |
| `delivery` | feed, queue, bridges, startup, alerts: eleven properties | below |
| `access` | keys, registry, paging, assignment, rules, fusion: ten properties | below |

`delivery` and `access` are suites: their modules share no variable, and where the
program's parts do meet, each module already lets the other side happen (rows
come and go freely in `Paging`, whoever writes them; `Alerts` ends a row with a
publish that `LiveFeed` starts from any worker). `focus`, chosen initially, says
which one moves, and the others stay parked in one state. Each property is about
one module and is exercised in its focus only. Deadlock is not checked: clocks,
calls and events are bounded, a bridge may end with its input and a consumer stops
when told to.

| focus | bounds, and why they are enough |
|---|---|
| feed | 1 dashboard, 2 workers, 2 sites, queue of 2, 4 events: a queue overflows while a copy of the subscribers is stale, and the sentinel meets later events |
| queue | 1 consumer, 3 messages (one with a payload that holds a header, a CRLF and a PING; one harmful), chunks up to 3, 1 PING, 1 lost connection: every cut of a frame across two reads and a reconnection. Which member of a group gets a message does not matter to another's connection |
| bridges | 2 devices, interval 2, 2 retries, readings of up to 2 reports, clock to 4: two devices in one reading, a retry that outlasts an interval |
| startup | 2 replicas, 2 zone names, 1 seed, 1 kill; every database of `Databases`, with repeated names after sites but not before them ("what other constants show") |
| alerts | 2 threads, 2 incidents, 2 labels; SMS with two numbers, the mesh with none, thresholds on some |
| keys | 1 key, 1 rotation at a time, 2 requests, 3 versions of the file, clock to 2, 1 failed write: a version is replaced twice within a request. The first version is no file or has the key that does not expire |
| registry | 3 callers, two of them of one site, 2 names, 2 zones, 3 calls, 1 death |
| paging | pages of 2, 4 rows, retention 1, clock to 3: an insert and a purge between two pages, ties across their border |
| assignment | 3 detections, 2 tracks, all distances 0..`Gate` or blocked |
| rules | 3 by 3 grid; movements over 4 instants and 3 places; groups of 3 |
| fusion | histories of up to 3 of the detections of `EvidenceOf` |

The clock reaches past `Drop` plus the spawn in the runs about expiry, so tracks
go through all three states; two track rows let a track be spawned next to
another; two incident rows let a zone be re-entered after its incident closed.
`CHECK_DEADLOCK FALSE` everywhere: track ids and the clock are bounded, so a run
ends when they are used up.

Fairness (`FairSpec`, run `expiry`): threads are scheduled (weak fairness of each
process' next step), dashboards keep polling, time passes. Nothing makes a
detection arrive or an operator act. `FairSpec` of `Retention` (runs
`retention_purge` and `retention_shadowed_audit`) asks for the retention loop's next
step only: its task sleeps and wakes up again for as long as it lives. In
`delivery`, threads, the event loop and processes that have a next step take it,
a killed replica is restarted, the API answers a bridge in some way and its clock
goes on; no event is published, no message sent, no client connected, no signal
given and no peer made to work by fairness. `access` states no liveness.

Bounds: a bucket with three readings lets a reading be overtaken, a
refill be dated back and the same second be counted twice; with three incidents
the alarms of a pair are raised, resolved and raised again; one incident suffices
to stand in the way of a purge. Two tracks make one pair: that an incident of one
pair never stands in for another is proved (`EverythingRaised`).

### What the violations show

`dashboard_expiry`: `GET /api/tracks` calls `expire_stale_tracks` without
`_association_lock`; the sweep's writes are whole rows. A commit between the
listing and the write is undone: its `last_seen`, its label, its status. In the
other order the commit revives a track the sweep has just closed, or opens an
incident on it after the sweep listed what to close. `RowsOnlyMoveOn` and
`ClosedTrackIsSettled` of `locked` fail the same way once
`Reader` is not empty. `expiry` shows that the tracks themselves recover; an
orphaned incident does not, since a closed track is not swept again.

`retention_shadowed_audit`: `purge_old_tracks` detaches `incident.track_id` and
forgets `incident.related_track_id`, so it fails once a shadowing incident names
the track, and ends the loop: the track purge itself (`FinishedTracksArePurged`
fails as well) and the audit purge behind it stop.

### What other constants show

Each of these takes a change to one configuration.

* `RateLimit`, `GrantedWithinLimit` with two threads, burst 1 and rate 1: a thread
  uses a clock reading older than the last refill (`allow` reads the clock before it
  takes the lock, ratelimit.py:147), `last_refill` goes back, and the next caller is
  credited the same second again. `RateLimit_proofs` shows that this is all there
  is to it. With `Postgres = TRUE` and `Site` one of `Sensor`, `BurstGoesOut` fails: a
  sensor named like the site's bucket shares its row, where memory keeps them
  apart. A batch larger than a burst is never let through, though each refusal
  comes with a Retry-After.
* `Retention`, `ClosedTrackIsSettled` with `Behaviors = {"formation"}`: a track is
  closed after the sweep listed it (main.py:104), and its new incident stays open.
  With a second `Replica`, `OneOpenIncidentPerBehavior` fails: the sweeps look up and
  insert next to each other. Without its exemption of `reopened` it fails with one
  replica and one operator: an acknowledgement is read, the track is closed and the
  incident with it, a sweep whose list is older finds none open and is about to
  insert another, and the acknowledgement is written.
* `Startup`, `EveryReplicaStarts` with `Found` containing `"no_sites_repeated"`, a
  database from before sites in which two zones have one name: the index on (site,
  name) is made while their rows have no site, which no unique index minds, and
  `_backfill_site_id_columns` then violates it (db.py:216), at this start and at every
  other. The care taken in `_migrate_indexes` (db.py:168-176) was to prevent that.
* `Startup`, `ServesWithFilterTable` with two processes and `Found = {"no_sites"}`:
  `_migrate_kalman_state_table` inspects, and drops in another transaction
  (db.py:134-139). Both see the old table; one drops it, makes the new one and
  serves; then the other drops that, and until it has run `create_all` no detection
  can be filtered. `ServesMigrated` allows for this, and for no more.
* `Paging`, `EveryDetectionRecorded` with the bounds of `Access.cfg` and `PagingSpec`: of
  three detections of one time, read two at a time, the second page brings one of
  the first again, and a third is never recorded ("one detection per line",
  replay_detections.py:9-10). The count is right. `PagesAreComplete` says that this
  is all that can happen: a row is missed only where a tie of it comes twice.
* `Keys`, `JudgedByCurrentKeys` with `Granularity = 2`: two rotations within one tick
  of the file system's clock leave the first one cached (config.py:34). Two
  overlapping runs of `rotate_api_key.py` write back what they read
  (rotate_api_key.py:106), so a removed key may return to the file itself.

And these the models do as the code does, without a property against it:

* A message whose handler raises anything but an `OSError` (`TimeoutError` and
  `ConnectionError` are such; queue_publisher.py:186) ends a consumer
  (`stage = "dead"`), though queue_publisher.py:104-106 means to survive a bad frame.
  An `OSError` of the handler is taken for a broken connection; that is not modelled.
* A peer that answers something other than HTTP ends the row of alerts and the
  request with it (`Ended`; alerting.py:92, notifications.py:33); a late answer ends a
  bridge (`AnswerLate`; sdk.py:57).
* The sentinel of `close_all` is dropped if `Cap` more events are queued behind it.
* A sensor bridge with a `last_post` of 0.0 posts nothing in the first interval after
  a boot, which dump1090_bridge.py avoids for its own clock.
* A label's confidence below the floor rises with age (fusion.py:138); of two labels
  that tie, the one voted for last in time wins (it comes first in the history),
  though db.py:510 says order does not matter; a report sent twice votes twice.
* A sensor or operator registered under another site's key moves to it.
* `replay_detections.py` takes `--end` as inclusive, the API's window does not
  (db.py:497); it says insertion order, the query says `ORDER BY timestamp`.

## 4. Proofs

All for arbitrary constants, from `TimingAssumption` and `NamesAssumption` of
`Tracking` only, where not said otherwise. `Spec` and its namesakes without
fairness; the theorems hold for the fair specifications too.

* `TypeCorrect`: `Spec => []TypeOK`. The type invariant is not inductive: a
  request uses locals it set earlier. `LocalsSet` says which locals are set at
  which `pc`, `ListedExist` that an incident once listed exists.
* `OneTrackPerObject`: `Spec => []OneActiveTrackPerObject` if `Stale <= Gate` and
  `MaxLate <= Gate`. The inductive invariant `IInv` adds: who is inside holds the
  lock (`LockHeld`); a sweep, locked or not, never writes an active row
  (`SweepsOnlyExpire`); after its own sweep a worker sees no active track quieter
  than `Stale` (`SweptBefore`); no pending report is later than `MaxLate`
  (`InOrder`, `NewestIsNewest`); so a worker that finds no candidate has no
  rival, and keeps none until its row is written (`NoRival`). Unlocked sweeps
  only take followers away, which is why they do not break this property although
  they break others. Steps that create no active row, start no request and choose
  no track are `Calm` and keep everything at once; six actions are proved one by
  one.
* `OneIncidentPerAlarm`: `Spec => []OneOpenIncidentPerAlarm`. The invariant says
  that what a worker looked up is still so when it inserts (`StillNone`); steps
  that open nothing are `Settling`.
* `RateLimit_proofs`, from `LimitsAssumption`: `Budget` says that what a bucket
  has given out and still holds came from its burst and from seconds counted
  once, and once more for every rewind across them; `NothingLost` that nothing of
  the burst is lost; `PromisesCovered` that at a promised moment the bucket holds
  the price of a detection. They are inductive with the types
  (`WithinLimitAndRewinds`, `WholeBurstGoesOut`, `RetryAfterHonest`), if
  no two buckets share a row (`OwnRows`); with one thread no reading is older
  than a refill, so the limit itself holds (`WithinLimit`).
* `Retention_proofs`, from `NamesAssumption`, `MaxAssumption` and
  `PolicyAssumption`: with one replica, what a sweep is about to insert is still
  missing but for incidents in `reopened` (`CandidateIsNew`), because all other steps
  only resolve and detach incidents or put one there (`OneIncidentPerBehavior`); with any number of replicas, what a sweep
  has seen is still to be looked up, about to be inserted, or has an incident of
  its own (`SeenIsPending`, hence `EverythingRaised`), and the tracks a purge has
  read stay finished (`SelectedAreFinished`), so no active one is purged
  (`ActiveNeverPurged`).

* `Tracking_lifecycle_proofs`. Two properties of a step of a row hold for
  `Reader = {}`, with operators and any number of crashes: `RowsMoveOn` and
  `QuietTracksExpire`. Neither says anything of the rows that
  requests hold in memory, and both depend on them, so `OrderInv` does: the lock is
  held by whoever is inside, a row a sweep has listed is still the stored one
  (`RowsAreCurrent`), a track that a worker holds is active and its label is the
  stored one (`HeldIsActive`). `RowMoves` lists the moves a row can then make.
  The run `dashboard_expiry` shows that the hypothesis is needed.
  `ClosedTracksAreSettled` needs `MaxCrashes = 0` as well (a request that dies
  between two transactions of its sweep leaves its list behind) and that a list
  is worked through before the next is made (`ListsAreWorked`).
  `LastSeenHasEvidence` needs only `MaxCrashes = 0`: rows written by unlocked sweeps
  are stale but were true once, and detections stay (`Evidence`, `Fresh`).
  The run `locked` has these hypotheses.
  `AssociationIsAtomic` has the same two hypotheses: every step of `Tracking` is a step
  of `Association` or changes nothing of it (`AssociationStep`). `AtomicInv` adds that
  a row a sweep has not yet dealt with is on its list (`SweepsToTheEnd`), so its
  first listing may announce the table `Expire` leaves, and that a worker about to
  spawn a track still has nothing to match (`StillUnmatched`), so the `Record` step is
  taken when a row is chosen and the transactions after it only carry out what
  the outlook shows. Without the first hypothesis it is false: `dashboard_expiry`
  breaks the outlook.
* `LiveFeed_proofs`, from `FeedAssumption`: an event on its way to a client, in a
  worker's hands, among the loop's callbacks, in the queue or at the handler, is of
  the client's site and later than what the client has of its worker, and the
  places are in order among each other (`FeedFits`). So each step of `LiveFeed` is a
  step of `Feed` or changes nothing of it (`FeedKeepsPromise`), and no queue exceeds
  its bound (`FeedTypeCorrect`).
* `Delivery_proofs`, each part from its module's assumption.
  `StartupServesMigrated`: `Relies` says what a replica at each step of its startup
  counts on; no step of another replica or kill takes it back (`Forward`), but for the
  filter table, of which it says that it is there or that a replica is still to
  make it (`FilterIsComing`): who drops it goes through `create_all` next.
  `FramesStayWhole`: what the broker sent on a connection is a stream cut into frames;
  buffer and wire hold what follows one of the cuts, up to the end unless something
  was lost (`InStep`). A line is therefore parsed where a frame begins, and not in a
  payload that looks like one (`HeadIsFrame`).
  `ChannelsHearOnce`: what is due for an incident is what was sent and what its thread
  has left, in this order (`Accounted`), and the list names each recipient once.
  `PostsAreSpaced`: the stamps are behind the reading that is being posted
  (`StampsArePast`), and a post that is due stays so through its retries
  (`PostIsDue`, `FrameIsDue`).
* `Access_proofs`, from `RegistryAssumption` and `KeysAssumption`. A request about to
  write its audit entry has made its change (`CallMakesSense`), zones are numbered
  (`ZonesAreNumbered`): `ZoneNamesStayUnique`, `AuditIsTold`. `LastUseIsRecent`: a
  real last use is recorded, is being written, or falls within the interval of the
  slot that was taken (`UseRecorded`, `SlotTaken`). `KeysAreCurrent`, for `Granularity
  = 1`: a cached content was read at its modification time or later (`CacheIsRead`),
  and so was what each request holds (`Current`); with a coarser clock the property
  fails (section 3). `ListingsAreComplete`, from `PagingAssumption`: only rows of one
  time share places, and share all of them (`OnePlace`). So what a page brings of a
  time is counted by the places it covers: a reader of a log that has passed every
  place of a time has got as many rows of it as the table has (`StillAhead`), which are
  all of them unless one came twice. Rows are added in front and purged behind, a
  whole time at once (`PurgedTogether`), so that a place moves towards the end only.
  While nothing enters or leaves the window of a recording, every row it has is in
  its place (`RecordedSoFar`).
* `Assignment_proofs`, from `AssignmentAssumption`: `BatchesAreJointlyBest`. The invariant is
  the textbook one, stated for the arrays of the code: the potentials are feasible,
  matched pairs are tight and a free column has no potential (`PartlyAssigned`,
  `Charged`); the columns of the tree are reached along tight pairs, each from one
  reached earlier (`Searched`, `Reached`). `ReachKeeps` and `AugmentKeeps` are its
  two steps; `PathIsFound` says the walk back through `way` ends at the root, for the
  tree has a rank that falls along it (`Ranked`). `AnswerIsBest` is weak duality: the sum of the
  potentials is at most what any matching costs and is what the answer costs. The
  lemmas on sums and the inductions they take are in front: `NatSets` and `FinSets`
  state induction for a *set* of numbers or of sets instead of a predicate, which the
  provers can instantiate, and derive it from well-founded minimality.

  `VotesAreFair`, from `FusionAssumption` (confidences of detections are fractions; an
  operator's signature file may hold any number): for any detections in any order and
  any limit on the history. The only invariant it takes is that a history holds
  detections that were filed; the rest is what the fold computes from one.
  `BallotsExist` unfolds it into a function of the number of votes counted,
  `VotesAreTallied` says by induction on that number that each label has the sum of
  the weights of its voters and that the labels come in the order of their first
  votes. `WinnerLeads`: whoever wins has more behind it than any other label, or as
  much and an earlier first vote; that total order is what `FlipNeedsBacking` needs,
  since a detection that backs another label could otherwise turn a tie by leaving
  it (`PrecedesInRest`). `TotalFacts` and `FourFloors` give the sum of the confidences, each
  rounded down, as 97 to 100 hundredths.

Assumptions that were added for a proof say what the code takes for granted: the
placeholders `None`, `"none"` and `"missing"` are no track and no key, a payload is a
sequence of its units, a flush interval is not zero, a table has room for a zone.

Only model-checked:

* liveness (`QuietTracksClose`, `NewestIsDelivered`, `ToldClientsEnd`, `CatchesUp`,
  `ComesBack`, `EveryReplicaStarts`, the purges): fairness and ENABLED are out of the
  prover's reach;
* `ZoneRules`, `MovementRules`: they compare what folds over corners, movements and groups
  of tracks compute with a definition of another form, on initial states; the sorting
  they start from is opaque to the provers (`SortSeq`), and the geometry multiplies
  unknowns, which the SMT solver does not settle;
* `DeliveryTypeOK` and `AccessTypeOK` as a whole; what the proofs need of them is in
  `FeedTypeOK`, `StartupInv`, `AlertsInv`, `StampsArePast`, `QueueShape`,
  `RegistryInv` and `KeysShape`.

## 5. Plan

1. `ClusterLock`: the two levels of the lock as a refinement of one mutex; what a
   lost database session does while the lock is held.
2. The commits of a batch inside `Tracking`, one after the other under one lock,
   with `Assignment` as the choice of tracks.
3. `IncidentDesk`: `acknowledged_by` and the description under concurrent
   acknowledge, resolve and auto-close.

## 6. Not modelled

The filters (`kalman.py`, `imm.py`), geometry and beamforming are floating-point
numerics; their outcome enters the models as a free choice (does a detection pass
a gate, how far is it). The trained models (`app/ml`), the importers of airspace
files, the decoders inside the bridges, reports, exports, metrics and logging are
parsing or formatting without state of their own. Cursor-on-target, slew-to-cue,
the PTZ and Lattice bridges and the `samples` poll the API from outside; nothing in
the server depends on them. The dashboard is browser code: its polling is the
`Reader` of `Tracking`, its socket the `Client` of `LiveFeed`. The OIDC exchange is a
library's; its result, a role and a site in a signed cookie, is in `Keys`. Backup,
restore, load test and simulator are operational tools.
