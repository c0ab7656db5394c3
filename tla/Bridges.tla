------------------------------- MODULE Bridges -------------------------------
(***************************************************************************)
(* A sensor bridge of app/adapters: it reads its receiver in a loop, turns *)
(* a reading into the detections it has, drops what is no usable report,   *)
(* and posts the rest one by one with sdk.post_detection before it reads   *)
(* again.  Bridges share nothing; an initial state says which one runs.    *)
(* The Remote ID bridges gather what a device has said in several          *)
(* messages; they, the RF sweep and the cameras space their posts by       *)
(* --min-interval, each in its own way; the others post every report.      *)
(*                                                                         *)
(* urllib is external: a POST that fails while it is sent or is answered   *)
(* with an error status raises URLError; one whose answer does not come in *)
(* time raises TimeoutError, which neither post_detection nor any bridge   *)
(* catches.                                                                *)
(***************************************************************************)
EXTENDS Integers, Sequences, FiniteSets, SequencesExt

CONSTANTS
  Device,        \* MAC addresses, frequency buckets, aircraft, cameras
  MinInterval,   \* --min-interval
  RefreshInterval,  \* of CategoryLookup
  Power, Threshold, \* of a bin, and of --threshold-db
  MaxRetries,    \* --max-retries
  Backoff,       \* --retry-backoff
  MaxReports,    \* bound on the reports of one reading
  MaxUptime      \* bound on the clock

ASSUME BridgeAssumption ==
  {MinInterval, RefreshInterval, Threshold, MaxRetries, Backoff, MaxReports, MaxUptime} \subseteq Nat /\ Power \subseteq Nat

VARIABLES
  kind,          \* which bridge it is
  uptime,        \* time.monotonic()
  phase,         \* what it does next
  known,         \* device_state: what each device has said
  lastPost,      \* last_post: 0.0 for a device never posted
  reading,       \* the clock when it was read, and the devices left to post
  attempt, wake, \* of post_detection
  lastRefresh,   \* _last_refresh of CategoryLookup; -inf at first
  acked          \* history: the reading of each device's last post answered 201

BridgeVars == <<kind, uptime, phase, known, lastPost, reading, attempt, wake, lastRefresh, acked>>

Cameras == {"motion", "yolo"}
Kinds == {"ble", "wifi", "sweep", "acoustic", "asterix", "mavlink", "droneid", "dump1090"} \cup Cameras
Said == {"identity", "position"}
Never == -(MinInterval + RefreshInterval)
Idling == [now |-> 0, left |-> <<>>]

BridgeTypeOK ==
  /\ kind \in Kinds /\ uptime \in Nat
  /\ phase \in {"read", "lookup", "reports", "post", "backoff", "ended", "dead"}
  /\ known \in [Device -> SUBSET Said]
  /\ lastPost \in [Device -> Nat] /\ acked \in [Device -> Int]
  /\ reading.now \in Nat /\ \A i \in DOMAIN reading.left : reading.left[i] \in Device
  /\ phase \in {"lookup", "reports", "post", "backoff"} => reading.left # <<>>
  /\ attempt \in 0..MaxRetries /\ wake \in Nat /\ lastRefresh \in Int

BridgeInit ==
  /\ kind \in Kinds /\ uptime \in 0..1
  /\ phase = "read" /\ reading = Idling
  /\ known = [d \in Device |-> {}]
  /\ lastPost = [d \in Device |-> 0]
  /\ attempt = 0 /\ wake = 0
  /\ lastRefresh = Never
  /\ acked = [d \in Device |-> Never]

-----------------------------------------------------------------------------
(* What the decoders make a detection of.  fields is what the report says. *)

\* ASTM F3411: a position, learned from any message so far.
RemoteIdPayload(fields) == "position" \in fields

\* DroneSecurity's JSON: a position, and no CRC mismatch (here: no identity).
DroneIdPayload(fields) == Said \subseteq fields

\* GLOBAL_POSITION_INT: (0, 0) is no position.
MavlinkPayload(fields) == "position" \in fields

\* SBS-1: an airborne position of a named aircraft.
SbsPayload(fields) == Said \subseteq fields

\* CAT048: a range and an azimuth.
AsterixPayload(fields) == "position" \in fields

\* YOLO: a class that is not confidently something on the ground.
YoloPayload(fields) == "identity" \in fields

\* merge_fields: a message erases nothing.
Merge(d, fields) == known[d] \cup fields

\* The bins of a sweep: twice their median power.
NoiseFloor(bins) ==
  LET powers == SortSeq([i \in DOMAIN bins |-> bins[i].power], <)
      mid == Len(bins) \div 2 + 1 IN
  IF Len(bins) % 2 = 0 THEN powers[mid - 1] + powers[mid] ELSE 2 * powers[mid]

\* Those at least the threshold above it, strongest first.
FindPeaks(bins, floor) ==
  SortSeq(SelectSeq(bins, LAMBDA bin : 2 * bin.power >= floor + 2 * Threshold),
          LAMBDA a, b : a.power > b.power)

-----------------------------------------------------------------------------
(* Reading.  A reading without a usable report changes nothing else. *)

\* A bug: the interval is measured from a post of whatever device.
DueForSome(d, now) == \E e \in Device : now - lastPost[e] >= MinInterval

Due(d, now) == now - lastPost[d] >= MinInterval

Reports(n) == UNION {[1..i -> Device \X SUBSET Said] : i \in 0..n}
Of(reports) == [i \in DOMAIN reports |-> reports[i][1]]

Read(k, devices) ==
  /\ kind = k /\ phase = "read" /\ uptime < MaxUptime
  /\ IF devices = <<>> THEN UNCHANGED <<reading, phase>>
     ELSE /\ reading' = [now |-> uptime, left |-> devices]
          /\ phase' = "reports"
  /\ UNCHANGED <<kind, uptime, lastPost, attempt, wake, acked>>

Gather(k) ==
  \E d \in Device, fields \in SUBSET Said :
    /\ known' = [known EXCEPT ![d] = Merge(d, fields)]
    /\ Read(k, IF RemoteIdPayload(Merge(d, fields)) THEN <<d>> ELSE <<>>)
    /\ UNCHANGED lastRefresh

HeardAdvertisement == Gather("ble")
HeardBeacon == Gather("wifi")

Swept ==
  /\ \E bins \in UNION {[1..n -> [device : Device, power : Power]] : n \in 1..MaxReports} :
       \E floor \in {NoiseFloor(bins), 0} :   \* of this sweep, or --baseline-csv's
         LET peaks == FindPeaks(bins, floor) IN Read("sweep", [i \in DOMAIN peaks |-> peaks[i].device])
  /\ UNCHANGED <<known, lastRefresh>>

Recorded == \E d \in Device : Read("acoustic", <<d>>) /\ UNCHANGED <<known, lastRefresh>>

\* A datagram that cannot be decoded is one without records.
Datagram ==
  /\ \E records \in Reports(MaxReports) :
       Read("asterix", Of(SelectSeq(records, LAMBDA r : AsterixPayload(r[2]))))
  /\ UNCHANGED <<known, lastRefresh>>

PositionMessage ==
  /\ \E message \in Reports(1) : Read("mavlink", Of(SelectSeq(message, LAMBDA r : MavlinkPayload(r[2]))))
  /\ UNCHANGED <<known, lastRefresh>>

PacketLine ==
  /\ \E packet \in Reports(1) : Read("droneid", Of(SelectSeq(packet, LAMBDA r : DroneIdPayload(r[2]))))
  /\ UNCHANGED <<known, lastRefresh>>

\* CategoryLookup.get comes before the post.
StaleCategories == uptime - lastRefresh >= RefreshInterval

SbsLine ==
  /\ \E line \in Reports(1) :
       LET usable == Of(SelectSeq(line, LAMBDA r : SbsPayload(r[2]))) IN
       IF usable # <<>> /\ StaleCategories
         THEN /\ kind = "dump1090" /\ phase = "read" /\ uptime < MaxUptime
              /\ reading' = [now |-> uptime, left |-> usable]
              /\ phase' = "lookup" /\ lastRefresh' = uptime
              /\ UNCHANGED <<kind, uptime, lastPost, attempt, wake, acked>>
         ELSE Read("dump1090", usable) /\ UNCHANGED lastRefresh
  /\ UNCHANGED known

\* _refresh: fetched, or an error it expects; what it does not expect, an
\* answer that is not HTTP or no JSON object, ends the bridge.
Refresh ==
  /\ phase = "lookup"
  /\ phase' \in {"reports", "dead"}
  /\ UNCHANGED <<kind, uptime, known, lastPost, reading, attempt, wake, lastRefresh, acked>>

MotionFrame == \E d \in Device : Read("motion", <<d>>) /\ UNCHANGED <<known, lastRefresh>>

\* A frame that is not due is not looked at; the usable boxes of one that is are
\* all posted.  A box is a report of the camera.
YoloFrame ==
  /\ \E d \in Device, n \in 0..MaxReports : \E boxes \in [1..n -> SUBSET Said] :
       LET usable == {i \in 1..n : YoloPayload(boxes[i])} IN
       Read("yolo", IF Due(d, uptime) THEN [i \in 1..Cardinality(usable) |-> d] ELSE <<>>)
  /\ UNCHANGED <<known, lastRefresh>>

\* stdin, a socket or a video stream ends.
InputEnds ==
  /\ kind \in {"sweep", "droneid", "dump1090"} \cup Cameras /\ phase = "read"
  /\ phase' = "ended"
  /\ UNCHANGED <<kind, uptime, known, lastPost, reading, attempt, wake, lastRefresh, acked>>

-----------------------------------------------------------------------------
(* Posting. *)

NextReport ==
  /\ reading' = IF Len(reading.left) = 1 THEN Idling ELSE [reading EXCEPT !.left = Tail(@)]
  /\ phase' = IF Len(reading.left) = 1 THEN "read" ELSE "reports"

\* Posts of a device too soon after the last are dropped.
Spaced == {"ble", "wifi", "sweep", "motion"}

Consider ==
  /\ phase = "reports"
  /\ IF kind \notin Spaced \/ Due(Head(reading.left), reading.now)
       THEN phase' = "post" /\ attempt' = 0 /\ UNCHANGED reading
       ELSE NextReport /\ UNCHANGED attempt
  /\ UNCHANGED <<kind, uptime, known, lastPost, wake, lastRefresh, acked>>

Stamped == [lastPost EXCEPT ![Head(reading.left)] = reading.now]

\* 201: last_post[device] = now.
Accepted ==
  /\ phase = "post"
  /\ acked' = [acked EXCEPT ![Head(reading.left)] = reading.now]
  /\ lastPost' = Stamped
  /\ NextReport
  /\ UNCHANGED <<kind, uptime, known, attempt, wake, lastRefresh>>

\* A bug: the attempts are not counted.
RetryForever == TRUE

RetriesLeft == attempt < MaxRetries

\* URLError: an error status or no connection.  Sleep and try again, or give up
\* on this report; only the cameras wait for their interval then.
Failed ==
  /\ phase = "post"
  /\ IF RetriesLeft
       THEN /\ phase' = "backoff"
            /\ wake' = uptime + Backoff * 2^attempt
            /\ attempt' = IF attempt < MaxRetries THEN attempt + 1 ELSE attempt
            /\ UNCHANGED <<reading, lastPost>>
       ELSE /\ NextReport
            /\ lastPost' = IF kind \in Cameras THEN Stamped ELSE lastPost
            /\ UNCHANGED <<wake, attempt>>
  /\ UNCHANGED <<kind, uptime, known, lastRefresh, acked>>

\* TimeoutError while the answer is read: the bridge's process ends, or, where
\* a library calls it back, the library goes on.
AnswerLate ==
  /\ phase = "post"
  /\ \/ phase' = "dead" /\ UNCHANGED reading
     \/ kind = "ble" /\ phase' = "read" /\ reading' = Idling
  /\ UNCHANGED <<kind, uptime, known, lastPost, attempt, wake, lastRefresh, acked>>

\* A sleep that ends past the bound on the clock ends at it.
Wake ==
  /\ phase = "backoff" /\ (uptime >= wake \/ uptime = MaxUptime)
  /\ phase' = "post"
  /\ UNCHANGED <<kind, uptime, known, lastPost, reading, attempt, wake, lastRefresh, acked>>

BridgeTick ==
  /\ uptime < MaxUptime
  /\ uptime' = uptime + 1
  /\ UNCHANGED <<kind, phase, known, lastPost, reading, attempt, wake, lastRefresh, acked>>

Answer == Accepted \/ Failed \/ AnswerLate

BridgeNext ==
  \/ BridgeTick \/ Consider \/ Answer \/ Wake \/ Refresh \/ InputEnds
  \/ HeardAdvertisement \/ HeardBeacon \/ Swept \/ Recorded \/ Datagram \/ PositionMessage
  \/ PacketLine \/ SbsLine \/ MotionFrame \/ YoloFrame

\* Its process runs, the API answers in some way, and the clock goes on.
BridgeFairness == WF_BridgeVars(BridgeTick) /\ WF_BridgeVars(Consider \/ Answer \/ Wake \/ Refresh)

-----------------------------------------------------------------------------
\* Readings of one device that the API acknowledged are at least the interval
\* apart, however many posts failed or were retried between them and whatever
\* else was in their sweep; only the boxes of one frame share a reading.
AckedPostsAreSpaced ==
  [][\A d \in Device :
       kind \in Spaced \cup Cameras /\ acked'[d] # acked[d] => acked'[d] - acked[d] >= MinInterval]_BridgeVars

\* An API that keeps failing holds a bridge up for its retries only: it comes
\* back to its receiver, or dies of a late answer.
ComesBack == []<>(phase \in {"read", "ended", "dead"})
=============================================================================
