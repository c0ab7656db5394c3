------------------------------ MODULE Tracking ------------------------------
(***************************************************************************)
(* One site's live picture: how a detection is associated with a track,    *)
(* how quiet tracks expire, and how the incidents of a track are opened    *)
(* and closed (app/tracking.py, app/incidents.py over app/db.py).          *)
(*                                                                         *)
(* Every helper of app/db.py runs in a transaction of its own, so each of  *)
(* them is one action here, and everything read by one transaction and     *)
(* used by a later one is kept in the local state of the process that      *)
(* read it.  Four kinds of process share the tables:                       *)
(*   - a Worker serves POST /api/detections or a queued detection: it runs *)
(*     associate_detection, the whole of it under the association lock;    *)
(*   - a Reader serves GET /api/tracks, which runs expire_stale_tracks     *)
(*     with NO lock;                                                       *)
(*   - an Operator serves acknowledge and resolve of an incident, each a   *)
(*     read followed by a write of the whole row, with NO lock;            *)
(*   - time passes, and requests may die between two transactions.         *)
(*                                                                         *)
(* The position, velocity and filter columns of a track are abstracted to  *)
(* the object the track follows: a detection passes a track's spatial      *)
(* gates exactly when both are of the same object, i.e. objects are kept   *)
(* apart by more than the gates.  The gates on TIME are kept as they are.  *)
(***************************************************************************)
EXTENDS Integers, FiniteSets

CONSTANTS
  Track,         \* track ids, each used for one row at most (bounds the spawns)
  Object,        \* physical objects in view of the site's sensors
  Zone,          \* active zones of type restricted
  Votes,         \* labels fuse_classification can return in this instance
  Fixes,         \* a subset of BOOLEAN: may a detection carry a position, or none
  Loiters,       \* a subset of BOOLEAN: may a track's history show loitering, or not
  IncidentId,    \* incident ids, each used for one row at most
  Worker, Reader, Operator,
  Stale,         \* TRACK_STALE_SECONDS
  Drop,          \* TRACK_DROP_SECONDS
  Gate,          \* TRACK_TIME_GATE_SECONDS
  Skew,          \* MAX_DETECTION_CLOCK_SKEW_SECONDS
  MaxLate,       \* environment: how late a report of an object may be
                 \* processed after a newer report of the same object
  MaxTime,       \* bound on the clock
  MaxCrashes,    \* bound on the requests that die half way
  None           \* no row, no value

Label == {"unknown", "drone", "aircraft", "bird", "friendly"}

Alarm == [kind : {"zone_incursion", "predicted_incursion"}, zone : Zone]
           \cup {[kind |-> "loitering", zone |-> None]}

TrackRow == [status : {"active", "lost", "closed"}, lastSeen : Nat,
             label : Label, object : Object]

IncidentRow == [status : {"open", "acknowledged", "resolved"},
                track : Track, alarm : Alarm]

Detection == [object : Object, ts : Nat, located : BOOLEAN]

ASSUME TimingAssumption ==
  /\ {Stale, Drop, Gate, Skew, MaxLate, MaxTime, MaxCrashes} \subseteq Nat
  /\ Votes \subseteq Label
  /\ Fixes \subseteq BOOLEAN /\ Loiters \subseteq BOOLEAN

ASSUME NamesAssumption ==
  /\ Worker \cap Reader = {}
  /\ None \notin TrackRow \cup IncidentRow \cup Worker \cup Track

VARIABLES
  \* the database
  track,         \* table track: [Track -> TrackRow or None]
  hasFilter,     \* table track_kalman_state: is there a row for the track
  detections,    \* table detection: the timestamps stored against each track
  incident,      \* table incident: [IncidentId -> IncidentRow or None]
  \* the association lock, and what each request holds in memory
  lock,          \* the worker inside _association_lock, or None
  pc,            \* the transaction each worker and reader runs next
  now,           \* utcnow() of a reader's sweep
  rows,          \* track rows a sweep has read and has yet to write back
  closing,       \* the track a sweep has closed, its incidents not yet listed
  ids,           \* incidents a request has listed and has yet to close
  det,           \* the detection a worker serves
  cur,           \* the track a worker updates: its id and its row in memory
  here,          \* the restricted zones that contain the track's position
  alarms,        \* alarms a worker has yet to look up
  cand,          \* the alarm a worker found no open incident for
  form,          \* the incident an operator's request has read
  \* time and history
  clock,         \* the server's clock
  crashes,       \* requests that died so far
  newest,        \* newest timestamp reported of each object
  reopened       \* incidents a late acknowledgement took out of "resolved"

db     == <<track, hasFilter, detections, incident>>
sweep  == <<now, rows, closing, ids>>
commit == <<det, cur, here, alarms, cand>>
ghosts == <<clock, crashes, newest, reopened>>
vars   == <<db, lock, pc, sweep, commit, form, ghosts>>

Proc == Worker \cup Reader

WorkerPC == {"idle", "waiting", "list_active", "mark_lost", "mark_closed",
             "list_open", "match", "spawn", "save_filter", "create_detection",
             "update_track", "entries", "open_entry", "close_exits", "warnings",
             "open_warning"}

\* Where a worker holds the association lock.
Inside == WorkerPC \ {"idle", "waiting"}

TypeOK ==
  /\ track \in [Track -> TrackRow \cup {None}]
  /\ hasFilter \in [Track -> BOOLEAN]
  /\ detections \in [Track -> SUBSET Nat]
  /\ incident \in [IncidentId -> IncidentRow \cup {None}]
  /\ lock \in Worker \cup {None}
  /\ pc \in [Proc -> WorkerPC]
  /\ now \in [Reader -> Nat]
  /\ rows \in [Proc -> SUBSET [id : Track, row : TrackRow]]
  /\ closing \in [Proc -> Track \cup {None}]
  /\ ids \in [Proc -> SUBSET IncidentId]
  /\ det \in [Worker -> Detection \cup {None}]
  /\ cur \in [Worker -> [id : Track, row : TrackRow] \cup {None}]
  /\ here \in [Worker -> SUBSET Zone]
  /\ alarms \in [Worker -> SUBSET Alarm]
  /\ cand \in [Worker -> Alarm \cup {None}]
  /\ form \in [Operator -> [id : IncidentId, verb : {"acknowledge", "resolve"}] \cup {None}]
  /\ clock \in Nat
  /\ crashes \in Nat
  /\ newest \in [Object -> Nat]
  /\ reopened \in SUBSET IncidentId

-----------------------------------------------------------------------------
(* Queries of app/db.py. *)

Unused == {t \in Track : track[t] = None}

\* list_tracks(site_id, status)
InStatus(s) == {t \in Track : track[t] # None /\ track[t].status = s}

FreeIds == {i \in IncidentId : incident[i] = None}

\* list_open_incidents_for_track(track_id): open or acknowledged
OpenFor(t) ==
  {i \in IncidentId : /\ incident[i] # None
                      /\ incident[i].track = t
                      /\ incident[i].status # "resolved"}

\* Mutant: an acknowledged incident is not counted as open.
HasUnacknowledged(t, a) ==
  \E i \in OpenFor(t) : incident[i].alarm = a /\ incident[i].status = "open"

\* get_open_incident / get_open_behavioral_incident is not None
HasOpen(t, a) == \E i \in OpenFor(t) : incident[i].alarm = a

Busy == {w \in Worker : pc[w] # "idle"}

Goto(p, to) == pc' = [pc EXCEPT ![p] = to]

\* Every local of a request disappears with it.
Discard(w) ==
  /\ det' = [det EXCEPT ![w] = None]
  /\ cur' = [cur EXCEPT ![w] = None]
  /\ here' = [here EXCEPT ![w] = {}]
  /\ alarms' = [alarms EXCEPT ![w] = {}]
  /\ cand' = [cand EXCEPT ![w] = None]

Init ==
  /\ track = [t \in Track |-> None]
  /\ hasFilter = [t \in Track |-> FALSE]
  /\ detections = [t \in Track |-> {}]
  /\ incident = [i \in IncidentId |-> None]
  /\ lock = None
  /\ pc = [p \in Proc |-> "idle"]
  /\ now = [r \in Reader |-> 0]
  /\ rows = [p \in Proc |-> {}]
  /\ closing = [p \in Proc |-> None]
  /\ ids = [p \in Proc |-> {}]
  /\ det = [w \in Worker |-> None]
  /\ cur = [w \in Worker |-> None]
  /\ here = [w \in Worker |-> {}]
  /\ alarms = [w \in Worker |-> {}]
  /\ cand = [w \in Worker |-> None]
  /\ form = [o \in Operator |-> None]
  /\ clock = 0
  /\ crashes = 0
  /\ newest = [o \in Object |-> 0]
  /\ reopened = {}

-----------------------------------------------------------------------------
(* A detection arrives and waits for the lock. *)

\* A report is accepted when its timestamp is within Skew of the server's
\* clock.  MaxLate is the environment's promise that no report of an object
\* waits while a much newer one of the same object is processed.
Timely(d) ==
  /\ d.ts - clock <= Skew /\ clock - d.ts <= Skew
  /\ newest[d.object] - d.ts <= MaxLate
  /\ \A w \in Busy : det[w].object = d.object => d.ts - det[w].ts <= MaxLate

Receive(w) ==
  /\ pc[w] = "idle"
  /\ Cardinality(Unused) > Cardinality({v \in Busy : cur[v] = None})  \* bound: rows left
  /\ \E d \in [object : Object, ts : 0..MaxTime, located : Fixes] :
       /\ Timely(d)
       /\ det' = [det EXCEPT ![w] = d]
       /\ newest' = [newest EXCEPT ![d.object] = IF d.ts > @ THEN d.ts ELSE @]
  /\ Goto(w, "waiting")
  /\ UNCHANGED <<db, lock, sweep, cur, here, alarms, cand, form, clock, crashes, reopened>>

\* Mutant: the critical section of two workers is not exclusive.
LockIgnored == TRUE

LockFree == lock = None

\* _association_lock, then cluster_association_lock
Acquire(w) ==
  /\ pc[w] = "waiting"
  /\ LockFree
  /\ lock' = w
  /\ Goto(w, "list_active")
  /\ UNCHANGED <<db, sweep, commit, form, ghosts>>

-----------------------------------------------------------------------------
(* expire_stale_tracks: by a worker as of its detection's timestamp, inside *)
(* the lock; by a reader as of the server's clock, outside it.              *)

Now(p) == IF p \in Worker THEN det[p].ts ELSE now[p]

Quiet(p, t, limit) == Now(p) - track[t].lastSeen > limit

\* The rows of a listing, as the sweep will write them back.
Marked(ts, s) == {[id |-> t, row |-> [track[t] EXCEPT !.status = s]] : t \in ts}

Poll(r) ==
  /\ pc[r] = "idle"
  /\ now' = [now EXCEPT ![r] = clock]
  /\ Goto(r, "list_active")
  /\ UNCHANGED <<db, lock, rows, closing, ids, commit, form, ghosts>>

\* Mutant: >= for > in the staleness test.
ListActiveTooSoon(p) ==
  /\ pc[p] = "list_active"
  /\ rows' = [rows EXCEPT ![p] =
                Marked({t \in InStatus("active") : Quiet(p, t, Stale - 1)}, "lost")]
  /\ Goto(p, "mark_lost")
  /\ UNCHANGED <<db, lock, now, closing, ids, commit, form, ghosts>>

ListActive(p) ==
  /\ pc[p] = "list_active"
  /\ rows' = [rows EXCEPT ![p] =
                Marked({t \in InStatus("active") : Quiet(p, t, Stale)}, "lost")]
  /\ Goto(p, "mark_lost")
  /\ UNCHANGED <<db, lock, now, closing, ids, commit, form, ghosts>>

MarkLost(p) ==
  /\ pc[p] = "mark_lost"
  /\ \E r \in rows[p] :
       /\ track' = [track EXCEPT ![r.id] = r.row]
       /\ rows' = [rows EXCEPT ![p] = @ \ {r}]
  /\ UNCHANGED <<hasFilter, detections, incident, lock, pc, now, closing, ids,
                 commit, form, ghosts>>

\* Mutant: the second listing asks for active tracks again.
ListLostMisread(p) ==
  /\ pc[p] = "mark_lost"
  /\ rows[p] = {}
  /\ rows' = [rows EXCEPT ![p] =
                Marked({t \in InStatus("active") : Quiet(p, t, Drop)}, "closed")]
  /\ Goto(p, "mark_closed")
  /\ UNCHANGED <<db, lock, now, closing, ids, commit, form, ghosts>>

ListLost(p) ==
  /\ pc[p] = "mark_lost"
  /\ rows[p] = {}
  /\ rows' = [rows EXCEPT ![p] =
                Marked({t \in InStatus("lost") : Quiet(p, t, Drop)}, "closed")]
  /\ Goto(p, "mark_closed")
  /\ UNCHANGED <<db, lock, now, closing, ids, commit, form, ghosts>>

MarkClosed(p) ==
  /\ pc[p] = "mark_closed"
  /\ ids[p] = {}
  /\ \E r \in rows[p] :
       /\ track' = [track EXCEPT ![r.id] = r.row]
       /\ rows' = [rows EXCEPT ![p] = @ \ {r}]
       /\ closing' = [closing EXCEPT ![p] = r.id]
  /\ Goto(p, "list_open")
  /\ UNCHANGED <<hasFilter, detections, incident, lock, now, ids, commit, form, ghosts>>

\* Mutant: only the zone incidents of a closed track are listed.
ListOpenZones(p) ==
  /\ pc[p] = "list_open"
  /\ ids' = [ids EXCEPT ![p] = {i \in OpenFor(closing[p]) : incident[i].alarm.zone # None}]
  /\ closing' = [closing EXCEPT ![p] = None]
  /\ Goto(p, "mark_closed")
  /\ UNCHANGED <<db, lock, now, rows, commit, form, ghosts>>

\* close_incidents_for_closed_track
ListOpen(p) ==
  /\ pc[p] = "list_open"
  /\ ids' = [ids EXCEPT ![p] = OpenFor(closing[p])]
  /\ closing' = [closing EXCEPT ![p] = None]
  /\ Goto(p, "mark_closed")
  /\ UNCHANGED <<db, lock, now, rows, commit, form, ghosts>>

\* _auto_close_incident
AutoClose(p) ==
  /\ pc[p] \in {"mark_closed", "close_exits"}
  /\ \E i \in ids[p] :
       /\ incident' = [incident EXCEPT ![i].status = "resolved"]
       /\ ids' = [ids EXCEPT ![p] = @ \ {i}]
  /\ UNCHANGED <<track, hasFilter, detections, lock, pc, now, rows, closing,
                 commit, form, ghosts>>

EndSweep(p) ==
  /\ pc[p] = "mark_closed"
  /\ rows[p] = {} /\ ids[p] = {}
  /\ Goto(p, IF p \in Worker THEN "match" ELSE "idle")
  /\ UNCHANGED <<db, lock, sweep, commit, form, ghosts>>

-----------------------------------------------------------------------------
(* associate_detection, inside the lock. *)

\* The tracks _find_matching_track lets through: active, within the time gate
\* either way, within the spatial gates, with a stored filter state.
Candidates(d) ==
  {t \in InStatus("active") : /\ d.located
                              /\ hasFilter[t]
                              /\ track[t].object = d.object
                              /\ d.ts - track[t].lastSeen \in (-Gate)..Gate}

\* Mutant: a matched track is stamped with the time of processing.
SeenNow(t, d) == [track[t] EXCEPT !.lastSeen = clock]

\* _update_track_with_match: the row of a matched track, in memory.
Seen(t, d) == [track[t] EXCEPT !.lastSeen = d.ts]

FindMatchingTrack(w) ==
  /\ pc[w] = "match"
  /\ \E t \in Candidates(det[w]) :
       cur' = [cur EXCEPT ![w] = [id |-> t, row |-> Seen(t, det[w])]]
  /\ Goto(w, "save_filter")
  /\ UNCHANGED <<db, lock, sweep, det, here, alarms, cand, form, ghosts>>

NoMatch(w) ==
  /\ pc[w] = "match"
  /\ Candidates(det[w]) = {}
  /\ Goto(w, "spawn")
  /\ UNCHANGED <<db, lock, sweep, commit, form, ghosts>>

SpawnTrack(w) ==
  /\ pc[w] = "spawn"
  /\ \E t \in Unused :
       LET row == [status |-> "active", lastSeen |-> det[w].ts,
                   label |-> "unknown", object |-> det[w].object]
       IN  /\ track' = [track EXCEPT ![t] = row]
           /\ cur' = [cur EXCEPT ![w] = [id |-> t, row |-> row]]
  /\ Goto(w, IF det[w].located THEN "save_filter" ELSE "create_detection")
  /\ UNCHANGED <<hasFilter, detections, incident, lock, sweep, det, here, alarms,
                 cand, form, ghosts>>

SaveFilter(w) ==
  /\ pc[w] = "save_filter"
  /\ hasFilter' = [hasFilter EXCEPT ![cur[w].id] = TRUE]
  /\ Goto(w, "create_detection")
  /\ UNCHANGED <<track, detections, incident, lock, sweep, commit, form, ghosts>>

CreateDetection(w) ==
  /\ pc[w] = "create_detection"
  /\ detections' = [detections EXCEPT ![cur[w].id] = @ \cup {det[w].ts}]
  /\ Goto(w, "update_track")
  /\ UNCHANGED <<track, hasFilter, incident, lock, sweep, commit, form, ghosts>>

\* Mutants: the vote always wins; a label the vote does not move is dropped.
FusedLabel(label, fused) == fused

FusedOrNone(label, fused) ==
  IF \/ fused = "drone" /\ label # "aircraft"
     \/ label = "unknown" /\ fused # "unknown"
  THEN fused ELSE None

\* The label a track keeps once the vote over its history says `fused`.
Ratchet(label, fused) ==
  IF \/ fused = "drone" /\ label # "aircraft"
     \/ label = "unknown" /\ fused # "unknown"
  THEN fused ELSE label

Within(zones) == {[kind |-> "zone_incursion", zone |-> z] : z \in zones}

Heading(zones) == {[kind |-> "predicted_incursion", zone |-> z] : z \in zones}

\* Bound: an incident row for each alarm that may be raised.
Affordable(as) == Cardinality(as) <= Cardinality(FreeIds)

\* The commit writes the row in memory, status included.
UpdateTrack(w) ==
  /\ pc[w] = "update_track"
  /\ \E fused \in Votes, zones \in SUBSET Zone :
       LET row == [cur[w].row EXCEPT !.label = Ratchet(@, fused)]
       IN  /\ det[w].located \/ zones = {}
           /\ Affordable(Within(zones))
           /\ track' = [track EXCEPT ![cur[w].id] = row]
           /\ cur' = [cur EXCEPT ![w].row = row]
           /\ here' = [here EXCEPT ![w] = zones]
           /\ alarms' = [alarms EXCEPT ![w] = Within(zones)]
  /\ Goto(w, "entries")
  /\ UNCHANGED <<hasFilter, detections, incident, lock, sweep, det, cand, form, ghosts>>

-----------------------------------------------------------------------------
(* The incident checks at the end of a commit, still inside the lock. *)

\* _open_incident, _open_behavioral_incident: look for an open one first.
LookUp(w, from, to) ==
  /\ pc[w] = from
  /\ \E a \in alarms[w] :
       /\ alarms' = [alarms EXCEPT ![w] = @ \ {a}]
       /\ \/ HasOpen(cur[w].id, a) /\ UNCHANGED <<pc, cand>>
          \/ ~HasOpen(cur[w].id, a) /\ Goto(w, to) /\ cand' = [cand EXCEPT ![w] = a]
  /\ UNCHANGED <<db, lock, sweep, det, cur, here, form, ghosts>>

CreateIncident(w, from, to) ==
  /\ pc[w] = from
  /\ \E i \in FreeIds :
       incident' = [incident EXCEPT ![i] =
                      [status |-> "open", track |-> cur[w].id, alarm |-> cand[w]]]
  /\ cand' = [cand EXCEPT ![w] = None]
  /\ Goto(w, to)
  /\ UNCHANGED <<track, hasFilter, detections, lock, sweep, det, cur, here, alarms,
                 form, ghosts>>

\* check_zone_incident_resolutions
ListExits(w) ==
  /\ pc[w] = "entries"
  /\ alarms[w] = {}
  /\ ids' = [ids EXCEPT ![w] =
               {i \in OpenFor(cur[w].id) :
                  /\ incident[i].alarm.kind = "zone_incursion"
                  /\ incident[i].alarm.zone \notin here[w]}]
  /\ Goto(w, "close_exits")
  /\ UNCHANGED <<db, lock, now, rows, closing, commit, form, ghosts>>

\* check_predicted_incursions and check_loitering_incident: the zones ahead
\* that the track is not already in, and whether its history loiters.
Foresee(w) ==
  /\ pc[w] = "close_exits"
  /\ ids[w] = {}
  /\ \E ahead \in SUBSET (Zone \ here[w]), loiters \in Loiters :
       LET as == Heading(ahead)
                   \cup {a \in {[kind |-> "loitering", zone |-> None]} : loiters}
       IN  /\ det[w].located \/ as = {}
           /\ Affordable(as)
           /\ alarms' = [alarms EXCEPT ![w] = as]
  /\ Goto(w, "warnings")
  /\ UNCHANGED <<db, lock, sweep, det, cur, here, cand, form, ghosts>>

Release(w) ==
  /\ pc[w] = "warnings"
  /\ alarms[w] = {}
  /\ lock' = None
  /\ Discard(w)
  /\ Goto(w, "idle")
  /\ UNCHANGED <<db, sweep, form, ghosts>>

-----------------------------------------------------------------------------
(* POST /api/incidents/{id}/acknowledge and /resolve: read, then write. *)

ReadIncident(o) ==
  /\ form[o] = None
  /\ \E i \in IncidentId \ FreeIds, verb \in {"acknowledge", "resolve"} :
       /\ \/ verb = "acknowledge" /\ incident[i].status = "open"
          \/ verb = "resolve" /\ incident[i].status # "resolved"
       /\ form' = [form EXCEPT ![o] = [id |-> i, verb |-> verb]]
  /\ UNCHANGED <<db, lock, pc, sweep, commit, ghosts>>

WriteIncident(o) ==
  /\ form[o] # None
  /\ LET i == form[o].id
         ack == form[o].verb = "acknowledge"
     IN  /\ incident' = [incident EXCEPT ![i].status =
                           IF ack THEN "acknowledged" ELSE "resolved"]
         /\ reopened' = IF ack /\ incident[i].status = "resolved"
                        THEN reopened \cup {i} ELSE reopened
  /\ form' = [form EXCEPT ![o] = None]
  /\ UNCHANGED <<track, hasFilter, detections, lock, pc, sweep, commit,
                 clock, crashes, newest>>

-----------------------------------------------------------------------------
(* The environment. *)

Tick ==
  /\ clock < MaxTime
  /\ clock' = clock + 1
  /\ UNCHANGED <<db, lock, pc, sweep, commit, form, crashes, newest, reopened>>

\* A request dies between two transactions: an exception, a killed process.
\* What it committed stays, the lock is released, its memory is gone.
Crash(p) ==
  /\ pc[p] # "idle"
  /\ crashes < MaxCrashes
  /\ crashes' = crashes + 1
  /\ lock' = IF lock = p THEN None ELSE lock
  /\ rows' = [rows EXCEPT ![p] = {}]
  /\ closing' = [closing EXCEPT ![p] = None]
  /\ ids' = [ids EXCEPT ![p] = {}]
  /\ IF p \in Worker THEN Discard(p) ELSE UNCHANGED commit
  /\ Goto(p, "idle")
  /\ UNCHANGED <<db, now, form, clock, newest, reopened>>

SweepStep(p) ==
  \/ ListActive(p) \/ MarkLost(p) \/ ListLost(p) \/ MarkClosed(p)
  \/ ListOpen(p) \/ AutoClose(p) \/ EndSweep(p)

CommitStep(w) ==
  \/ FindMatchingTrack(w) \/ NoMatch(w) \/ SpawnTrack(w) \/ SaveFilter(w)
  \/ CreateDetection(w) \/ UpdateTrack(w)
  \/ LookUp(w, "entries", "open_entry") \/ CreateIncident(w, "open_entry", "entries")
  \/ ListExits(w) \/ Foresee(w)
  \/ LookUp(w, "warnings", "open_warning") \/ CreateIncident(w, "open_warning", "warnings")
  \/ Release(w)

Next ==
  \/ \E w \in Worker : Receive(w) \/ Acquire(w) \/ CommitStep(w)
  \/ \E r \in Reader : Poll(r)
  \/ \E p \in Proc : SweepStep(p) \/ Crash(p)
  \/ \E o \in Operator : ReadIncident(o) \/ WriteIncident(o)
  \/ Tick

Spec == Init /\ [][Next]_vars

\* Threads are scheduled, dashboards keep polling, time passes.  Nothing makes
\* a detection arrive, a request die or an operator act.
FairSpec ==
  /\ Spec
  /\ \A w \in Worker : WF_vars(Acquire(w) \/ SweepStep(w) \/ CommitStep(w))
  /\ \A r \in Reader : WF_vars(Poll(r) \/ SweepStep(r))
  /\ WF_vars(Tick)

-----------------------------------------------------------------------------
(* Properties. *)

\* An object is followed by one track: no two active tracks with a filter
\* follow the same object, whoever reads, expires or dies meanwhile.  This is
\* what _association_lock is for ("create duplicates", tracking.py).  It leans
\* on three gates agreeing: what the worker's own sweep leaves active must be
\* within the time gate, and what is reported late must be too.
OneActiveTrackPerObject ==
  \A t, u \in InStatus("active") :
    hasFilter[t] /\ hasFilter[u] /\ track[t].object = track[u].object => t = u

\* A track has at most one unresolved incident of each alarm: the lookup before
\* create_incident is still true when the row is inserted.  The one hole is an
\* acknowledgement that overwrites a resolution it did not see.
OneOpenIncidentPerAlarm ==
  \A i, j \in IncidentId \ (FreeIds \cup reopened) :
    /\ i # j
    /\ incident[i].track = incident[j].track
    /\ incident[i].alarm = incident[j].alarm
    => "resolved" \in {incident[i].status, incident[j].status}

\* Nothing stays open on a closed track: an unresolved incident of a closed
\* track is about to be closed by the sweep that closed the track, or was
\* reopened by a late acknowledgement (close_incidents_for_closed_track).
ClosedTrackIsSettled ==
  \A t \in InStatus("closed") : \A i \in OpenFor(t) \ reopened :
    \E p \in Proc : closing[p] = t \/ i \in ids[p]

\* A stored row is never ahead of or beside its evidence: the last_seen of a
\* track is the time of a detection stored against it, unless the commit that
\* wrote the row is still on its way (_commit_detection's two transactions).
LastSeenIsReported ==
  \A t \in Track \ Unused :
    \/ track[t].lastSeen \in detections[t]
    \/ \E w \in Worker : pc[w] \in {"save_filter", "create_detection"} /\ cur[w].id = t

\* No write takes back what another decided.  Closed is the end: what a later
\* sighting continues is a new track (expire_stale_tracks).  A label only moves
\* from unknown, or towards drone, and never off the trusted aircraft label (the
\* upgrade-only ratchet of _commit_detection).
RowsOnlyMoveOn ==
  [][\A t \in Track \ Unused :
       LET before == track[t]  after == track'[t] IN
       /\ before.status = "closed" => after.status = "closed"
       /\ \/ after.label = before.label
          \/ before.label = "unknown"
          \/ after.label = "drone" /\ before.label # "aircraft"]_track

\* A track is marked lost only if the row it replaces had gone quiet as of the
\* sweep's time (expire_stale_tracks, TRACK_STALE_SECONDS).
OnlyQuietTracksExpire ==
  [][\A t \in InStatus("active") :
       track'[t].status # "active" =>
         \E p \in Proc : pc[p] = "mark_lost" /\ Quiet(p, t, Stale)]_track

\* Expiry heals itself: whatever rows unlocked sweeps and commits overwrite, a
\* track nobody reports any more is closed in the end while a dashboard polls
\* (get_tracks calling expire_stale_tracks).
Overdue(t) ==
  t \notin Unused /\ track[t].status # "closed" /\ clock - track[t].lastSeen > Drop

QuietTracksClose == \A t \in Track : Overdue(t) ~> ~Overdue(t)

-----------------------------------------------------------------------------
(* Where every sweep runs inside the lock and no request dies half way, the  *)
(* transactions of an association amount to the steps of Association.        *)

At(stages) == lock # None /\ pc[lock] \in stages

Expiring == {"mark_lost", "mark_closed", "list_open"}

Choosing == {"save_filter", "create_detection", "update_track"}

\* The status of a row when the sweep of p is over.
EndStatus(p, t) ==
  LET status == track[t].status IN
  IF status = "lost" \/ (status = "active" /\ Quiet(p, t, Stale))
    THEN IF Quiet(p, t, Drop) THEN "closed" ELSE "lost"
    ELSE status

\* The table as it will be: when the sweep that has begun is over, when the row
\* in the memory of a request is written.
Outlook ==
  [t \in Track |->
     IF At(Expiring) /\ track[t] # None THEN [track[t] EXCEPT !.status = EndStatus(lock, t)]
     ELSE IF At(Choosing) /\ cur[lock].id = t THEN cur[lock].row
     ELSE track[t]]

Filtered == {t \in Track : hasFilter[t] \/ (At({"save_filter"}) /\ cur[lock].id = t)}

Recorded ==
  [t \in Track |->
     IF At({"save_filter", "create_detection"}) /\ cur[lock].id = t
       THEN detections[t] \cup {det[lock].ts} ELSE detections[t]]

Stage(w) ==
  CASE pc[w] \in {"waiting", "list_active"} -> "waiting"
    [] pc[w] \in Expiring \cup {"match", "spawn"} -> "expired"
    [] pc[w] \in Choosing -> "recorded"
    [] OTHER -> "free"

Stages == [w \in Worker |-> Stage(w)]

Served == [w \in Worker |-> IF Stage(w) = "free" THEN None ELSE det[w]]

Chosen == [w \in Worker |-> IF pc[w] \in Choosing THEN cur[w].id ELSE None]

Atomic == INSTANCE Association WITH
  Time <- 0..MaxTime, picture <- Outlook, filtered <- Filtered, evidence <- Recorded,
  served <- Served, stage <- Stages, chosen <- Chosen

\* Requests look as if they ran one after the other: each expires the quiet
\* tracks in one step and records its detection in another, on the table the
\* one before it left ("two concurrent requests ... could both pass the gate
\* check and both spawn a new track", _association_lock).
AssociatesAtomically == Atomic!AssociationSpec

(* What comments of the code say of the tables, and the code does not keep.  *)

\* check_zone_incidents opens one "unless one is already open for that
\* track/zone pair" (app/incidents.py), with no exception for acknowledgements.
OneOpenIncidentPerTrackAndZone ==
  \A i, j \in IncidentId \ FreeIds :
    /\ i # j
    /\ incident[i].track = incident[j].track
    /\ incident[i].alarm = incident[j].alarm
    => "resolved" \in {incident[i].status, incident[j].status}
=============================================================================
