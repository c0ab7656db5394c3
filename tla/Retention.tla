------------------------------ MODULE Retention ------------------------------
(***************************************************************************)
(* The two background loops of the server (app/main.py) over the tables    *)
(* they share with everything else: the behavior sweep, which compares the *)
(* active tracks of a site and opens formation and shadowing incidents,    *)
(* and the retention sweep, which purges old detections, finished tracks   *)
(* and audit entries, in this order, in one loop.                          *)
(*                                                                         *)
(* Neither takes the association lock.  A sweep lists the active tracks    *)
(* once and then looks up and inserts incident after incident, each in a   *)
(* transaction of its own, while tracks are lost, closed and purged.  The  *)
(* database enforces its foreign keys: an insert that refers to a row that *)
(* is gone fails, and so does a delete of a row that is referred to.  The  *)
(* behavior loop logs an exception and goes on; the retention loop has no  *)
(* handler, so its task ends.  Operators read an incident and write it     *)
(* back in a second transaction, next to both.                             *)
(*                                                                         *)
(* What a track does otherwise is reduced to its status and to whether its *)
(* last_seen is before the retention cutoff; how transactions of sweeps    *)
(* and commits undo each other is the subject of Tracking.                 *)
(***************************************************************************)
EXTENDS Integers, Sequences, FiniteSets

CONSTANTS
  Track,         \* the site's tracks; all of them are active at first
  Detection,     \* detections, stored at first
  Entry,         \* audit log entries, stored at first
  Replica,       \* server processes, each with its two loops
  Operator,      \* POST /api/incidents/{id}/acknowledge and /resolve
  Behaviors,     \* which of "formation" and "shadowing" are met in this instance
  Quiet,         \* bound: the tracks that go quiet in this instance
  Policies,      \* which of "detections", "tracks" and "audit" have a retention time
  MaxIncidents,  \* bound on the incidents opened
  None           \* NULL

ASSUME MaxAssumption == MaxIncidents \in Nat
ASSUME PolicyAssumption == Policies \subseteq {"detections", "tracks", "audit"}

\* What get_open_behavioral_incident tells apart.
Alarm == [type : {"formation"}, track : Track, related : {None}]
           \cup {a \in [type : {"shadowing"}, track : Track, related : Track] : a.track # a.related}

ASSUME NamesAssumption == None \notin Track /\ None \notin Alarm /\ Quiet \subseteq Track

IncidentRow == [alarm : Alarm,           \* what it was opened for
                status : {"open", "acknowledged", "resolved"},
                track : Track \cup {None},     \* the column track_id
                related : Track \cup {None}]   \* the column related_track_id

VARIABLES
  \* the database
  status,        \* of each track, or "purged"
  hasFilter,     \* tracks with a row in track_kalman_state
  fedInto,       \* detection.track_id of the detections still stored
  incident,      \* the incidents opened, in the order of their ids
  old,           \* rows past their retention (of a track: by its last_seen)
  auditLog,      \* audit entries still stored
  \* sweeps of expire_stale_tracks
  closing,       \* tracks marked closed, their incidents not yet listed
  ids,           \* incidents listed and not yet auto-closed
  \* requests of operators
  form,          \* what each has read an incident for, not yet written
  reopened,      \* history: incidents a late acknowledgement took out of "resolved"
  \* the behavior loop of each replica
  phase,         \* which check the loop is in, and what it does next
  listed,        \* the active tracks it has read
  todo,          \* alarms it has yet to look up
  cand,          \* the alarm it has found no open incident for
  found,         \* history: alarms this sweep has seen and nobody has resolved
  \* the retention loop of each replica
  purge,         \* which purge the loop runs next
  selected       \* the track ids it has read

tables   == <<status, hasFilter, fedInto, incident, old, auditLog>>
expiry   == <<closing, ids>>
console  == <<form, reopened>>
behavior == <<phase, listed, todo, cand, found>>
retain   == <<purge, selected>>
vars     == <<tables, expiry, console, behavior, retain>>

TypeOK ==
  /\ status \in [Track -> {"active", "lost", "closed", "purged"}]
  /\ hasFilter \subseteq Track
  /\ DOMAIN fedInto \subseteq Detection
  /\ \A d \in DOMAIN fedInto : fedInto[d] \in Track \cup {None}
  /\ incident \in Seq(IncidentRow) /\ Len(incident) <= MaxIncidents
  /\ old \subseteq Track \cup Detection \cup Entry /\ auditLog \subseteq Entry
  /\ closing \subseteq Track /\ ids \subseteq DOMAIN incident
  /\ \A o \in Operator :
       form[o] \in [id : DOMAIN incident, verb : {"acknowledge", "resolve"}] \cup {None}
  /\ DOMAIN form = Operator
  /\ reopened \subseteq DOMAIN incident
  /\ phase \in [Replica -> {"asleep", "formation", "shadowing"}]
  /\ listed \in [Replica -> SUBSET Track]
  /\ todo \in [Replica -> SUBSET Alarm]
  /\ cand \in [Replica -> Alarm \cup {None}]
  /\ found \in [Replica -> SUBSET Alarm]
  /\ purge \in [Replica -> {"asleep", "detections", "select", "tracks", "audit", "dead"}]
  /\ selected \in [Replica -> SUBSET Track]

-----------------------------------------------------------------------------
(* Queries of app/db.py. *)

InStatus(s) == {t \in Track : status[t] = s}

Unresolved == {i \in DOMAIN incident : incident[i].status # "resolved"}

\* list_open_incidents_for_track
OpenFor(t) == {i \in Unresolved : incident[i].track = t}

\* A bug: only incidents nobody has acknowledged count.
HasUnacknowledged(a) ==
  \E i \in OpenFor(a.track) : /\ incident[i].alarm.type = a.type
                              /\ incident[i].related = a.related
                              /\ incident[i].status = "open"

\* A bug: incidents that were resolved count as well.
HasAny(a) ==
  \E i \in DOMAIN incident : /\ incident[i].track = a.track
                             /\ incident[i].alarm.type = a.type
                             /\ incident[i].related = a.related

\* get_open_behavioral_incident: open or acknowledged, and for shadowing of the
\* same pair.
HasOpen(a) ==
  \E i \in OpenFor(a.track) : /\ incident[i].alarm.type = a.type
                              /\ incident[i].related = a.related

-----------------------------------------------------------------------------
(* Tracks, and what operators do. *)

\* An associated detection: the track stays active and is seen.
Report(t) ==
  /\ status[t] = "active" /\ t \in old
  /\ old' = old \ {t}
  /\ UNCHANGED <<status, hasFilter, fedInto, incident, auditLog, expiry, console, behavior, retain>>

Stored(p) == CASE p = "detections" -> DOMAIN fedInto
               [] p = "tracks"     -> Track \ InStatus("purged")
               [] p = "audit"      -> auditLog

\* A row passes the cutoff of its policy; for a track, nothing was reported so long.
Age ==
  /\ \E p \in Policies : \E x \in Stored(p) \ old : old' = old \cup {x}
  /\ UNCHANGED <<status, hasFilter, fedInto, incident, auditLog, expiry, console, behavior, retain>>

\* expire_stale_tracks: a quiet track is lost, a lost one closed, and then its
\* unresolved incidents are listed and closed one after the other.
MarkLost(t) ==
  /\ status[t] = "active" /\ t \in Quiet
  /\ status' = [status EXCEPT ![t] = "lost"]
  /\ UNCHANGED <<hasFilter, fedInto, incident, old, auditLog, expiry, console, behavior, retain>>

MarkClosed(t) ==
  /\ status[t] = "lost"
  /\ status' = [status EXCEPT ![t] = "closed"]
  /\ closing' = closing \cup {t}
  /\ UNCHANGED <<hasFilter, fedInto, incident, old, auditLog, ids, console, behavior, retain>>

ListOpen(t) ==
  /\ t \in closing
  /\ closing' = closing \ {t}
  /\ ids' = ids \cup OpenFor(t)
  /\ UNCHANGED <<tables, console, behavior, retain>>

\* An incident no longer counts among what a sweep has found.
Settle(i) ==
  /\ incident' = [incident EXCEPT ![i].status = "resolved"]
  /\ found' = [r \in Replica |-> found[r] \ {incident[i].alarm}]

AutoClose(i) ==
  /\ i \in ids
  /\ ids' = ids \ {i}
  /\ Settle(i)
  /\ UNCHANGED <<status, hasFilter, fedInto, old, auditLog, closing, console,
                 phase, listed, todo, cand, retain>>

\* POST .../acknowledge and .../resolve: the handler reads the incident and checks
\* its status ...
ReadIncident(o) ==
  /\ form[o] = None
  /\ \E i \in DOMAIN incident, verb \in {"acknowledge", "resolve"} :
       /\ \/ verb = "acknowledge" /\ incident[i].status = "open"
          \/ verb = "resolve" /\ i \in Unresolved
       /\ form' = [form EXCEPT ![o] = [id |-> i, verb |-> verb]]
  /\ UNCHANGED <<tables, expiry, reopened, behavior, retain>>

\* ... and writes it back, whatever has become of it since.
WriteAcknowledged(o) ==
  LET i == form[o].id IN
  /\ form[o] # None /\ form[o].verb = "acknowledge"
  /\ incident' = [incident EXCEPT ![i].status = "acknowledged"]
  /\ reopened' = reopened \cup ({i} \ Unresolved)
  /\ form' = [form EXCEPT ![o] = None]
  /\ UNCHANGED <<status, hasFilter, fedInto, old, auditLog, expiry, behavior, retain>>

WriteResolved(o) ==
  /\ form[o] # None /\ form[o].verb = "resolve"
  /\ Settle(form[o].id)
  /\ form' = [form EXCEPT ![o] = None]
  /\ UNCHANGED <<status, hasFilter, fedInto, old, auditLog, expiry, reopened,
                 phase, listed, todo, cand, retain>>

-----------------------------------------------------------------------------
(* _behavior_sweep_loop. *)

Formation(g) == {[type |-> "formation", track |-> t, related |-> None] : t \in g}

\* A bug: each track is also compared with itself.
AllOfPair(p) == [type : {"shadowing"}, track : p, related : p]

\* Both tracks of a shadowing pair get an incident about the other.
BothOfPair(p) == {a \in [type : {"shadowing"}, track : p, related : p] : a.track # a.related}

Pairs(s) == {p \in SUBSET s : Cardinality(p) = 2}

See(r, alarms) ==
  /\ todo' = [todo EXCEPT ![r] = alarms]
  /\ found' = [found EXCEPT ![r] = @ \cup alarms]

\* The sweep reads the active tracks once; detect_formations groups some of them.
ListActive(r) ==
  /\ phase[r] = "asleep"
  /\ listed' = [listed EXCEPT ![r] = InStatus("active")]
  /\ phase' = [phase EXCEPT ![r] = "formation"]
  /\ \E g \in SUBSET InStatus("active") :
       /\ g = {} \/ ("formation" \in Behaviors /\ Cardinality(g) >= 2)
       /\ See(r, Formation(g))
  /\ UNCHANGED <<tables, expiry, console, cand, retain>>

\* Then detect_shadowing compares the tracks of the same list in pairs.
CheckShadowing(r) ==
  /\ phase[r] = "formation" /\ todo[r] = {} /\ cand[r] = None
  /\ phase' = [phase EXCEPT ![r] = "shadowing"]
  /\ \E ps \in SUBSET Pairs(listed[r]) :
       /\ ps = {} \/ "shadowing" \in Behaviors
       /\ See(r, UNION {BothOfPair(p) : p \in ps})
  /\ UNCHANGED <<tables, expiry, console, listed, cand, retain>>

\* _open_behavioral_incident: the lookup ...
LookUp(r) ==
  /\ cand[r] = None
  /\ \E a \in todo[r] :
       /\ todo' = [todo EXCEPT ![r] = @ \ {a}]
       /\ cand' = IF HasOpen(a) THEN cand ELSE [cand EXCEPT ![r] = a]
  /\ UNCHANGED <<tables, expiry, console, phase, listed, found, retain>>

\* ... and the insert, which needs the rows it refers to.
CreateIncident(r) ==
  LET a == cand[r] IN
  /\ a # None /\ Len(incident) < MaxIncidents
  /\ status[a.track] # "purged" /\ (a.related # None => status[a.related] # "purged")
  /\ incident' = Append(incident, [alarm |-> a, status |-> "open",
                                   track |-> a.track, related |-> a.related])
  /\ cand' = [cand EXCEPT ![r] = None]
  /\ UNCHANGED <<status, hasFilter, fedInto, old, auditLog, expiry, console,
                 phase, listed, todo, found, retain>>

Rest(r) ==
  /\ phase' = [phase EXCEPT ![r] = "asleep"]
  /\ listed' = [listed EXCEPT ![r] = {}]
  /\ todo' = [todo EXCEPT ![r] = {}]
  /\ cand' = [cand EXCEPT ![r] = None]
  /\ found' = [found EXCEPT ![r] = {}]

\* A row is gone: the insert fails, the loop logs it and drops what is left.
FailSweep(r) ==
  LET a == cand[r] IN
  /\ a # None
  /\ status[a.track] = "purged" \/ (a.related # None /\ status[a.related] = "purged")
  /\ Rest(r)
  /\ UNCHANGED <<tables, expiry, console, retain>>

EndSweep(r) ==
  /\ phase[r] = "shadowing" /\ todo[r] = {} /\ cand[r] = None
  /\ Rest(r)
  /\ UNCHANGED <<tables, expiry, console, retain>>

-----------------------------------------------------------------------------
(* _retention_sweep_loop. *)

WakeUp(r) ==
  /\ purge[r] = "asleep" /\ Policies # {}
  /\ purge' = [purge EXCEPT ![r] = "detections"]
  /\ UNCHANGED <<tables, expiry, console, behavior, selected>>

PurgeDetections(r) ==
  /\ purge[r] = "detections"
  /\ fedInto' = [d \in DOMAIN fedInto \ old |-> fedInto[d]]
  /\ old' = old \ DOMAIN fedInto
  /\ purge' = [purge EXCEPT ![r] = "select"]
  /\ UNCHANGED <<status, hasFilter, incident, auditLog, expiry, console, behavior, selected>>

\* A bug: age alone decides.
OldTracks == old \cap (Track \ InStatus("purged"))

\* Finished tracks past their retention.
Purgeable == {t \in old \cap Track : status[t] \notin {"active", "purged"}}

\* purge_old_tracks reads the ids first: the read takes no lock, and the first
\* write after it does.
SelectTracks(r) ==
  /\ purge[r] = "select"
  /\ selected' = [selected EXCEPT ![r] = Purgeable]
  /\ purge' = [purge EXCEPT ![r] = IF Purgeable = {} THEN "audit" ELSE "tracks"]
  /\ UNCHANGED <<tables, expiry, console, behavior>>

\* A bug: incidents keep pointing at the purged track.
Kept(i, gone) == incident[i]

\* The columns of incidents that are detached from tracks about to be deleted.
Detached(i, gone) ==
  IF incident[i].track \in gone THEN [incident[i] EXCEPT !.track = None] ELSE incident[i]

\* Does a row still refer to a track that is to be deleted?
Referred(rows, gone) ==
  \E i \in DOMAIN rows : {rows[i].track, rows[i].related} \cap gone # {}

\* The rest of the transaction: filters are deleted, detections and incidents
\* detached, tracks deleted.
PurgeTracks(r) ==
  LET gone == selected[r]
      rows == [i \in DOMAIN incident |-> Detached(i, gone)]
  IN
  /\ purge[r] = "tracks"
  /\ ~Referred(rows, gone)
  /\ old' = old \ gone /\ hasFilter' = hasFilter \ gone
  /\ fedInto' = [d \in DOMAIN fedInto |-> IF fedInto[d] \in gone THEN None ELSE fedInto[d]]
  /\ incident' = rows
  /\ status' = [t \in Track |-> IF t \in gone THEN "purged" ELSE status[t]]
  /\ purge' = [purge EXCEPT ![r] = "audit"]
  /\ selected' = [selected EXCEPT ![r] = {}]
  /\ UNCHANGED <<auditLog, expiry, console, behavior>>

\* A foreign key is violated: the transaction is rolled back, and the exception
\* ends the loop.
FailPurge(r) ==
  LET gone == selected[r]
      rows == [i \in DOMAIN incident |-> Detached(i, gone)]
  IN
  /\ purge[r] = "tracks"
  /\ Referred(rows, gone)
  /\ purge' = [purge EXCEPT ![r] = "dead"]
  /\ selected' = [selected EXCEPT ![r] = {}]
  /\ UNCHANGED <<tables, expiry, console, behavior>>

PurgeAudit(r) ==
  /\ purge[r] = "audit"
  /\ auditLog' = auditLog \ old
  /\ old' = old \ auditLog
  /\ purge' = [purge EXCEPT ![r] = "asleep"]
  /\ UNCHANGED <<status, hasFilter, fedInto, incident, expiry, console, behavior, selected>>

-----------------------------------------------------------------------------
Init ==
  /\ status = [t \in Track |-> "active"]
  /\ hasFilter = Track
  /\ fedInto \in [Detection -> Track]
  /\ incident = <<>>
  /\ old = {} /\ auditLog = Entry
  /\ closing = {} /\ ids = {}
  /\ form = [o \in Operator |-> None] /\ reopened = {}
  /\ phase = [r \in Replica |-> "asleep"]
  /\ listed = [r \in Replica |-> {}]
  /\ todo = [r \in Replica |-> {}]
  /\ cand = [r \in Replica |-> None]
  /\ found = [r \in Replica |-> {}]
  /\ purge = [r \in Replica |-> "asleep"]
  /\ selected = [r \in Replica |-> {}]

TrackStep ==
  \/ \E t \in Track : \/ Report(t)
                      \/ MarkLost(t) \/ MarkClosed(t) \/ ListOpen(t)
  \/ \E i \in DOMAIN incident : AutoClose(i)
  \/ \E o \in Operator : ReadIncident(o) \/ WriteAcknowledged(o) \/ WriteResolved(o)
  \/ Age

BehaviorStep(r) ==
  \/ ListActive(r) \/ CheckShadowing(r) \/ LookUp(r)
  \/ CreateIncident(r) \/ FailSweep(r) \/ EndSweep(r)

RetentionStep(r) ==
  \/ WakeUp(r) \/ PurgeDetections(r) \/ SelectTracks(r)
  \/ PurgeTracks(r) \/ FailPurge(r) \/ PurgeAudit(r)

Next == TrackStep \/ \E r \in Replica : BehaviorStep(r) \/ RetentionStep(r)

Spec == Init /\ [][Next]_vars

\* The event loop runs each task that is due: asyncio schedules the retention
\* loop for as long as its task lives.
FairSpec == Spec /\ \A r \in Replica : WF_vars(RetentionStep(r))

-----------------------------------------------------------------------------
(* Properties. *)

\* A track has no two unresolved incidents of one behavior (and, for shadowing, of
\* one pair), but for those an acknowledgement written late took out of "resolved":
\* the sweep may have opened another before.  One replica's sweeps see to it; two
\* replicas' look up and insert next to each other without a lock.
OneOpenIncidentPerBehavior ==
  \A i, j \in Unresolved \ reopened :
    /\ incident[i].alarm = incident[j].alarm
    /\ incident[i].track # None /\ incident[j].track # None
    => i = j

\* A sweep that ends leaves an incident for every formation member and for both
\* tracks of every shadowing pair it has seen, but for those resolved meanwhile;
\* one pair never stands in for another.
EverythingSeenIsRaised ==
  [][\A r \in Replica : EndSweep(r) =>
       \A a \in found[r] : \E i \in Unresolved : incident[i].alarm = a]_vars

\* The retention sweep never takes a track that is still active, however long
\* ago its row was read.
ActiveTrackIsNeverPurged ==
  [][\A t \in Track : status[t] = "active" => status'[t] # "purged"]_vars

\* Once the incidents of a closed track are listed and closed, none is left open
\* on it.  No invariant of Spec: the behavior sweep's list may be older than the
\* close, and an incident opened then stays open.
ClosedTrackIsSettled ==
  \A t \in Track \ closing :
    status[t] = "closed" => OpenFor(t) \subseteq ids

\* A finished track past its retention is purged in the end.
FinishedTracksArePurged ==
  \A t \in Track : (t \in Purgeable) ~> (status[t] = "purged")

\* So is an audit entry past its own, independent retention.
OldAuditEntriesArePurged ==
  \A e \in Entry : (e \in old) ~> (e \notin auditLog)
=============================================================================
