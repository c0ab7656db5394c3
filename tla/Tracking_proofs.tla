--------------------------- MODULE Tracking_proofs ---------------------------
(***************************************************************************)
(* Proofs about Tracking, for any number of tracks, objects, zones,        *)
(* workers, readers and operators, and any bounds.                         *)
(***************************************************************************)
EXTENDS Tracking, TLAPS

-----------------------------------------------------------------------------
(* Type correctness.  A request only uses a local it has set: the           *)
(* strengthening that makes the type invariant inductive.                   *)

Held == {"save_filter", "create_detection", "update_track", "entries",
         "open_entry", "close_exits", "warnings", "open_warning"}

LocalsSet ==
  \A w \in Worker :
    /\ pc[w] # "idle" => det[w] \in Detection
    /\ pc[w] \in Held => cur[w] \in [id : Track, row : TrackRow]
    /\ pc[w] \in {"open_entry", "open_warning"} => cand[w] \in Alarm

\* Incidents are never deleted: one that was listed or read is still there.
ListedExist ==
  /\ \A p \in Proc : \A i \in ids[p] : incident[i] # None
  /\ \A o \in Operator : form[o] # None => incident[form[o].id] # None

TypeInv == TypeOK /\ LocalsSet /\ ListedExist

-----------------------------------------------------------------------------
(* One active track per object.                                             *)

Active == InStatus("active")

\* Only the holder of the lock is inside.
LockHeld == \A w \in Worker : pc[w] \in Inside => lock = w

\* A track without a row has no filter.
FilterHasTrack == \A t \in Track : hasFilter[t] => track[t] # None

\* A sweep never writes an active row.
SweepsOnlyExpire == \A p \in Proc : \A r \in rows[p] : r.row.status # "active"

\* Once a worker's own sweep is over, no active track is quieter than Stale as
\* of its detection; until then the quiet ones are on the sweep's list.
SweptBefore ==
  \A w \in Worker : \A t \in Active :
    /\ pc[w] = "mark_lost" =>
         det[w].ts - track[t].lastSeen <= Stale \/ \E r \in rows[w] : r.id = t
    /\ pc[w] \in {"mark_closed", "list_open", "match"} =>
         det[w].ts - track[t].lastSeen <= Stale

\* No pending report of an object is much older than what is stored of it, or
\* than another pending report of it.
InOrder ==
  \A w \in Worker : pc[w] # "idle" =>
    /\ det[w].ts <= newest[det[w].object]
    /\ \A t \in Active : track[t].object = det[w].object =>
         track[t].lastSeen - det[w].ts <= MaxLate
    /\ \A v \in Worker : pc[v] # "idle" /\ det[v].object = det[w].object =>
         det[v].ts - det[w].ts <= MaxLate

NewestIsNewest == \A t \in Active : track[t].lastSeen <= newest[track[t].object]

Follows(t, o) == t \in Active /\ hasFilter[t] /\ track[t].object = o

\* A worker about to spawn has no rival, and the track a worker has chosen or
\* created has none until its row is written.
NoRival ==
  \A w \in Worker :
    /\ pc[w] = "spawn" /\ det[w].located =>
         \A t \in Track : ~Follows(t, det[w].object)
    /\ pc[w] \in {"save_filter", "create_detection", "update_track"} =>
         /\ cur[w].row.status = "active"
         /\ cur[w].row.object = det[w].object
         /\ cur[w].row.lastSeen = det[w].ts
         /\ track[cur[w].id] # None
         /\ cur[w].id \in Active => track[cur[w].id].object = det[w].object
         /\ det[w].located \/ hasFilter[cur[w].id] =>
              \A t \in Track : Follows(t, det[w].object) => t = cur[w].id
    /\ pc[w] = "save_filter" => det[w].located

IInv ==
  /\ TypeInv
  /\ LockHeld
  /\ FilterHasTrack
  /\ SweepsOnlyExpire
  /\ SweptBefore
  /\ InOrder
  /\ NewestIsNewest
  /\ NoRival
  /\ OneActiveTrackPerObject

\* Overwriting one column of a row leaves a row.
LEMMA RowUpdates ==
  /\ \A row \in TrackRow :
       /\ \A s \in {"active", "lost", "closed"} : [row EXCEPT !.status = s] \in TrackRow
       /\ \A ts \in Nat : [row EXCEPT !.lastSeen = ts] \in TrackRow
       /\ \A l \in Label : [row EXCEPT !.label = l] \in TrackRow
  /\ \A row \in IncidentRow :
       \A s \in {"open", "acknowledged", "resolved"} :
         [row EXCEPT !.status = s] \in IncidentRow
BY DEF TrackRow, IncidentRow

\* The rows a sweep holds are track rows.
LEMMA MarkedRows ==
  ASSUME TypeInv, NEW ts \in SUBSET Track, \A t \in ts : track[t] # None,
         NEW s \in {"lost", "closed"}
  PROVE  Marked(ts, s) \in SUBSET [id : Track, row : TrackRow]
<1>1. \A t \in ts : track[t] \in TrackRow
  BY DEF TypeInv, TypeOK
<1>2. \A t \in ts : [track[t] EXCEPT !.status = s] \in TrackRow
  BY <1>1, RowUpdates
<1>. QED
  BY <1>2 DEF Marked

LEMMA TypeStep == TypeInv /\ [Next]_vars => TypeInv'
<1> SUFFICES ASSUME TypeInv, [Next]_vars PROVE TypeInv'
  OBVIOUS
<1> USE NamesAssumption, TimingAssumption
    DEF TypeInv, TypeOK, LocalsSet, ListedExist, Goto, db, sweep, commit, ghosts
<1>1. ASSUME NEW w \in Worker, Receive(w) PROVE TypeInv'
  BY <1>1 DEF Receive, Detection, WorkerPC, Held, Proc
<1>2. ASSUME NEW w \in Worker, Acquire(w) PROVE TypeInv'
  BY <1>2 DEF Acquire, WorkerPC, Held, Proc
<1>3. ASSUME NEW w \in Worker, FindMatchingTrack(w) PROVE TypeInv'
  BY <1>3 DEF FindMatchingTrack, Seen, Candidates, InStatus, TrackRow, Detection, WorkerPC, Held, Proc
<1>4. ASSUME NEW w \in Worker, NoMatch(w) PROVE TypeInv'
  BY <1>4 DEF NoMatch, WorkerPC, Held, Proc
<1>5. ASSUME NEW w \in Worker, SpawnTrack(w) PROVE TypeInv'
  BY <1>5 DEF SpawnTrack, Unused, TrackRow, Label, Detection, WorkerPC, Held, Proc
<1>6. ASSUME NEW w \in Worker, SaveFilter(w) PROVE TypeInv'
  BY <1>6 DEF SaveFilter, WorkerPC, Held, Proc
<1>7. ASSUME NEW w \in Worker, CreateDetection(w) PROVE TypeInv'
  BY <1>7 DEF CreateDetection, Detection, WorkerPC, Held, Proc
<1>8. ASSUME NEW w \in Worker, UpdateTrack(w) PROVE TypeInv'
  <2>1. PICK fused \in Votes, zones \in SUBSET Zone :
          LET row == [cur[w].row EXCEPT !.label = Ratchet(@, fused)]
          IN  /\ track' = [track EXCEPT ![cur[w].id] = row]
              /\ cur' = [cur EXCEPT ![w].row = row]
              /\ here' = [here EXCEPT ![w] = zones]
              /\ alarms' = [alarms EXCEPT ![w] = Within(zones)]
    BY <1>8 DEF UpdateTrack
  <2> DEFINE row == [cur[w].row EXCEPT !.label = Ratchet(@, fused)]
  <2>2. cur[w] \in [id : Track, row : TrackRow]
    BY <1>8 DEF UpdateTrack, Held
  <2>3. Ratchet(cur[w].row.label, fused) \in Label
    BY <2>2 DEF Ratchet, TrackRow
  <2>4. row \in TrackRow
    BY <2>2, <2>3, RowUpdates
  <2>5. cur' = [cur EXCEPT ![w] = [@ EXCEPT !.row = row]]
    BY <2>1
  <2>6. [cur[w] EXCEPT !.row = row] \in [id : Track, row : TrackRow]
    BY <2>2, <2>4
  <2>7. Within(zones) \in SUBSET Alarm
    BY DEF Within, Alarm
  <2> HIDE DEF row
  <2>8. cur' \in [Worker -> [id : Track, row : TrackRow] \cup {None}]
    BY <2>5, <2>6
  <2>9. track' \in [Track -> TrackRow \cup {None}]
    BY <2>1, <2>2, <2>4 DEF row
  <2>10. here' \in [Worker -> SUBSET Zone] /\ alarms' \in [Worker -> SUBSET Alarm]
    BY <2>1, <2>7
  <2>11. \A v \in Worker : v # w => cur'[v] = cur[v]
    BY <2>5
  <2>12. cur'[w] \in [id : Track, row : TrackRow]
    BY <2>5, <2>6
  <2>. QED
    BY <1>8, <2>8, <2>9, <2>10, <2>11, <2>12 DEF UpdateTrack, WorkerPC, Held, Proc
<1>9. ASSUME NEW w \in Worker, LookUp(w, "entries", "open_entry") PROVE TypeInv'
  BY <1>9, SMTT(60) DEF LookUp, WorkerPC, Held, Proc
<1>10. ASSUME NEW w \in Worker, CreateIncident(w, "open_entry", "entries") PROVE TypeInv'
  BY <1>10 DEF CreateIncident, FreeIds, IncidentRow, WorkerPC, Held, Proc
<1>11. ASSUME NEW w \in Worker, ListExits(w) PROVE TypeInv'
  BY <1>11 DEF ListExits, OpenFor, WorkerPC, Held, Proc
<1>12. ASSUME NEW w \in Worker, Foresee(w) PROVE TypeInv'
  BY <1>12 DEF Foresee, Heading, Alarm, WorkerPC, Held, Proc
<1>13. ASSUME NEW w \in Worker, LookUp(w, "warnings", "open_warning") PROVE TypeInv'
  BY <1>13, SMTT(60) DEF LookUp, WorkerPC, Held, Proc
<1>14. ASSUME NEW w \in Worker, CreateIncident(w, "open_warning", "warnings") PROVE TypeInv'
  BY <1>14 DEF CreateIncident, FreeIds, IncidentRow, WorkerPC, Held, Proc
<1>15. ASSUME NEW w \in Worker, Release(w) PROVE TypeInv'
  BY <1>15 DEF Release, Discard, WorkerPC, Held, Proc
<1>16. ASSUME NEW r \in Reader, Poll(r) PROVE TypeInv'
  BY <1>16 DEF Poll, WorkerPC, Held, Proc
<1>17. ASSUME NEW p \in Proc, ListActive(p) PROVE TypeInv'
  <2> DEFINE ts == {t \in InStatus("active") : Quiet(p, t, Stale)}
  <2>1. ts \in SUBSET Track /\ \A t \in ts : track[t] # None
    BY DEF InStatus
  <2>2. Marked(ts, "lost") \in SUBSET [id : Track, row : TrackRow]
    BY <2>1, MarkedRows
  <2>. QED
    BY <1>17, <2>2 DEF ListActive, WorkerPC, Held, Proc
<1>18. ASSUME NEW p \in Proc, MarkLost(p) PROVE TypeInv'
  BY <1>18 DEF MarkLost, WorkerPC, Held, Proc
<1>19. ASSUME NEW p \in Proc, ListLost(p) PROVE TypeInv'
  <2> DEFINE ts == {t \in InStatus("lost") : Quiet(p, t, Drop)}
  <2>1. ts \in SUBSET Track /\ \A t \in ts : track[t] # None
    BY DEF InStatus
  <2>2. Marked(ts, "closed") \in SUBSET [id : Track, row : TrackRow]
    BY <2>1, MarkedRows
  <2>. QED
    BY <1>19, <2>2 DEF ListLost, WorkerPC, Held, Proc
<1>20. ASSUME NEW p \in Proc, MarkClosed(p) PROVE TypeInv'
  BY <1>20 DEF MarkClosed, WorkerPC, Held, Proc
<1>21. ASSUME NEW p \in Proc, ListOpen(p) PROVE TypeInv'
  BY <1>21 DEF ListOpen, OpenFor, WorkerPC, Held, Proc
<1>22. ASSUME NEW p \in Proc, AutoClose(p) PROVE TypeInv'
  <2>1. PICK i \in ids[p] : /\ incident' = [incident EXCEPT ![i].status = "resolved"]
                            /\ ids' = [ids EXCEPT ![p] = @ \ {i}]
    BY <1>22 DEF AutoClose
  <2>2. i \in IncidentId /\ incident[i] \in IncidentRow
    BY DEF Proc
  <2>3. [incident[i] EXCEPT !.status = "resolved"] \in IncidentRow
    BY <2>2, RowUpdates
  <2>4. incident' \in [IncidentId -> IncidentRow \cup {None}]
    BY <2>1, <2>2, <2>3
  <2>5. ids' \in [Proc -> SUBSET IncidentId] /\ \A q \in Proc : ids'[q] \subseteq ids[q]
    BY <2>1
  <2>6. \A j \in IncidentId : incident[j] # None => incident'[j] # None
    BY <2>1, <2>2, <2>3
  <2>. QED
    BY <1>22, <2>4, <2>5, <2>6 DEF AutoClose, WorkerPC, Held, Proc
<1>23. ASSUME NEW p \in Proc, EndSweep(p) PROVE TypeInv'
  BY <1>23 DEF EndSweep, WorkerPC, Held, Proc
<1>24. ASSUME NEW p \in Proc, Crash(p) PROVE TypeInv'
  <2>1. rows' \in [Proc -> SUBSET [id : Track, row : TrackRow]] /\ ids' \in [Proc -> SUBSET IncidentId]
    BY <1>24 DEF Crash
  <2>2. CASE p \in Worker
    <3>1. pc' = [pc EXCEPT ![p] = "idle"] /\ Discard(p) /\ UNCHANGED <<db, now, form, newest, reopened>>
      BY <1>24, <2>2 DEF Crash
    <3>2. TypeOK'
      BY <1>24, <2>1, <2>2, <3>1, SMTT(60) DEF Crash, Discard, WorkerPC, Proc
    <3>3. LocalsSet'
      BY <2>2, <3>1, SMTT(60) DEF Discard, WorkerPC, Held, Proc
    <3>4. ListedExist'
      BY <1>24, <2>2, <3>1, SMTT(60) DEF Crash, Proc
    <3>. QED
      BY <3>2, <3>3, <3>4
  <2>3. CASE p \notin Worker
    BY <1>24, <2>1, <2>3 DEF Crash, WorkerPC, Held, Proc
  <2>. QED
    BY <2>2, <2>3
<1>25. ASSUME NEW o \in Operator, ReadIncident(o) PROVE TypeInv'
  BY <1>25 DEF ReadIncident, FreeIds, WorkerPC, Held, Proc
<1>26. ASSUME NEW o \in Operator, WriteIncident(o) PROVE TypeInv'
  <2> DEFINE i == form[o].id
             s == IF form[o].verb = "acknowledge" THEN "acknowledged" ELSE "resolved"
  <2>1. i \in IncidentId /\ incident[i] \in IncidentRow
    BY <1>26 DEF WriteIncident
  <2>2. [incident[i] EXCEPT !.status = s] \in IncidentRow
    BY <2>1, RowUpdates
  <2>3. incident' = [incident EXCEPT ![i] = [@ EXCEPT !.status = s]]
    BY <1>26 DEF WriteIncident
  <2>4. incident' \in [IncidentId -> IncidentRow \cup {None}]
    BY <2>1, <2>2, <2>3
  <2>5. \A j \in IncidentId : incident[j] # None => incident'[j] # None
    BY <2>1, <2>2, <2>3
  <2>6. reopened' \in SUBSET IncidentId
    BY <1>26, <2>1 DEF WriteIncident
  <2>. QED
    BY <1>26, <2>4, <2>5, <2>6 DEF WriteIncident, WorkerPC, Held, Proc
<1>27. CASE Tick
  BY <1>27 DEF Tick, WorkerPC, Held, Proc
<1>28. CASE UNCHANGED vars
  BY <1>28 DEF vars
<1>29. QED
  BY <1>1, <1>2, <1>3, <1>4, <1>5, <1>6, <1>7, <1>8, <1>9, <1>10, <1>11, <1>12, <1>13, <1>14, <1>15, <1>16, <1>17, <1>18, <1>19, <1>20, <1>21, <1>22, <1>23, <1>24, <1>25, <1>26, <1>27, <1>28 DEF Next, CommitStep, SweepStep

LEMMA TypeInit == Init => TypeInv
BY NamesAssumption DEF Init, TypeInv, TypeOK, LocalsSet, ListedExist, WorkerPC, Held, Proc

\* Every reachable state of the database, of the lock and of each request's
\* memory is of the declared type, and requests only use what they have set.
THEOREM TypeCorrect == Spec => []TypeOK
<1>1. TypeInv => TypeOK
  BY DEF TypeInv
<1>. QED
  BY <1>1, TypeInit, TypeStep, PTL DEF Spec

-----------------------------------------------------------------------------
(* The steps that concern the lock alone.                                   *)

LEMMA LockStep ==
  ASSUME TypeInv, LockHeld, [Next]_vars
  PROVE  LockHeld'
<1> USE NamesAssumption DEF LockHeld, Inside, WorkerPC, Goto, TypeInv, TypeOK, Proc
<1>1. CASE \E w \in Worker : Receive(w) \/ Acquire(w) \/ Release(w)
  BY <1>1 DEF Receive, Acquire, LockFree, Release
<1>2. CASE \E w \in Worker : CommitStep(w) /\ ~Release(w)
  <2>. PICK w \in Worker : CommitStep(w) /\ ~Release(w)
    BY <1>2
  <2>1. pc[w] \in Inside /\ lock' = lock /\ \A v \in Worker : v # w => pc'[v] = pc[v]
    BY DEF CommitStep, FindMatchingTrack, NoMatch, SpawnTrack, SaveFilter, CreateDetection,
           UpdateTrack, LookUp, CreateIncident, ListExits, Foresee
  <2>. QED
    BY <2>1
<1>3. CASE \E p \in Proc : SweepStep(p)
  <2>. PICK p \in Proc : SweepStep(p)
    BY <1>3
  <2>1. pc[p] \in Inside /\ lock' = lock /\ \A q \in Proc : q # p => pc'[q] = pc[q]
    BY DEF SweepStep, ListActive, MarkLost, ListLost, MarkClosed, ListOpen, AutoClose, EndSweep
  <2>. QED
    BY <2>1
<1>4. CASE \E p \in Proc : Crash(p)
  BY <1>4 DEF Crash
<1>5. CASE \E r \in Reader : Poll(r)
  BY <1>5 DEF Poll
<1>6. CASE \/ \E o \in Operator : ReadIncident(o) \/ WriteIncident(o)
           \/ Tick \/ UNCHANGED vars
  BY <1>6 DEF ReadIncident, WriteIncident, Tick, vars
<1>. QED
  BY <1>1, <1>2, <1>3, <1>4, <1>5, <1>6 DEF Next

\* Two workers are never inside together.
LEMMA Alone ==
  ASSUME LockHeld, NEW v \in Worker, NEW w \in Worker, pc[v] \in Inside, pc[w] \in Inside
  PROVE  v = w
BY DEF LockHeld

LEMMA SweepsOnlyExpireStep ==
  ASSUME TypeInv, SweepsOnlyExpire, [Next]_vars
  PROVE  SweepsOnlyExpire'
<1> USE DEF SweepsOnlyExpire, TypeInv, TypeOK
<1>1. ASSUME NEW p \in Proc, ListActive(p) \/ ListLost(p)
      PROVE  SweepsOnlyExpire'
  <2>1. PICK ts \in SUBSET Track, s \in {"lost", "closed"} :
          /\ \A t \in ts : track[t] # None
          /\ rows' = [rows EXCEPT ![p] = Marked(ts, s)]
    <3>1. CASE ListActive(p)
      BY <3>1 DEF ListActive, InStatus
    <3>2. CASE ListLost(p)
      BY <3>2 DEF ListLost, InStatus
    <3>. QED
      BY <1>1, <3>1, <3>2
  <2>2. \A t \in ts : track[t] \in TrackRow
    BY <2>1
  <2>3. \A r \in Marked(ts, s) : r.row.status = s
    BY <2>2 DEF Marked, TrackRow
  <2>. QED
    BY <2>1, <2>3
<1>2. CASE \A p \in Proc : rows'[p] \subseteq rows[p]
  BY <1>2
<1>3. CASE \E p \in Proc : MarkLost(p) \/ MarkClosed(p) \/ Crash(p)
  BY <1>3, <1>2 DEF MarkLost, MarkClosed, Crash
<1>4. CASE rows' = rows
  BY <1>4
<1>5. CASE \E w \in Worker : Receive(w) \/ Acquire(w) \/ CommitStep(w)
  BY <1>5, <1>4 DEF Receive, Acquire, CommitStep, FindMatchingTrack, NoMatch, SpawnTrack,
       SaveFilter, CreateDetection, UpdateTrack, LookUp, CreateIncident, ListExits, Foresee,
       Release, sweep
<1>6. CASE \E p \in Proc : ListOpen(p) \/ AutoClose(p) \/ EndSweep(p)
  BY <1>6, <1>4 DEF ListOpen, AutoClose, EndSweep, sweep
<1>7. CASE \/ \E r \in Reader : Poll(r)
           \/ \E o \in Operator : ReadIncident(o) \/ WriteIncident(o)
           \/ Tick \/ UNCHANGED vars
  BY <1>7, <1>4 DEF Poll, ReadIncident, WriteIncident, Tick, vars, sweep
<1>. QED
  BY <1>1, <1>3, <1>5, <1>6, <1>7 DEF Next, SweepStep

-----------------------------------------------------------------------------
(* Steps that create no active row, start no request and choose no track    *)
(* keep every claim about rivals: active rows only disappear.               *)

Calm ==
  /\ hasFilter' = hasFilter
  /\ newest' = newest
  /\ \A t \in Track : track'[t] # None /\ track'[t].status = "active" =>
       track[t] # None /\ track'[t] = track[t]
  /\ \A t \in Track : track[t] # None => track'[t] # None
  /\ \A w \in Worker :
       /\ pc'[w] # "idle" => pc[w] # "idle" /\ det'[w] = det[w]
       /\ pc'[w] = "spawn" => pc[w] = "spawn"
       /\ pc'[w] \in Choosing => pc[w] \in Choosing /\ cur'[w] = cur[w]
       /\ pc'[w] = "save_filter" => pc[w] = "save_filter"

Claims == InOrder /\ NewestIsNewest /\ NoRival /\ OneActiveTrackPerObject /\ FilterHasTrack

LEMMA CalmKeepsClaims ==
  ASSUME TypeInv, Claims, Calm
  PROVE  Claims'
<1>1. InOrder'
  BY DEF Claims, InOrder, Calm, Active, InStatus
<1>2. NewestIsNewest'
  BY DEF Claims, NewestIsNewest, Calm, Active, InStatus
<1>3. \A t \in Track, o \in Object : Follows(t, o)' => Follows(t, o)
  BY DEF Calm, Follows, Active, InStatus
<1>4. NoRival'
  <2> SUFFICES ASSUME NEW w \in Worker
               PROVE  /\ pc'[w] = "spawn" /\ det'[w].located =>
                           \A t \in Track : ~Follows(t, det[w].object)'
                      /\ pc'[w] \in Choosing =>
                           /\ cur'[w].row.status = "active"
                           /\ cur'[w].row.object = det'[w].object
                           /\ cur'[w].row.lastSeen = det'[w].ts
                           /\ track'[cur'[w].id] # None
                           /\ cur'[w].id \in Active' => track'[cur'[w].id].object = det'[w].object
                           /\ det'[w].located \/ hasFilter'[cur'[w].id] =>
                                \A t \in Track : Follows(t, det[w].object)' => t = cur'[w].id
                      /\ pc'[w] = "save_filter" => det'[w].located
    BY DEF NoRival, Choosing
  <2>1. pc'[w] # "idle" => det'[w] = det[w] /\ det[w].object \in Object
    BY DEF Calm, TypeInv, LocalsSet, Detection
  <2>2. CASE pc'[w] = "spawn"
    BY <2>1, <2>2, <1>3 DEF Calm, Claims, NoRival, Choosing
  <2>3. CASE pc'[w] \in Choosing
    <3>1. pc[w] \in Choosing /\ cur'[w] = cur[w] /\ cur[w].id \in Track
      BY <2>3 DEF Calm, Choosing, TypeInv, LocalsSet, Held
    <3>. QED
      BY <2>1, <2>3, <3>1, <1>3 DEF Calm, Claims, NoRival, Choosing, Active, InStatus
  <2>. QED
    BY <2>2, <2>3 DEF Choosing
<1>5. OneActiveTrackPerObject'
  BY DEF Claims, OneActiveTrackPerObject, Calm, InStatus
<1>6. FilterHasTrack'
  BY DEF Claims, FilterHasTrack, Calm
<1>. QED
  BY <1>1, <1>2, <1>4, <1>5, <1>6 DEF Claims

\* A sweep's write takes the row of an active track away, or leaves it so.
LEMMA WriteExpires ==
  ASSUME TypeInv, SweepsOnlyExpire, NEW p \in Proc, MarkLost(p) \/ MarkClosed(p)
  PROVE  Calm
<1>1. PICK r \in rows[p] : track' = [track EXCEPT ![r.id] = r.row]
  BY DEF MarkLost, MarkClosed
<1>2. r.id \in Track /\ r.row \in TrackRow /\ r.row.status # "active"
  BY <1>1 DEF TypeInv, TypeOK, SweepsOnlyExpire
<1>3. r.row # None
  BY <1>2, NamesAssumption
<1>4. /\ hasFilter' = hasFilter /\ newest' = newest /\ det' = det /\ cur' = cur
      /\ pc' = [pc EXCEPT ![p] = IF MarkLost(p) THEN pc[p] ELSE "list_open"]
  BY DEF MarkLost, MarkClosed, commit, ghosts, Goto, TypeInv, TypeOK
<1>5. \A w \in Worker : /\ pc'[w] \in Choosing \cup {"idle", "spawn"} => pc'[w] = pc[w]
                        /\ pc'[w] # "idle" => pc[w] # "idle"
  BY <1>4 DEF MarkLost, MarkClosed, Choosing, TypeInv, TypeOK, Proc
<1>. QED
  BY <1>1, <1>2, <1>3, <1>4, <1>5 DEF Calm, Choosing, TypeInv, TypeOK

LEMMA OthersAreCalm ==
  ASSUME TypeInv, SweepsOnlyExpire, [Next]_vars,
         ~ \E w \in Worker : \/ Receive(w) \/ FindMatchingTrack(w) \/ NoMatch(w)
                             \/ SpawnTrack(w) \/ SaveFilter(w) \/ UpdateTrack(w)
  PROVE  Calm
<1> USE DEF Calm, Choosing, Goto, TypeInv, TypeOK, Proc, db, sweep, commit, ghosts
<1>1. CASE \E w \in Worker : Acquire(w) \/ CreateDetection(w) \/ ListExits(w) \/ Foresee(w)
  BY <1>1 DEF Acquire, CreateDetection, ListExits, Foresee
<1>2. CASE \E w \in Worker : \/ LookUp(w, "entries", "open_entry")
                             \/ LookUp(w, "warnings", "open_warning")
                             \/ CreateIncident(w, "open_entry", "entries")
                             \/ CreateIncident(w, "open_warning", "warnings")
  BY <1>2 DEF LookUp, CreateIncident
<1>3. CASE \E w \in Worker : Release(w)
  BY <1>3 DEF Release, Discard
<1>4. CASE \E p \in Proc : ListActive(p) \/ ListLost(p) \/ ListOpen(p) \/ AutoClose(p) \/ EndSweep(p)
  BY <1>4, NamesAssumption DEF ListActive, ListLost, ListOpen, AutoClose, EndSweep
<1>5. CASE \E p \in Proc : MarkLost(p) \/ MarkClosed(p)
  BY <1>5, WriteExpires
<1>6. CASE \E p \in Proc : Crash(p)
  BY <1>6, NamesAssumption DEF Crash, Discard
<1>7. CASE \E r \in Reader : Poll(r)
  BY <1>7, NamesAssumption DEF Poll
<1>8. CASE \/ \E o \in Operator : ReadIncident(o) \/ WriteIncident(o)
           \/ Tick \/ UNCHANGED vars
  BY <1>8 DEF ReadIncident, WriteIncident, Tick, vars
<1>. QED
  BY <1>1, <1>2, <1>3, <1>4, <1>5, <1>6, <1>7, <1>8 DEF Next, CommitStep, SweepStep

-----------------------------------------------------------------------------
(* What the worker's own sweep leaves behind.                               *)

Sweeping == {"mark_lost", "mark_closed", "list_open", "match"}

\* A step that neither writes a new active row nor moves a worker's sweep
\* forward keeps what the sweeps have established.
Undisturbed ==
  /\ \A t \in Track : track'[t] # None /\ track'[t].status = "active" =>
       track[t] # None /\ track'[t] = track[t]
  /\ \A w \in Worker : pc'[w] \in Sweeping =>
       /\ pc[w] \in Sweeping /\ det'[w] = det[w]
       /\ pc'[w] = "mark_lost" => pc[w] = "mark_lost" /\ rows'[w] = rows[w]
       /\ pc'[w] # "mark_lost" => pc[w] # "mark_lost"

LEMMA UndisturbedKeepsSwept ==
  ASSUME SweptBefore, Undisturbed
  PROVE  SweptBefore'
BY DEF SweptBefore, Undisturbed, Sweeping, Active, InStatus

LEMMA SweptBeforeStep ==
  ASSUME TypeInv, LockHeld, SweepsOnlyExpire, SweptBefore, [Next]_vars
  PROVE  SweptBefore'
<1> USE DEF Sweeping, Goto, TypeInv, TypeOK, Proc, db, sweep, commit, ghosts
<1>1. ASSUME NEW v \in Worker, SpawnTrack(v) \/ UpdateTrack(v)
      PROVE  SweptBefore'
  <2>1. pc[v] \in Inside /\ pc'[v] \notin Sweeping /\ \A w \in Worker : w # v => pc'[w] = pc[w]
    BY <1>1 DEF SpawnTrack, UpdateTrack, Inside, WorkerPC
  <2>2. \A w \in Worker : pc'[w] \notin Sweeping
    BY <2>1, Alone DEF Inside, WorkerPC
  <2>. QED
    BY <2>2 DEF SweptBefore
<1>2. ASSUME NEW p \in Proc, ListActive(p)
      PROVE  SweptBefore'
  <2> SUFFICES ASSUME NEW w \in Worker, NEW t \in Active'
               PROVE  /\ pc'[w] = "mark_lost" =>
                           \/ det'[w].ts - track'[t].lastSeen <= Stale
                           \/ \E r \in rows'[w] : r.id = t
                      /\ pc'[w] \in {"mark_closed", "list_open", "match"} =>
                           det'[w].ts - track'[t].lastSeen <= Stale
    BY DEF SweptBefore
  <2>1. t \in Active /\ track' = track /\ det' = det /\ pc' = [pc EXCEPT ![p] = "mark_lost"]
    BY <1>2 DEF ListActive, Active, InStatus
  <2>2. CASE w # p
    BY <1>2, <2>1, <2>2 DEF ListActive, SweptBefore
  <2>3. CASE w = p
    <3>1. CASE det[w].ts - track[t].lastSeen > Stale
      <4> DEFINE r == [id |-> t, row |-> [track[t] EXCEPT !.status = "lost"]]
      <4>1. t \in {u \in InStatus("active") : Quiet(p, u, Stale)}
        BY <2>1, <2>3, <3>1 DEF Active, Quiet, Now
      <4>2. r \in Marked({u \in InStatus("active") : Quiet(p, u, Stale)}, "lost")
        BY <4>1 DEF Marked
      <4>3. r \in rows'[w] /\ r.id = t
        BY <1>2, <2>3, <4>2 DEF ListActive
      <4>. QED
        BY <2>1, <2>3, <4>3
    <3>2. CASE ~(det[w].ts - track[t].lastSeen > Stale)
      <4>1. det[w].ts \in Nat /\ track[t].lastSeen \in Nat
        BY <1>2, <2>1, <2>3 DEF ListActive, LocalsSet, Detection, TrackRow, Active, InStatus
      <4>. QED
        BY <2>1, <2>3, <3>2, <4>1, TimingAssumption
    <3>. QED
      BY <3>1, <3>2
  <2>. QED
    BY <2>2, <2>3
<1>3. ASSUME NEW p \in Proc, MarkLost(p)
      PROVE  SweptBefore'
  <2>1. PICK r \in rows[p] : /\ track' = [track EXCEPT ![r.id] = r.row]
                             /\ rows' = [rows EXCEPT ![p] = @ \ {r}]
    BY <1>3 DEF MarkLost
  <2>2. r.id \in Track /\ r.row \in TrackRow /\ r.row.status # "active"
    BY <2>1 DEF SweepsOnlyExpire
  <2>3. \A t \in Active' : t \in Active /\ t # r.id /\ track'[t] = track[t]
    BY <2>1, <2>2 DEF Active, InStatus
  <2>4. pc' = pc /\ det' = det
    BY <1>3 DEF MarkLost
  <2>5. \A w \in Worker : \A x \in rows[w] : x.id # r.id => x \in rows'[w]
    BY <2>1
  <2>. QED
    BY <2>3, <2>4, <2>5 DEF SweptBefore
<1>4. ASSUME NEW p \in Proc, ListLost(p)
      PROVE  SweptBefore'
  BY <1>4 DEF ListLost, SweptBefore, Active, InStatus
<1>5. ASSUME NEW p \in Proc, MarkClosed(p)
      PROVE  SweptBefore'
  <2>1. Calm
    BY <1>5, WriteExpires
  <2>2. pc[p] = "mark_closed" /\ pc' = [pc EXCEPT ![p] = "list_open"] /\ det' = det
        /\ \A w \in Worker : w # p => rows'[w] = rows[w]
    BY <1>5 DEF MarkClosed
  <2>3. Undisturbed
    BY <2>1, <2>2 DEF Calm, Undisturbed
  <2>. QED
    BY <2>3, UndisturbedKeepsSwept
<1>6. ASSUME NEW p \in Proc, ListOpen(p) \/ AutoClose(p) \/ EndSweep(p)
      PROVE  SweptBefore'
  <2>1. Undisturbed
    BY <1>6 DEF Undisturbed, ListOpen, AutoClose, EndSweep
  <2>. QED
    BY <2>1, UndisturbedKeepsSwept
<1>7. CASE \E w \in Worker : \/ Receive(w) \/ Acquire(w) \/ FindMatchingTrack(w) \/ NoMatch(w)
                             \/ SaveFilter(w) \/ CreateDetection(w) \/ ListExits(w)
                             \/ Foresee(w)
  <2>1. Undisturbed
    BY <1>7 DEF Undisturbed, Receive, Acquire, FindMatchingTrack, NoMatch, SaveFilter,
           CreateDetection, ListExits, Foresee
  <2>. QED
    BY <2>1, UndisturbedKeepsSwept
<1>8. CASE \E w \in Worker : \/ LookUp(w, "entries", "open_entry")
                             \/ LookUp(w, "warnings", "open_warning")
                             \/ CreateIncident(w, "open_entry", "entries")
                             \/ CreateIncident(w, "open_warning", "warnings")
                             \/ Release(w)
  <2>1. Undisturbed
    BY <1>8 DEF Undisturbed, LookUp, CreateIncident, Release, Discard
  <2>. QED
    BY <2>1, UndisturbedKeepsSwept
<1>9. CASE \E p \in Proc : Crash(p)
  <2>1. Undisturbed
    BY <1>9 DEF Undisturbed, Crash, Discard
  <2>. QED
    BY <2>1, UndisturbedKeepsSwept
<1>10. CASE \/ \E r \in Reader : Poll(r)
            \/ \E o \in Operator : ReadIncident(o) \/ WriteIncident(o)
            \/ Tick \/ UNCHANGED vars
  <2>1. Undisturbed
    BY <1>10, NamesAssumption DEF Undisturbed, Poll, ReadIncident, WriteIncident, Tick, vars
  <2>. QED
    BY <2>1, UndisturbedKeepsSwept
<1>. QED
  BY <1>1, <1>2, <1>3, <1>4, <1>5, <1>6, <1>7, <1>8, <1>9, <1>10 DEF Next, CommitStep, SweepStep

-----------------------------------------------------------------------------
(* The six steps that do create active rows, start requests or choose.      *)

\* A new report is timely, so it is in order with everything stored and with
\* everything pending.
LEMMA ReceiveKeepsClaims ==
  ASSUME TypeInv, Claims, NEW w \in Worker, Receive(w)
  PROVE  Claims'
<1> USE TimingAssumption DEF Claims, TypeInv, TypeOK, LocalsSet, Proc
<1>1. PICK d \in [object : Object, ts : 0..MaxTime, located : Fixes] :
        /\ Timely(d)
        /\ det' = [det EXCEPT ![w] = d]
        /\ newest' = [newest EXCEPT ![d.object] = IF d.ts > @ THEN d.ts ELSE @]
  BY DEF Receive
<1>2. /\ d.ts \in Nat /\ d.object \in Object
      /\ pc[w] = "idle" /\ pc' = [pc EXCEPT ![w] = "waiting"]
      /\ UNCHANGED <<track, hasFilter, cur>>
  BY DEF Receive, Goto, db
<1>3. \A o \in Object : newest[o] \in Nat /\ newest'[o] \in Nat /\ newest[o] <= newest'[o]
  BY <1>1, <1>2
<1>4. det'[w] = d /\ \A v \in Worker : v # w => det'[v] = det[v] /\ pc'[v] = pc[v]
  BY <1>1, <1>2
<1>5. d.ts <= newest'[d.object]
  BY <1>1, <1>2
<1>6. \A v \in Worker : pc[v] # "idle" => det[v].ts \in Nat /\ det[v].object \in Object
  BY DEF Detection
<1>7. \A t \in Active : track[t].lastSeen \in Nat /\ track[t].object \in Object
  BY DEF Active, InStatus, TrackRow
<1>8. Active' = Active
  BY <1>2 DEF Active, InStatus
<1>9. NewestIsNewest'
  BY <1>2, <1>3, <1>7, <1>8 DEF NewestIsNewest
<1>10. InOrder'
  <2> SUFFICES ASSUME NEW v \in Worker, pc'[v] # "idle"
               PROVE  /\ det'[v].ts <= newest'[det'[v].object]
                      /\ \A t \in Active : track[t].object = det'[v].object =>
                           track[t].lastSeen - det'[v].ts <= MaxLate
                      /\ \A u \in Worker : pc'[u] # "idle" /\ det'[u].object = det'[v].object =>
                           det'[u].ts - det'[v].ts <= MaxLate
    BY <1>2, <1>8 DEF InOrder
  <2>1. CASE v = w
    <3>1. newest[d.object] - d.ts <= MaxLate
      BY <1>1 DEF Timely
    <3>2. \A t \in Active : track[t].object = d.object => track[t].lastSeen - d.ts <= MaxLate
      BY <1>2, <1>3, <1>7, <3>1 DEF NewestIsNewest
    <3>3. \A u \in Worker : pc[u] # "idle" /\ det[u].object = d.object => det[u].ts - d.ts <= MaxLate
      BY <1>2, <1>3, <1>6, <3>1 DEF InOrder
    <3>4. d.ts - d.ts <= MaxLate
      BY <1>2
    <3>. QED
      BY <1>4, <1>5, <2>1, <3>2, <3>3, <3>4
  <2>2. CASE v # w
    <3>1. pc[v] # "idle" /\ det'[v] = det[v]
      BY <1>4, <2>2
    <3>2. det[v].ts <= newest'[det[v].object]
      BY <1>3, <1>6, <3>1 DEF InOrder
    <3>3. d.object = det[v].object => d.ts - det[v].ts <= MaxLate
      BY <1>1, <3>1 DEF Timely, Busy
    <3>. QED
      BY <1>4, <3>1, <3>2, <3>3 DEF InOrder
  <2>. QED
    BY <2>1, <2>2
<1>11. NoRival'
  BY <1>2, <1>4, <1>8 DEF NoRival, Follows
<1>12. OneActiveTrackPerObject' /\ FilterHasTrack'
  BY <1>2 DEF OneActiveTrackPerObject, FilterHasTrack, InStatus
<1>. QED
  BY <1>9, <1>10, <1>11, <1>12

\* An active row written by a commit carries the timestamp of its detection,
\* which is in order with every other pending report.
LEMMA WrittenRowInOrder ==
  ASSUME TypeInv, InOrder, NewestIsNewest, NEW w \in Worker, pc[w] # "idle",
         NEW x \in Track,
         \A t \in Track : t # x => track'[t] = track[t],
         track'[x].lastSeen = det[w].ts, track'[x].object = det[w].object,
         det' = det, newest' = newest,
         \A v \in Worker : pc'[v] # "idle" => pc[v] # "idle"
  PROVE  InOrder' /\ NewestIsNewest'
<1>1. \A t \in Active' : t # x => t \in Active /\ track'[t] = track[t]
  BY DEF Active, InStatus
<1>2. InOrder'
  BY <1>1 DEF InOrder
<1>3. NewestIsNewest'
  BY <1>1 DEF InOrder, NewestIsNewest
<1>. QED
  BY <1>2, <1>3

\* The track a worker matches is the only one that follows its object.
LEMMA MatchKeepsClaims ==
  ASSUME TypeInv, Claims, NEW w \in Worker, FindMatchingTrack(w)
  PROVE  Claims'
<1> USE DEF TypeInv, TypeOK, Proc, Goto
<1>1. PICK t \in Candidates(det[w]) :
        cur' = [cur EXCEPT ![w] =
                  [id |-> t, row |-> [track[t] EXCEPT !.lastSeen = det[w].ts]]]
  BY DEF FindMatchingTrack, Seen
<1>2. /\ t \in Active /\ track[t] \in TrackRow /\ track[t].status = "active"
      /\ det[w].located /\ hasFilter[t] /\ track[t].object = det[w].object
  BY <1>1 DEF Candidates, Active, InStatus
<1>3. /\ pc[w] = "match" /\ pc' = [pc EXCEPT ![w] = "save_filter"]
      /\ UNCHANGED <<track, hasFilter, det, newest>>
  BY DEF FindMatchingTrack, db, ghosts
<1>4. InOrder' /\ NewestIsNewest' /\ OneActiveTrackPerObject' /\ FilterHasTrack'
  BY <1>3 DEF Claims, InOrder, NewestIsNewest, OneActiveTrackPerObject, FilterHasTrack,
       Active, InStatus
<1>5. /\ cur'[w].id = t /\ cur'[w].row.status = "active"
      /\ cur'[w].row.object = det[w].object /\ cur'[w].row.lastSeen = det[w].ts
  BY <1>1, <1>2 DEF TrackRow
<1>6. \A u \in Track : Follows(u, det[w].object) => u = t
  BY <1>2 DEF Claims, OneActiveTrackPerObject, Follows, Active
<1>7. \A v \in Worker : v # w => cur'[v] = cur[v] /\ pc'[v] = pc[v]
  BY <1>1, <1>3
<1>8. NoRival'
  BY <1>2, <1>3, <1>5, <1>6, <1>7 DEF Claims, NoRival, Follows, Active, InStatus
<1>. QED
  BY <1>4, <1>8 DEF Claims

\* When nothing matches nothing follows the object: the worker's sweep left no
\* active track quieter than Stale, and none is newer than MaxLate.
LEMMA NoMatchKeepsClaims ==
  ASSUME Stale <= Gate, MaxLate <= Gate,
         TypeInv, Claims, SweptBefore, NEW w \in Worker, NoMatch(w)
  PROVE  Claims'
<1> USE DEF TypeInv, TypeOK, Proc, Goto
<1>1. /\ pc[w] = "match" /\ Candidates(det[w]) = {} /\ pc' = [pc EXCEPT ![w] = "spawn"]
      /\ UNCHANGED <<track, hasFilter, det, cur, newest>>
  BY DEF NoMatch, db, commit, ghosts
<1>2. det[w] \in Detection
  BY <1>1 DEF LocalsSet
<1>3. ASSUME det[w].located, NEW t \in Track, Follows(t, det[w].object)
      PROVE  FALSE
  <2>1. t \in Active /\ hasFilter[t] /\ track[t].object = det[w].object
    BY <1>3 DEF Follows
  <2>2. track[t].lastSeen \in Nat /\ det[w].ts \in Nat
    BY <1>2, <2>1 DEF Detection, Active, InStatus, TrackRow
  <2>3. det[w].ts - track[t].lastSeen <= Stale
    BY <1>1, <2>1 DEF SweptBefore
  <2>4. track[t].lastSeen - det[w].ts <= MaxLate
    BY <1>1, <2>1 DEF Claims, InOrder
  <2>5. det[w].ts - track[t].lastSeen \in (-Gate)..Gate
    BY <2>2, <2>3, <2>4, TimingAssumption
  <2>6. t \in Candidates(det[w])
    BY <1>3, <2>1, <2>5 DEF Candidates, Active
  <2>. QED
    BY <1>1, <2>6
<1>4. InOrder' /\ NewestIsNewest' /\ OneActiveTrackPerObject' /\ FilterHasTrack'
  BY <1>1 DEF Claims, InOrder, NewestIsNewest, OneActiveTrackPerObject, FilterHasTrack,
       Active, InStatus
<1>5. NoRival'
  BY <1>1, <1>3 DEF Claims, NoRival, Follows, Active, InStatus
<1>. QED
  BY <1>4, <1>5 DEF Claims

\* A row is spawned without a filter, so it follows nothing yet.
LEMMA SpawnKeepsClaims ==
  ASSUME TypeInv, LockHeld, Claims, NEW w \in Worker, SpawnTrack(w)
  PROVE  Claims'
<1> USE DEF TypeInv, TypeOK, Proc, Goto
<1> DEFINE row == [status |-> "active", lastSeen |-> det[w].ts,
                   label |-> "unknown", object |-> det[w].object]
<1>1. PICK x \in Unused : /\ track' = [track EXCEPT ![x] = row]
                          /\ cur' = [cur EXCEPT ![w] = [id |-> x, row |-> row]]
  BY DEF SpawnTrack
<1>2. /\ pc[w] = "spawn" /\ UNCHANGED <<hasFilter, det, newest>>
      /\ pc' = [pc EXCEPT ![w] = IF det[w].located THEN "save_filter" ELSE "create_detection"]
  BY DEF SpawnTrack, ghosts
<1>3. x \in Track /\ track[x] = None /\ ~hasFilter[x]
  BY <1>1 DEF Unused, Claims, FilterHasTrack
<1>4. det[w] \in Detection
  BY <1>2 DEF LocalsSet
<1>5. row \in TrackRow /\ row # None
  BY <1>4, NamesAssumption DEF TrackRow, Detection, Label
<1>6. InOrder' /\ NewestIsNewest'
  BY <1>1, <1>2, <1>3, WrittenRowInOrder DEF Claims
<1>7. \A t \in Track, o \in Object : Follows(t, o)' => Follows(t, o)
  BY <1>1, <1>2, <1>3 DEF Follows, Active, InStatus
<1>8. OneActiveTrackPerObject'
  BY <1>1, <1>2, <1>3 DEF Claims, OneActiveTrackPerObject, InStatus
<1>9. FilterHasTrack'
  BY <1>1, <1>2, <1>3, <1>5 DEF Claims, FilterHasTrack
<1>10. \A v \in Worker : v # w => pc'[v] \notin Choosing \cup {"spawn"}
  BY <1>2, Alone DEF Choosing, Inside, WorkerPC
<1>11. NoRival'
  BY <1>1, <1>2, <1>3, <1>4, <1>5, <1>7, <1>10 DEF Claims, NoRival, Choosing, Detection, Active, InStatus
<1>. QED
  BY <1>6, <1>8, <1>9, <1>11 DEF Claims

\* The first filter of a new track makes it the only follower of its object.
LEMMA SaveFilterKeepsClaims ==
  ASSUME TypeInv, LockHeld, Claims, NEW w \in Worker, SaveFilter(w)
  PROVE  Claims'
<1> USE DEF TypeInv, TypeOK, Proc, Goto
<1> DEFINE x == cur[w].id
<1>1. /\ pc[w] = "save_filter" /\ UNCHANGED <<track, det, cur, newest>>
      /\ hasFilter' = [hasFilter EXCEPT ![x] = TRUE]
      /\ pc' = [pc EXCEPT ![w] = "create_detection"]
  BY DEF SaveFilter, commit, ghosts
<1>2. x \in Track /\ det[w].object \in Object
  BY <1>1 DEF LocalsSet, Held, Detection
<1>3. /\ det[w].located /\ track[x] # None
      /\ x \in Active => track[x].object = det[w].object
      /\ \A t \in Track : Follows(t, det[w].object) => t = x
  BY <1>1 DEF Claims, NoRival
<1>4. InOrder' /\ NewestIsNewest' /\ FilterHasTrack'
  BY <1>1, <1>2, <1>3 DEF Claims, InOrder, NewestIsNewest, FilterHasTrack, Active, InStatus
<1>5. \A t \in Track, o \in Object : Follows(t, o)' /\ t # x => Follows(t, o)
  BY <1>1 DEF Follows, Active, InStatus
<1>6. \A t \in Track : Follows(t, det[w].object)' => t = x
  BY <1>1, <1>2, <1>3, <1>5
<1>7. OneActiveTrackPerObject'
  BY <1>1, <1>2, <1>3 DEF Claims, OneActiveTrackPerObject, Follows, Active, InStatus
<1>8. \A v \in Worker : v # w => pc'[v] \notin Choosing \cup {"spawn"}
  BY <1>1, Alone DEF Choosing, Inside, WorkerPC
<1>9. NoRival'
  BY <1>1, <1>2, <1>3, <1>6, <1>8 DEF Claims, NoRival, Choosing, Active, InStatus
<1>. QED
  BY <1>4, <1>7, <1>9 DEF Claims

\* The commit may revive a track that expired meanwhile: it has no rival.
LEMMA UpdateKeepsClaims ==
  ASSUME TypeInv, LockHeld, Claims, NEW w \in Worker, UpdateTrack(w)
  PROVE  Claims'
<1> USE DEF TypeInv, TypeOK, Proc, Goto
<1> DEFINE x == cur[w].id
<1>1. PICK fused \in Votes :
        track' = [track EXCEPT ![x] = [cur[w].row EXCEPT !.label = Ratchet(@, fused)]]
  BY DEF UpdateTrack
<1>2. /\ pc[w] = "update_track" /\ UNCHANGED <<hasFilter, det, newest>>
      /\ pc' = [pc EXCEPT ![w] = "entries"]
  BY DEF UpdateTrack, ghosts
<1>3. x \in Track /\ cur[w].row \in TrackRow /\ det[w].object \in Object
  BY <1>2 DEF LocalsSet, Held, Detection
<1>4. /\ track[x] # None /\ cur[w].row.object = det[w].object
      /\ cur[w].row.lastSeen = det[w].ts
      /\ det[w].located \/ hasFilter[x] =>
           \A t \in Track : Follows(t, det[w].object) => t = x
  BY <1>2 DEF Claims, NoRival
<1>5. /\ track'[x].object = det[w].object /\ track'[x].lastSeen = det[w].ts
      /\ \A t \in Track : t # x => track'[t] = track[t]
  BY <1>1, <1>3, <1>4 DEF TrackRow
<1>6. InOrder' /\ NewestIsNewest'
  BY <1>2, <1>3, <1>5, WrittenRowInOrder DEF Claims
<1>7. track'[x] # None
  <2>1. Ratchet(cur[w].row.label, fused) \in Label
    BY <1>3, TimingAssumption DEF Ratchet, TrackRow
  <2>2. track'[x] \in TrackRow
    BY <1>1, <1>3, <2>1, RowUpdates
  <2>. QED
    BY <2>2, NamesAssumption
<1>8. FilterHasTrack'
  BY <1>2, <1>5, <1>7 DEF Claims, FilterHasTrack
<1>9. OneActiveTrackPerObject'
  BY <1>2, <1>3, <1>4, <1>5 DEF Claims, OneActiveTrackPerObject, Follows, Active, InStatus
<1>10. \A v \in Worker : pc'[v] \notin Choosing \cup {"spawn"}
  BY <1>2, Alone DEF Choosing, Inside, WorkerPC
<1>11. NoRival'
  BY <1>10 DEF NoRival, Choosing
<1>. QED
  BY <1>6, <1>8, <1>9, <1>11 DEF Claims

-----------------------------------------------------------------------------

LEMMA Inductive ==
  ASSUME Stale <= Gate, MaxLate <= Gate, IInv, [Next]_vars
  PROVE  IInv'
<1>1. TypeInv' /\ LockHeld' /\ SweepsOnlyExpire' /\ SweptBefore'
  BY TypeStep, LockStep, SweepsOnlyExpireStep, SweptBeforeStep DEF IInv
<1>2. Claims
  BY DEF IInv, Claims
<1>3. Claims'
  BY <1>2, ReceiveKeepsClaims, MatchKeepsClaims, NoMatchKeepsClaims, SpawnKeepsClaims,
     SaveFilterKeepsClaims, UpdateKeepsClaims, OthersAreCalm, CalmKeepsClaims DEF IInv
<1>. QED
  BY <1>1, <1>3 DEF IInv, Claims

LEMMA InitialState == Init => IInv
<1> SUFFICES ASSUME Init PROVE IInv
  OBVIOUS
<1>1. TypeInv
  BY TypeInit
<1>2. Active = {} /\ InStatus("active") = {}
  BY DEF Init, Active, InStatus
<1>. QED
  BY <1>1, <1>2 DEF Init, IInv, LockHeld, FilterHasTrack, SweepsOnlyExpire, SweptBefore,
     InOrder, NewestIsNewest, NoRival, OneActiveTrackPerObject, Inside, Proc, Follows

\* No object is ever followed by two active tracks, for any number of workers,
\* dashboards, operators and crashes, when a track is marked lost before it
\* leaves the time gate and no report is later than the time gate.
THEOREM OneTrackPerObject ==
  ASSUME Stale <= Gate, MaxLate <= Gate
  PROVE  Spec => []OneActiveTrackPerObject
<1>1. IInv => OneActiveTrackPerObject
  BY DEF IInv
<1>2. IInv /\ [Next]_vars => IInv'
  BY Inductive
<1>. QED
  BY <1>1, <1>2, InitialState, PTL DEF Spec

-----------------------------------------------------------------------------
(* get_open_incident followed by create_incident, two transactions under    *)
(* the association lock, opens no incident twice.                           *)

Opening == {"open_entry", "open_warning"}

\* What a worker looked up is still so when it inserts the row: no unresolved
\* incident of that track and alarm, but for those a late acknowledgement
\* brought back.
StillNone ==
  \A w \in Worker : pc[w] \in Opening =>
    \A i \in OpenFor(cur[w].id) \ reopened : incident[i].alarm # cand[w]

IncidentInv == TypeInv /\ LockHeld /\ StillNone /\ OneOpenIncidentPerAlarm

\* A step that opens no incident and starts no lookup.
Settling ==
  /\ reopened \subseteq reopened'
  /\ \A i \in IncidentId : incident'[i] # None =>
       \/ i \in reopened'
       \/ /\ incident[i] # None
          /\ incident'[i].track = incident[i].track
          /\ incident'[i].alarm = incident[i].alarm
          /\ incident[i].status = "resolved" => incident'[i].status = "resolved"
  /\ \A w \in Worker : pc'[w] \in Opening =>
       pc[w] \in Opening /\ cur'[w] = cur[w] /\ cand'[w] = cand[w]

LEMMA SettlingKeeps ==
  ASSUME StillNone, OneOpenIncidentPerAlarm, Settling
  PROVE  StillNone' /\ OneOpenIncidentPerAlarm'
<1>1. \A i \in (IncidentId \ (FreeIds \cup reopened))' :
        /\ i \in IncidentId \ (FreeIds \cup reopened)
        /\ incident'[i].track = incident[i].track
        /\ incident'[i].alarm = incident[i].alarm
        /\ incident[i].status = "resolved" => incident'[i].status = "resolved"
  BY DEF Settling, FreeIds
<1>2. OneOpenIncidentPerAlarm'
  BY <1>1 DEF OneOpenIncidentPerAlarm
<1>3. StillNone'
  BY <1>1 DEF StillNone, Settling, OpenFor, FreeIds
<1>. QED
  BY <1>2, <1>3

LEMMA LookUpKeeps ==
  ASSUME IncidentInv, NEW w \in Worker, NEW from \in WorkerPC, NEW to \in Opening,
         LookUp(w, from, to)
  PROVE  StillNone' /\ OneOpenIncidentPerAlarm'
<1>1. incident' = incident /\ reopened' = reopened /\ cur' = cur
  BY DEF LookUp, db, ghosts
<1>2. OneOpenIncidentPerAlarm'
  BY <1>1 DEF IncidentInv, OneOpenIncidentPerAlarm, FreeIds
<1>3. StillNone
  BY DEF IncidentInv
<1>4. PICK a \in alarms[w] :
        \/ UNCHANGED <<pc, cand>>
        \/ ~HasOpen(cur[w].id, a) /\ Goto(w, to) /\ cand' = [cand EXCEPT ![w] = a]
  BY DEF LookUp
<1>5. StillNone'
  <2> SUFFICES ASSUME NEW v \in Worker, pc'[v] \in Opening,
                      NEW i \in OpenFor(cur[v].id)' \ reopened'
               PROVE  incident'[i].alarm # cand'[v]
    BY DEF StillNone
  <2>1. i \in OpenFor(cur[v].id) \ reopened
    BY <1>1 DEF OpenFor
  <2>2. CASE pc'[v] = pc[v] /\ cand'[v] = cand[v]
    BY <1>1, <1>3, <2>1, <2>2 DEF StillNone
  <2>3. CASE v = w /\ ~HasOpen(cur[w].id, a) /\ cand' = [cand EXCEPT ![w] = a]
    <3>1. cand \in [Worker -> Alarm \cup {None}]
      BY DEF IncidentInv, TypeInv, TypeOK
    <3>. QED
      BY <1>1, <2>1, <2>3, <3>1 DEF HasOpen
  <2>4. pc \in [Proc -> WorkerPC] /\ cand \in [Worker -> Alarm \cup {None}] /\ Worker \subseteq Proc
    BY DEF IncidentInv, TypeInv, TypeOK, Proc
  <2>. QED
    BY <1>4, <2>2, <2>3, <2>4 DEF Goto
<1>. QED
  BY <1>2, <1>5

LEMMA CreateKeeps ==
  ASSUME IncidentInv, NEW w \in Worker, NEW from \in Opening, NEW to \in WorkerPC \ Opening,
         CreateIncident(w, from, to)
  PROVE  StillNone' /\ OneOpenIncidentPerAlarm'
<1> USE DEF IncidentInv, TypeInv, TypeOK, Proc, Goto
<1>1. PICK n \in FreeIds :
        incident' = [incident EXCEPT ![n] =
                       [status |-> "open", track |-> cur[w].id, alarm |-> cand[w]]]
  BY DEF CreateIncident
<1>2. /\ pc[w] = from /\ reopened' = reopened
      /\ pc' = [pc EXCEPT ![w] = to]
  BY DEF CreateIncident, ghosts
<1>3. n \in IncidentId
  BY <1>1 DEF FreeIds
<1>4. \A i \in (IncidentId \ (FreeIds \cup reopened))' : i # n =>
        i \in IncidentId \ (FreeIds \cup reopened) /\ incident'[i] = incident[i]
  BY <1>1, <1>2, <1>3 DEF FreeIds
<1>5. /\ incident'[n].track = cur[w].id
      /\ incident'[n].alarm = cand[w]
  BY <1>1, <1>3
<1>6. \A i \in IncidentId \ (FreeIds \cup reopened) :
        incident[i].track = cur[w].id /\ incident[i].alarm = cand[w]
          => incident[i].status = "resolved"
  BY <1>2 DEF StillNone, OpenFor, FreeIds
<1>7. OneOpenIncidentPerAlarm'
  BY <1>4, <1>5, <1>6 DEF OneOpenIncidentPerAlarm
<1>8. \A v \in Worker : pc'[v] \notin Opening
  BY <1>2, Alone DEF Opening, Inside, WorkerPC
<1>9. StillNone'
  BY <1>8 DEF StillNone
<1>. QED
  BY <1>7, <1>9

\* An acknowledgement that overwrites a resolution is recorded as a reopening.
LEMMA WriteSettles ==
  ASSUME TypeInv, NEW o \in Operator, WriteIncident(o)
  PROVE  Settling
<1> USE DEF TypeInv, TypeOK
<1> DEFINE i == form[o].id
           s == IF form[o].verb = "acknowledge" THEN "acknowledged" ELSE "resolved"
<1>1. /\ incident' = [incident EXCEPT ![i] = [@ EXCEPT !.status = s]]
      /\ reopened' = IF form[o].verb = "acknowledge" /\ incident[i].status = "resolved"
                     THEN reopened \cup {i} ELSE reopened
      /\ UNCHANGED <<pc, cur, cand>>
  BY DEF WriteIncident, commit
<1>2. i \in IncidentId /\ incident[i] # None /\ incident[i] \in IncidentRow
  BY DEF WriteIncident, ListedExist
<1>3. /\ incident'[i].track = incident[i].track /\ incident'[i].alarm = incident[i].alarm
      /\ incident'[i].status = s
  BY <1>1, <1>2 DEF IncidentRow
<1>4. \A j \in IncidentId : j # i => incident'[j] = incident[j]
  BY <1>1
<1>. QED
  BY <1>1, <1>2, <1>3, <1>4 DEF Settling, Opening

LEMMA OthersSettle ==
  ASSUME TypeInv, [Next]_vars,
         ~ \E w \in Worker : \/ LookUp(w, "entries", "open_entry")
                             \/ LookUp(w, "warnings", "open_warning")
                             \/ CreateIncident(w, "open_entry", "entries")
                             \/ CreateIncident(w, "open_warning", "warnings")
  PROVE  Settling
<1> USE DEF Settling, Opening, Goto, TypeInv, TypeOK, Proc, db, sweep, commit, ghosts
<1>1. CASE \E w \in Worker : Receive(w) \/ Acquire(w) \/ FindMatchingTrack(w) \/ NoMatch(w)
  BY <1>1 DEF Receive, Acquire, FindMatchingTrack, NoMatch
<1>2. CASE \E w \in Worker : SpawnTrack(w) \/ SaveFilter(w) \/ CreateDetection(w)
  BY <1>2 DEF SpawnTrack, SaveFilter, CreateDetection
<1>3. CASE \E w \in Worker : UpdateTrack(w) \/ ListExits(w) \/ Foresee(w)
  BY <1>3 DEF UpdateTrack, ListExits, Foresee
<1>4. CASE \E w \in Worker : Release(w)
  BY <1>4 DEF Release, Discard
<1>5. CASE \E p \in Proc : \/ ListActive(p) \/ MarkLost(p) \/ ListLost(p)
                           \/ MarkClosed(p) \/ ListOpen(p) \/ EndSweep(p)
  BY <1>5 DEF ListActive, MarkLost, ListLost, MarkClosed, ListOpen, EndSweep
<1>6. ASSUME NEW p \in Proc, AutoClose(p)
      PROVE  Settling
  <2>1. PICK i \in ids[p] : incident' = [incident EXCEPT ![i].status = "resolved"]
    BY <1>6 DEF AutoClose
  <2>2. i \in IncidentId /\ incident[i] \in IncidentRow
    BY <2>1 DEF ListedExist
  <2>3. /\ incident'[i].track = incident[i].track /\ incident'[i].alarm = incident[i].alarm
        /\ incident'[i].status = "resolved"
    BY <2>1, <2>2 DEF IncidentRow
  <2>. QED
    BY <1>6, <2>1, <2>2, <2>3 DEF AutoClose, ListedExist
<1>7. CASE \E p \in Proc : Crash(p)
  BY <1>7 DEF Crash, Discard
<1>8. CASE \E o \in Operator : WriteIncident(o)
  BY <1>8, WriteSettles
<1>9. CASE \/ \E r \in Reader : Poll(r)
           \/ \E o \in Operator : ReadIncident(o)
           \/ Tick \/ UNCHANGED vars
  BY <1>9 DEF Poll, ReadIncident, Tick, vars
<1>. QED
  BY <1>1, <1>2, <1>3, <1>4, <1>5, <1>6, <1>7, <1>8, <1>9 DEF Next, CommitStep, SweepStep

\* However requests, sweeps, acknowledgements and crashes interleave, a track
\* has no two unresolved incidents of the same alarm, but for those reopened
\* by an acknowledgement that overwrote a resolution.
THEOREM OneIncidentPerAlarm == Spec => []OneOpenIncidentPerAlarm
<1>1. Init => IncidentInv
  BY TypeInit, NamesAssumption DEF IncidentInv, Init, LockHeld, StillNone, OneOpenIncidentPerAlarm,
     Opening, Inside, FreeIds, Proc
<1>2. IncidentInv /\ [Next]_vars => IncidentInv'
  <2> SUFFICES ASSUME IncidentInv, [Next]_vars PROVE IncidentInv'
    OBVIOUS
  <2>1. TypeInv' /\ LockHeld'
    BY TypeStep, LockStep DEF IncidentInv
  <2>2. StillNone' /\ OneOpenIncidentPerAlarm'
    BY LookUpKeeps, CreateKeeps, OthersSettle, SettlingKeeps
       DEF IncidentInv, Opening, WorkerPC
  <2>. QED
    BY <2>1, <2>2 DEF IncidentInv
<1>3. IncidentInv => OneOpenIncidentPerAlarm
  BY DEF IncidentInv
<1>. QED
  BY <1>1, <1>2, <1>3, PTL DEF Spec
=============================================================================
