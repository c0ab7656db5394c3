---------------------- MODULE Tracking_lifecycle_proofs ----------------------
(***************************************************************************)
(* Proofs about the life of a track's row.  Where every expiry sweep runs  *)
(* inside the association lock, as a detection's own does, what a sweep or *)
(* a commit has read is still so when it writes it back, so rows only move *)
(* from active to lost to closed.  Where no request dies half way, a       *)
(* closed track's incidents are closed with it and a row's last_seen is    *)
(* the time of a stored detection, the latter with unlocked sweeps too.    *)
(* Where both hold, requests associate atomically, as Association says.    *)
(***************************************************************************)
EXTENDS Tracking_proofs

-----------------------------------------------------------------------------
(* What a request inside the lock remembers of the table is still so.       *)

Current(p, r) ==
  /\ track[r.id] # None
  /\ IF pc[p] = "mark_lost"
       THEN /\ track[r.id].status = "active" /\ Quiet(p, r.id, Stale)
            /\ r.row = [track[r.id] EXCEPT !.status = "lost"]
       ELSE /\ track[r.id].status = "lost" /\ Quiet(p, r.id, Drop)
            /\ r.row = [track[r.id] EXCEPT !.status = "closed"]

RowsAreCurrent ==
  \A p \in Proc : /\ rows[p] # {} => pc[p] \in Expiring
                  /\ \A r \in rows[p] : Current(p, r)

HeldIsActive ==
  \A w \in Worker : pc[w] \in Held =>
    /\ track[cur[w].id] # None /\ track[cur[w].id].status = "active"
    /\ pc[w] \in Choosing =>
         cur[w].row.status = "active" /\ cur[w].row.label = track[cur[w].id].label

OrderInv == TypeInv /\ LockHeld /\ RowsAreCurrent /\ HeldIsActive

\* The lists a sweep or a commit works through.
ListsAreWorked ==
  \A p \in Proc :
    /\ closing[p] # None => pc[p] = "list_open"
    /\ ids[p] # {} => pc[p] \in {"mark_closed", "close_exits"}

SettledInv == OrderInv /\ crashes = 0 /\ ListsAreWorked /\ ClosedTrackIsSettled

\* A time is that of a detection that is stored, or about to be.
Reported(t, ts) ==
  \/ ts \in detections[t]
  \/ \E w \in Worker : pc[w] \in {"save_filter", "create_detection"} /\ cur[w].id = t /\ det[w].ts = ts

Evidence ==
  /\ \A t \in Track \ Unused : Reported(t, track[t].lastSeen)
  /\ \A p \in Proc : \A r \in rows[p] : Reported(r.id, r.row.lastSeen)

\* A row in memory carries its detection's time, which is stored before it is.
Fresh(w) ==
  pc[w] \in Choosing =>
    /\ cur[w].row.lastSeen = det[w].ts
    /\ pc[w] = "update_track" => det[w].ts \in detections[cur[w].id]

EvidenceInv == TypeInv /\ crashes = 0 /\ Evidence /\ \A w \in Worker : Fresh(w)

-----------------------------------------------------------------------------
(* Where every sweep is inside the lock, one request at a time is.          *)

LEMMA OnlyOneInside ==
  ASSUME Reader = {}, LockHeld, NEW p \in Proc, NEW q \in Proc,
         pc[p] \in Inside, pc[q] \in Inside
  PROVE  p = q
BY DEF LockHeld, Proc

\* So nobody else has read rows or holds a track.
LEMMA OthersHoldNothing ==
  ASSUME Reader = {}, OrderInv, NEW p \in Proc, pc[p] \in Inside,
         NEW q \in Proc, q # p
  PROVE  rows[q] = {} /\ pc[q] \notin Inside /\ pc[q] \notin Held
<1>1. pc[q] \notin Inside
  BY OnlyOneInside DEF OrderInv
<1>2. Expiring \subseteq Inside /\ Held \subseteq Inside
  BY DEF Expiring, Held, Inside, WorkerPC
<1>. QED
  BY <1>1, <1>2 DEF OrderInv, RowsAreCurrent

\* A step that writes no row, lists none and chooses no track.
Aside ==
  /\ track' = track
  /\ \A p \in Proc :
       /\ rows'[p] \subseteq rows[p]
       /\ rows'[p] # {} =>
            /\ pc'[p] \in Expiring /\ det'[p] = det[p]
            /\ pc'[p] = "mark_lost" <=> pc[p] = "mark_lost"
  /\ \A w \in Worker : pc'[w] \in Held =>
       /\ pc[w] \in Held /\ cur'[w] = cur[w]
       /\ pc'[w] \in Choosing => pc[w] \in Choosing

LEMMA AsideKeepsOrder ==
  ASSUME Reader = {}, RowsAreCurrent, HeldIsActive, Aside
  PROVE  RowsAreCurrent' /\ HeldIsActive'
<1>1. Proc = Worker
  BY DEF Proc
<1>2. RowsAreCurrent'
  <2> SUFFICES ASSUME NEW p \in Proc, NEW r \in rows'[p]
               PROVE  pc'[p] \in Expiring /\ Current(p, r)'
    BY DEF RowsAreCurrent
  <2>1. r \in rows[p] /\ pc'[p] \in Expiring /\ det'[p] = det[p] /\ track' = track
    BY DEF Aside
  <2>2. pc'[p] = "mark_lost" <=> pc[p] = "mark_lost"
    BY DEF Aside
  <2>3. /\ Quiet(p, r.id, Stale)' <=> Quiet(p, r.id, Stale)
        /\ Quiet(p, r.id, Drop)' <=> Quiet(p, r.id, Drop)
    BY <1>1, <2>1 DEF Quiet, Now
  <2>. QED
    BY <2>1, <2>2, <2>3 DEF RowsAreCurrent, Current
<1>3. HeldIsActive'
  BY DEF HeldIsActive, Aside
<1>. QED
  BY <1>2, <1>3

\* The steps that write, list or choose are six.
LEMMA MostStepAside ==
  ASSUME Reader = {}, OrderInv, [Next]_vars,
         ~ \E w \in Worker : FindMatchingTrack(w) \/ SpawnTrack(w) \/ UpdateTrack(w),
         ~ \E p \in Proc : ListActive(p) \/ MarkLost(p) \/ ListLost(p) \/ MarkClosed(p)
  PROVE  Aside
<1> USE DEF Aside, OrderInv, RowsAreCurrent, Expiring, Held, Choosing, Goto, TypeInv, TypeOK,
            Proc, db, sweep, commit, ghosts
<1>1. CASE \E w \in Worker : Receive(w)
  <2>. PICK w \in Worker : Receive(w)
    BY <1>1
  <2>1. /\ track' = track /\ rows' = rows /\ cur' = cur /\ rows[w] = {}
        /\ pc' = [pc EXCEPT ![w] = "waiting"]
    BY DEF Receive
  <2>2. \A v \in Worker : v # w => det'[v] = det[v]
    BY DEF Receive
  <2>. QED
    BY <2>1, <2>2
<1>2. CASE \E w \in Worker : \/ Acquire(w) \/ NoMatch(w) \/ SaveFilter(w)
                             \/ CreateDetection(w) \/ ListExits(w) \/ Foresee(w)
  <2>. PICK w \in Worker : \/ Acquire(w) \/ NoMatch(w) \/ SaveFilter(w)
                           \/ CreateDetection(w) \/ ListExits(w) \/ Foresee(w)
    BY <1>2
  <2>1. /\ track' = track /\ rows' = rows /\ cur' = cur /\ det' = det
        /\ pc[w] \notin Expiring
        /\ pc'[w] \in Held => pc[w] \in Held
        /\ pc'[w] \in Choosing => pc[w] \in Choosing
        /\ \A v \in Worker : v # w => pc'[v] = pc[v]
    BY DEF Acquire, NoMatch, SaveFilter, CreateDetection, ListExits, Foresee
  <2>. QED
    BY <2>1
<1>3. CASE \E w \in Worker : \/ LookUp(w, "entries", "open_entry")
                             \/ LookUp(w, "warnings", "open_warning")
  BY <1>3 DEF LookUp
<1>4. CASE \E w \in Worker : \/ CreateIncident(w, "open_entry", "entries")
                             \/ CreateIncident(w, "open_warning", "warnings")
  BY <1>4 DEF CreateIncident
<1>5. CASE \E w \in Worker : Release(w)
  BY <1>5 DEF Release, Discard
<1>6. CASE \E p \in Proc : ListOpen(p) \/ AutoClose(p) \/ EndSweep(p)
  BY <1>6 DEF ListOpen, AutoClose, EndSweep
<1>7. CASE \E p \in Proc : Crash(p)
  BY <1>7 DEF Crash, Discard
<1>8. CASE \/ \E o \in Operator : ReadIncident(o) \/ WriteIncident(o)
           \/ Tick \/ UNCHANGED vars
  BY <1>8 DEF ReadIncident, WriteIncident, Tick, vars
<1>. QED
  BY <1>1, <1>2, <1>3, <1>4, <1>5, <1>6, <1>7, <1>8 DEF Next, CommitStep, SweepStep

\* A listing holds the row each of its tracks will get.
LEMMA ListingIsCurrent ==
  ASSUME Reader = {}, OrderInv, NEW p \in Proc, ListActive(p) \/ ListLost(p)
  PROVE  RowsAreCurrent' /\ HeldIsActive'
<1> USE DEF OrderInv, TypeInv, TypeOK
<1>1. /\ pc[p] \in Inside /\ track' = track /\ cur' = cur /\ det' = det
      /\ \A q \in Proc : q # p => pc'[q] = pc[q] /\ rows'[q] = rows[q]
  BY DEF ListActive, ListLost, Inside, WorkerPC, Goto, db, commit
<1>2. \A q \in Proc : q # p => rows'[q] = {} /\ pc'[q] \notin Held
  BY <1>1, OthersHoldNothing
<1>3. pc'[p] \in {"mark_lost", "mark_closed"}
  BY DEF ListActive, ListLost, Goto
<1>4. ASSUME NEW r \in rows'[p]
      PROVE  Current(p, r)'
  <2>1. CASE ListActive(p)
    <3>1. /\ rows'[p] = Marked({t \in InStatus("active") : Quiet(p, t, Stale)}, "lost")
          /\ pc'[p] = "mark_lost" /\ now' = now
      BY <2>1 DEF ListActive, Goto
    <3>2. PICK t \in InStatus("active") :
            Quiet(p, t, Stale) /\ r = [id |-> t, row |-> [track[t] EXCEPT !.status = "lost"]]
      BY <1>4, <3>1 DEF Marked
    <3>3. Quiet(p, t, Stale)'
      BY <1>1, <3>1, <3>2 DEF Quiet, Now
    <3>. QED
      BY <1>1, <3>1, <3>2, <3>3 DEF InStatus, Current
  <2>2. CASE ListLost(p)
    <3>1. /\ rows'[p] = Marked({t \in InStatus("lost") : Quiet(p, t, Drop)}, "closed")
          /\ pc'[p] = "mark_closed" /\ now' = now
      BY <2>2 DEF ListLost, Goto
    <3>2. PICK t \in InStatus("lost") :
            Quiet(p, t, Drop) /\ r = [id |-> t, row |-> [track[t] EXCEPT !.status = "closed"]]
      BY <1>4, <3>1 DEF Marked
    <3>3. Quiet(p, t, Drop)'
      BY <1>1, <3>1, <3>2 DEF Quiet, Now
    <3>. QED
      BY <1>1, <3>1, <3>2, <3>3 DEF InStatus, Current
  <2>. QED
    BY <2>1, <2>2
<1>5. RowsAreCurrent'
  BY <1>2, <1>3, <1>4 DEF RowsAreCurrent, Expiring
<1>6. HeldIsActive'
  BY <1>2, <1>3 DEF HeldIsActive, Held, Proc
<1>. QED
  BY <1>5, <1>6

\* Writing one listed row leaves the others as they were listed.
LEMMA WriteBackIsCurrent ==
  ASSUME Reader = {}, OrderInv, NEW p \in Proc, MarkLost(p) \/ MarkClosed(p)
  PROVE  RowsAreCurrent' /\ HeldIsActive'
<1> USE DEF OrderInv, TypeInv, TypeOK
<1>1. PICK r \in rows[p] : /\ track' = [track EXCEPT ![r.id] = r.row]
                           /\ rows' = [rows EXCEPT ![p] = @ \ {r}]
  BY DEF MarkLost, MarkClosed
<1>2. /\ pc[p] \in Inside /\ cur' = cur /\ det' = det /\ now' = now
      /\ \A q \in Proc : q # p => pc'[q] = pc[q] /\ rows'[q] = rows[q]
  BY <1>1 DEF MarkLost, MarkClosed, Inside, WorkerPC, Goto, commit
<1>3. \A q \in Proc : q # p => rows'[q] = {} /\ pc'[q] \notin Held
  BY <1>2, OthersHoldNothing
<1>4. /\ pc'[p] \in Expiring
      /\ pc'[p] = "mark_lost" <=> pc[p] = "mark_lost"
  BY DEF MarkLost, MarkClosed, Goto, Expiring
<1>5. ASSUME NEW x \in rows'[p]
      PROVE  x \in rows[p] /\ track'[x.id] = track[x.id]
  <2>1. x \in rows[p] /\ x # r /\ x.id \in Track /\ r.id \in Track
    BY <1>1, <1>5
  <2>2. x = [id |-> x.id, row |-> x.row] /\ r = [id |-> r.id, row |-> r.row]
    BY <1>1, <2>1
  <2>3. ASSUME x.id = r.id PROVE x.row = r.row
    <3>1. Current(p, x) /\ Current(p, r)
      BY <1>1, <2>1 DEF RowsAreCurrent
    <3>2. /\ pc[p] = "mark_lost" => x.row = [track[r.id] EXCEPT !.status = "lost"]
          /\ pc[p] # "mark_lost" => x.row = [track[r.id] EXCEPT !.status = "closed"]
      BY <3>1, <2>3, Zenon DEF Current
    <3>. QED
      BY <3>1, <3>2, Zenon DEF Current
  <2>4. x.id # r.id
    BY <2>1, <2>2, <2>3
  <2>. QED
    BY <1>1, <2>1, <2>4
<1>6. ASSUME NEW x \in rows'[p]
      PROVE  Current(p, x)'
  <2>1. /\ Quiet(p, x.id, Stale)' <=> Quiet(p, x.id, Stale)
        /\ Quiet(p, x.id, Drop)' <=> Quiet(p, x.id, Drop)
    BY <1>2, <1>5 DEF Quiet, Now
  <2>2. Current(p, x) /\ track'[x.id] = track[x.id]
    BY <1>5 DEF RowsAreCurrent
  <2>. QED
    BY <1>4, <2>1, <2>2 DEF Current
<1>7. RowsAreCurrent'
  BY <1>3, <1>4, <1>6 DEF RowsAreCurrent
<1>8. HeldIsActive'
  BY <1>3, <1>4 DEF HeldIsActive, Held, Expiring, Proc
<1>. QED
  BY <1>7, <1>8

\* A commit's row is active, and its label the stored one, until it is written.
LEMMA CommitIsCurrent ==
  ASSUME Reader = {}, OrderInv, NEW w \in Worker,
         FindMatchingTrack(w) \/ SpawnTrack(w) \/ UpdateTrack(w)
  PROVE  RowsAreCurrent' /\ HeldIsActive'
<1> USE DEF OrderInv, TypeInv, TypeOK, Proc
<1>1. /\ pc[w] \in Inside /\ pc[w] \notin Expiring /\ rows' = rows
      /\ \A q \in Proc : q # w => pc'[q] = pc[q]
  BY DEF FindMatchingTrack, SpawnTrack, UpdateTrack, Inside, WorkerPC, Expiring, Goto, sweep
<1>2. \A q \in Proc : q # w => rows'[q] = {} /\ pc'[q] \notin Held
  BY <1>1, OthersHoldNothing
<1>3. rows'[w] = {}
  BY <1>1 DEF RowsAreCurrent
<1>4. RowsAreCurrent'
  BY <1>2, <1>3 DEF RowsAreCurrent
<1>5. /\ track'[cur'[w].id] # None /\ track'[cur'[w].id].status = "active"
      /\ pc'[w] \in Choosing =>
           cur'[w].row.status = "active" /\ cur'[w].row.label = track'[cur'[w].id].label
  <2>1. CASE FindMatchingTrack(w)
    <3>1. PICK t \in Candidates(det[w]) :
            cur' = [cur EXCEPT ![w] =
                      [id |-> t, row |-> [track[t] EXCEPT !.lastSeen = det[w].ts]]]
      BY <2>1 DEF FindMatchingTrack, Seen
    <3>2. t \in Track /\ track[t] \in TrackRow /\ track[t].status = "active" /\ track' = track
      BY <2>1, <3>1 DEF Candidates, InStatus, FindMatchingTrack, db
    <3>. QED
      BY <3>1, <3>2, NamesAssumption DEF TrackRow
  <2>2. CASE SpawnTrack(w)
    <3> DEFINE row == [status |-> "active", lastSeen |-> det[w].ts,
                       label |-> "unknown", object |-> det[w].object]
    <3>1. PICK t \in Unused : /\ track' = [track EXCEPT ![t] = row]
                              /\ cur' = [cur EXCEPT ![w] = [id |-> t, row |-> row]]
      BY <2>2 DEF SpawnTrack
    <3>2. det[w] \in Detection
      BY <2>2 DEF LocalsSet, SpawnTrack
    <3>3. row \in TrackRow /\ row # None
      BY <3>2, NamesAssumption DEF TrackRow, Detection, Label
    <3>. QED
      BY <3>1, <3>3 DEF Unused
  <2>3. CASE UpdateTrack(w)
    <3>1. PICK fused \in Votes :
            LET row == [cur[w].row EXCEPT !.label = Ratchet(@, fused)]
            IN  /\ track' = [track EXCEPT ![cur[w].id] = row]
                /\ cur' = [cur EXCEPT ![w].row = row]
      BY <2>3 DEF UpdateTrack
    <3>2. /\ pc[w] = "update_track" /\ pc'[w] = "entries"
          /\ cur[w] \in [id : Track, row : TrackRow] /\ cur[w].row.status = "active"
      BY <2>3 DEF UpdateTrack, Goto, LocalsSet, Held, HeldIsActive, Choosing
    <3> DEFINE row == [cur[w].row EXCEPT !.label = Ratchet(@, fused)]
    <3>3. Ratchet(cur[w].row.label, fused) \in Label
      BY <3>2, TimingAssumption DEF Ratchet, TrackRow
    <3>4. row \in TrackRow /\ row.status = "active"
      BY <3>2, <3>3, RowUpdates DEF TrackRow
    <3> HIDE DEF row
    <3>5. cur'[w].id = cur[w].id /\ track'[cur[w].id] = row
      BY <3>1, <3>2 DEF row
    <3>. QED
      BY <3>2, <3>4, <3>5, NamesAssumption DEF Choosing
  <2>. QED
    BY <2>1, <2>2, <2>3
<1>6. HeldIsActive'
  BY <1>2, <1>5 DEF HeldIsActive
<1>. QED
  BY <1>4, <1>6

LEMMA OrderStep ==
  ASSUME Reader = {}, OrderInv, [Next]_vars
  PROVE  OrderInv'
<1>1. TypeInv' /\ LockHeld'
  BY TypeStep, LockStep DEF OrderInv
<1>2. RowsAreCurrent' /\ HeldIsActive'
  <2>1. CASE \E w \in Worker : FindMatchingTrack(w) \/ SpawnTrack(w) \/ UpdateTrack(w)
    BY <2>1, CommitIsCurrent
  <2>2. CASE \E p \in Proc : ListActive(p) \/ ListLost(p)
    BY <2>2, ListingIsCurrent
  <2>3. CASE \E p \in Proc : MarkLost(p) \/ MarkClosed(p)
    BY <2>3, WriteBackIsCurrent
  <2>4. CASE /\ ~ \E w \in Worker : FindMatchingTrack(w) \/ SpawnTrack(w) \/ UpdateTrack(w)
             /\ ~ \E p \in Proc : ListActive(p) \/ MarkLost(p) \/ ListLost(p) \/ MarkClosed(p)
    BY <2>4, MostStepAside, AsideKeepsOrder DEF OrderInv
  <2>. QED
    BY <2>1, <2>2, <2>3, <2>4
<1>. QED
  BY <1>1, <1>2 DEF OrderInv

LEMMA OrderInit == Init => OrderInv
<1> SUFFICES ASSUME Init PROVE OrderInv
  OBVIOUS
<1>1. TypeInv
  BY TypeInit
<1>2. LockHeld /\ RowsAreCurrent /\ HeldIsActive
  BY DEF Init, LockHeld, Inside, WorkerPC, RowsAreCurrent, HeldIsActive, Held, Proc
<1>. QED
  BY <1>1, <1>2 DEF OrderInv

-----------------------------------------------------------------------------
(* A row that is there stays, or moves one of three ways.                   *)

Confirmed(t) ==
  /\ track[t].status = "active" /\ track'[t].status = "active"
  /\ \E fused \in Votes : track'[t].label = Ratchet(track[t].label, fused)

Lost(t) ==
  /\ track[t].status = "active" /\ track'[t].status = "lost"
  /\ track'[t].label = track[t].label
  /\ \E p \in Proc : pc[p] = "mark_lost" /\ Quiet(p, t, Stale)

Closed(t) ==
  /\ track[t].status = "lost" /\ track'[t].status = "closed"
  /\ track'[t].label = track[t].label

LEMMA RowMoves ==
  ASSUME Reader = {}, OrderInv, [Next]_vars, NEW t \in Track \ Unused
  PROVE  track'[t] = track[t] \/ Confirmed(t) \/ Lost(t) \/ Closed(t)
<1> USE DEF OrderInv, TypeInv, TypeOK
<1>1. track[t] \in TrackRow
  BY DEF Unused
<1>2. CASE \E w \in Worker : FindMatchingTrack(w)
  BY <1>2 DEF FindMatchingTrack, db
<1>3. CASE \E w \in Worker : SpawnTrack(w)
  BY <1>3 DEF SpawnTrack, Unused
<1>4. ASSUME NEW w \in Worker, UpdateTrack(w)
      PROVE  track'[t] = track[t] \/ Confirmed(t)
  <2>1. PICK fused \in Votes :
          LET row == [cur[w].row EXCEPT !.label = Ratchet(@, fused)]
          IN  track' = [track EXCEPT ![cur[w].id] = row]
    BY <1>4 DEF UpdateTrack
  <2>2. /\ cur[w] \in [id : Track, row : TrackRow] /\ cur[w].row.status = "active"
        /\ track[cur[w].id].status = "active" /\ cur[w].row.label = track[cur[w].id].label
    BY <1>4 DEF UpdateTrack, LocalsSet, Held, HeldIsActive, Choosing
  <2>3. CASE t = cur[w].id
    BY <2>1, <2>2, <2>3 DEF Confirmed, TrackRow
  <2>. QED
    BY <2>1, <2>3
<1>5. CASE \E p \in Proc : ListActive(p) \/ ListLost(p)
  BY <1>5 DEF ListActive, ListLost, db
<1>6. ASSUME NEW p \in Proc, MarkLost(p) \/ MarkClosed(p)
      PROVE  track'[t] = track[t] \/ Lost(t) \/ Closed(t)
  <2>1. PICK r \in rows[p] : track' = [track EXCEPT ![r.id] = r.row]
    BY <1>6 DEF MarkLost, MarkClosed
  <2>2. Current(p, r) /\ r.id \in Track
    BY <2>1 DEF RowsAreCurrent
  <2>3. CASE t # r.id
    BY <2>1, <2>3
  <2>4. CASE t = r.id /\ pc[p] = "mark_lost"
    BY <1>1, <2>1, <2>2, <2>4 DEF Current, Lost, TrackRow
  <2>5. CASE t = r.id /\ pc[p] # "mark_lost"
    BY <1>1, <2>1, <2>2, <2>5 DEF Current, Closed, TrackRow
  <2>. QED
    BY <2>3, <2>4, <2>5
<1>7. CASE /\ ~ \E w \in Worker : FindMatchingTrack(w) \/ SpawnTrack(w) \/ UpdateTrack(w)
           /\ ~ \E p \in Proc : ListActive(p) \/ MarkLost(p) \/ ListLost(p) \/ MarkClosed(p)
  BY <1>7, MostStepAside DEF Aside
<1>. QED
  BY <1>2, <1>3, <1>4, <1>5, <1>6, <1>7

\* Where every sweep is inside the lock, no write revives a closed track, and a
\* label only moves from unknown, or towards drone, and never off aircraft,
\* whoever dies half way.
THEOREM RowsMoveOn == Reader = {} => (Spec => RowsOnlyMoveOn)
<1> SUFFICES ASSUME Reader = {} PROVE Spec => RowsOnlyMoveOn
  OBVIOUS
<1>1. OrderInv /\ [Next]_vars => OrderInv'
  BY OrderStep
<1>2. OrderInv /\ [Next]_vars =>
        [\A t \in Track \ Unused :
           LET before == track[t]  after == track'[t] IN
           /\ before.status = "closed" => after.status = "closed"
           /\ \/ after.label = before.label
              \/ before.label = "unknown"
              \/ after.label = "drone" /\ before.label # "aircraft"]_track
  <2> SUFFICES ASSUME OrderInv, [Next]_vars, NEW t \in Track \ Unused
               PROVE  /\ track[t].status = "closed" => track'[t].status = "closed"
                      /\ \/ track'[t].label = track[t].label
                         \/ track[t].label = "unknown"
                         \/ track'[t].label = "drone" /\ track[t].label # "aircraft"
    OBVIOUS
  <2>. QED
    BY RowMoves DEF Confirmed, Lost, Closed, Ratchet
<1>. QED
  BY <1>1, <1>2, OrderInit, PTL DEF Spec, RowsOnlyMoveOn

\* There, a row is marked lost only while it is quiet as of the sweep's time:
\* no detection confirms a track between the listing and the write.
THEOREM QuietTracksExpire == Reader = {} => (Spec => OnlyQuietTracksExpire)
<1> SUFFICES ASSUME Reader = {} PROVE Spec => OnlyQuietTracksExpire
  OBVIOUS
<1>1. OrderInv /\ [Next]_vars => OrderInv'
  BY OrderStep
<1>2. OrderInv /\ [Next]_vars =>
        [\A t \in InStatus("active") :
           track'[t].status # "active" =>
             \E p \in Proc : pc[p] = "mark_lost" /\ Quiet(p, t, Stale)]_track
  <2> SUFFICES ASSUME OrderInv, [Next]_vars, NEW t \in InStatus("active"),
                      track'[t].status # "active"
               PROVE  \E p \in Proc : pc[p] = "mark_lost" /\ Quiet(p, t, Stale)
    OBVIOUS
  <2>1. t \in Track \ Unused /\ track[t].status = "active"
    BY DEF InStatus, Unused
  <2>. QED
    BY <2>1, RowMoves DEF Confirmed, Lost, Closed
<1>. QED
  BY <1>1, <1>2, OrderInit, PTL DEF Spec, OnlyQuietTracksExpire

-----------------------------------------------------------------------------
(* Where no request dies half way, what a sweep closed it also settles.     *)

Unsettled(t) == OpenFor(t) \ reopened

Covered(t, i) == \E p \in Proc : closing[p] = t \/ i \in ids[p]

\* A step that closes no track, opens no incident of a closed one and drops
\* nothing from the lists.
KeepsAccounts ==
  /\ \A p \in Proc : closing'[p] = closing[p] /\ ids[p] \subseteq ids'[p]
  /\ \A t \in InStatus("closed")' : t \in InStatus("closed") /\ Unsettled(t)' \subseteq Unsettled(t)

LEMMA AccountsKeptIsSettled ==
  ASSUME ClosedTrackIsSettled, KeepsAccounts
  PROVE  ClosedTrackIsSettled'
<1> SUFFICES ASSUME NEW t \in InStatus("closed")', NEW i \in Unsettled(t)'
             PROVE  Covered(t, i)'
  BY DEF ClosedTrackIsSettled, Unsettled, Covered
<1>1. PICK p \in Proc : closing[p] = t \/ i \in ids[p]
  BY DEF KeepsAccounts, ClosedTrackIsSettled, Unsettled
<1>. QED
  BY <1>1 DEF KeepsAccounts, Covered

\* What the sweep that closes a track holds covers its incidents; what it
\* lists next covers them again, and what it resolves is no longer open.
LEMMA SweepSettles ==
  ASSUME SettledInv, NEW p \in Proc, MarkClosed(p) \/ ListOpen(p) \/ AutoClose(p)
  PROVE  ClosedTrackIsSettled'
<1> USE DEF SettledInv, OrderInv, TypeInv, TypeOK
<1> SUFFICES ASSUME NEW t \in InStatus("closed")', NEW i \in Unsettled(t)'
             PROVE  Covered(t, i)'
  BY DEF ClosedTrackIsSettled, Unsettled, Covered
<1>1. CASE MarkClosed(p)
  <2>1. PICK r \in rows[p] : /\ track' = [track EXCEPT ![r.id] = r.row]
                             /\ closing' = [closing EXCEPT ![p] = r.id]
    BY <1>1 DEF MarkClosed
  <2>2. /\ pc[p] = "mark_closed" /\ ids[p] = {} /\ ids' = ids
        /\ incident' = incident /\ reopened' = reopened
    BY <1>1 DEF MarkClosed, ghosts
  <2>3. CASE t = r.id
    BY <2>1, <2>3 DEF Covered
  <2>4. CASE t # r.id
    <3>1. t \in InStatus("closed") /\ i \in Unsettled(t)
      BY <2>1, <2>2, <2>4 DEF InStatus, Unsettled, OpenFor
    <3>2. PICK q \in Proc : closing[q] = t \/ i \in ids[q]
      BY <3>1 DEF ClosedTrackIsSettled, Unsettled
    <3>3. closing[p] = None /\ t # None
      BY <2>2, <3>1, NamesAssumption DEF ListsAreWorked, InStatus
    <3>4. q # p
      BY <2>2, <3>2, <3>3
    <3>. QED
      BY <2>1, <2>2, <3>2, <3>4 DEF Covered
  <2>. QED
    BY <2>3, <2>4
<1>2. CASE ListOpen(p)
  <2>1. /\ ids' = [ids EXCEPT ![p] = OpenFor(closing[p])]
        /\ closing' = [closing EXCEPT ![p] = None]
        /\ pc[p] = "list_open" /\ track' = track /\ incident' = incident /\ reopened' = reopened
    BY <1>2 DEF ListOpen, db, ghosts
  <2>2. t \in InStatus("closed") /\ i \in Unsettled(t)
    BY <2>1 DEF InStatus, Unsettled, OpenFor
  <2>3. PICK q \in Proc : closing[q] = t \/ i \in ids[q]
    BY <2>2 DEF ClosedTrackIsSettled, Unsettled
  <2>4. CASE q = p
    <3>1. closing[p] = t
      BY <2>1, <2>3, <2>4 DEF ListsAreWorked
    <3>. QED
      BY <2>1, <2>2, <3>1 DEF Covered, Unsettled
  <2>. QED
    BY <2>1, <2>3, <2>4 DEF Covered
<1>3. CASE AutoClose(p)
  <2>1. PICK j \in ids[p] : /\ incident' = [incident EXCEPT ![j].status = "resolved"]
                            /\ ids' = [ids EXCEPT ![p] = @ \ {j}]
    BY <1>3 DEF AutoClose
  <2>2. track' = track /\ closing' = closing /\ reopened' = reopened
    BY <1>3 DEF AutoClose, ghosts
  <2>3. j \in IncidentId /\ incident[j] \in IncidentRow
    BY <2>1 DEF ListedExist
  <2>4. incident'[j].status = "resolved"
    BY <2>1, <2>3 DEF IncidentRow
  <2>5. i # j /\ incident'[i] = incident[i]
    BY <2>1, <2>4 DEF Unsettled, OpenFor
  <2>6. t \in InStatus("closed") /\ i \in Unsettled(t)
    BY <2>2, <2>5 DEF InStatus, Unsettled, OpenFor
  <2>7. PICK q \in Proc : closing[q] = t \/ i \in ids[q]
    BY <2>6 DEF ClosedTrackIsSettled, Unsettled
  <2>. QED
    BY <2>1, <2>2, <2>5, <2>7 DEF Covered
<1>. QED
  BY <1>1, <1>2, <1>3

\* Every other step keeps the accounts: a commit opens incidents of its own
\* active track, and an acknowledgement that reopens one is on record.
LEMMA OthersKeepAccounts ==
  ASSUME Reader = {}, SettledInv, OrderInv', [Next]_vars,
         ~ \E p \in Proc : MarkClosed(p) \/ ListOpen(p) \/ AutoClose(p) \/ Crash(p)
  PROVE  KeepsAccounts
<1> USE DEF SettledInv, OrderInv, TypeInv, TypeOK, KeepsAccounts
<1>1. (track' = track /\ incident' = incident /\ reopened' = reopened) =>
        \A t \in InStatus("closed")' : t \in InStatus("closed") /\ Unsettled(t)' \subseteq Unsettled(t)
  BY DEF InStatus, Unsettled, OpenFor
<1>2. ASSUME incident' = incident, reopened' = reopened, closing' = closing, ids' = ids,
             NEW u \in Track, track'[u].status # "closed", \A t \in Track : t # u => track'[t] = track[t]
      PROVE  KeepsAccounts
  BY <1>2 DEF InStatus, Unsettled, OpenFor
<1>3. ASSUME NEW w \in Worker, SpawnTrack(w) \/ UpdateTrack(w)
      PROVE  KeepsAccounts
  <2>1. pc'[w] \in Held
    BY <1>3 DEF SpawnTrack, UpdateTrack, Goto, Held, Proc
  <2>2. cur'[w].id \in Track /\ track'[cur'[w].id].status = "active"
    BY <2>1 DEF HeldIsActive, LocalsSet
  <2>3. \A t \in Track : t # cur'[w].id => track'[t] = track[t]
    <3>1. CASE SpawnTrack(w)
      <4>1. PICK t \in Unused : \E row : /\ track' = [track EXCEPT ![t] = row]
                                         /\ cur' = [cur EXCEPT ![w] = [id |-> t, row |-> row]]
        BY <3>1 DEF SpawnTrack
      <4>. QED
        BY <4>1
    <3>2. CASE UpdateTrack(w)
      <4>1. PICK row : /\ track' = [track EXCEPT ![cur[w].id] = row]
                       /\ cur' = [cur EXCEPT ![w].row = row]
        BY <3>2 DEF UpdateTrack
      <4>2. cur[w] \in [id : Track, row : TrackRow]
        BY <3>2 DEF UpdateTrack, LocalsSet, Held
      <4>. QED
        BY <4>1, <4>2
    <3>. QED
      BY <1>3, <3>1, <3>2
  <2>4. incident' = incident /\ reopened' = reopened /\ closing' = closing /\ ids' = ids
    BY <1>3 DEF SpawnTrack, UpdateTrack, sweep, ghosts
  <2>. QED
    BY <1>2, <2>2, <2>3, <2>4
<1>4. ASSUME NEW p \in Proc, MarkLost(p)
      PROVE  KeepsAccounts
  <2>1. PICK r \in rows[p] : track' = [track EXCEPT ![r.id] = r.row]
    BY <1>4 DEF MarkLost
  <2>2. r.id \in Track /\ r.row \in TrackRow /\ Current(p, r) /\ pc[p] = "mark_lost"
    BY <1>4, <2>1 DEF RowsAreCurrent, MarkLost
  <2>3. track[r.id] \in TrackRow
    BY <2>2 DEF Current
  <2>4. r.row.status = "lost"
    BY <2>2, <2>3 DEF Current, TrackRow
  <2>5. incident' = incident /\ reopened' = reopened /\ closing' = closing /\ ids' = ids
    BY <1>4 DEF MarkLost, ghosts
  <2>. QED
    BY <1>2, <2>1, <2>2, <2>4, <2>5
<1>5. ASSUME NEW w \in Worker,
             CreateIncident(w, "open_entry", "entries") \/ CreateIncident(w, "open_warning", "warnings")
      PROVE  KeepsAccounts
  <2>1. PICK i \in FreeIds :
          /\ incident' = [incident EXCEPT ![i] =
                            [status |-> "open", track |-> cur[w].id, alarm |-> cand[w]]]
          /\ track' = track /\ reopened' = reopened /\ closing' = closing /\ ids' = ids
    BY <1>5 DEF CreateIncident, sweep, ghosts
  <2>2. track[cur[w].id].status = "active"
    BY <1>5 DEF CreateIncident, HeldIsActive, Held
  <2>3. \A t \in InStatus("closed")' : t \in InStatus("closed") /\ t # cur[w].id
    BY <2>1, <2>2 DEF InStatus
  <2>4. incident'[i].track = cur[w].id
    BY <2>1 DEF FreeIds
  <2>5. \A t \in InStatus("closed")' : Unsettled(t)' \subseteq Unsettled(t)
    BY <2>1, <2>3, <2>4 DEF Unsettled, OpenFor
  <2>. QED
    BY <2>1, <2>3, <2>5
<1>6. ASSUME NEW w \in Worker, ListExits(w)
      PROVE  KeepsAccounts
  <2>1. ids[w] = {} /\ closing' = closing
    BY <1>6 DEF ListExits, ListsAreWorked, Proc
  <2>2. \A p \in Proc : p # w => ids'[p] = ids[p]
    BY <1>6 DEF ListExits
  <2>3. track' = track /\ incident' = incident /\ reopened' = reopened
    BY <1>6 DEF ListExits, db, ghosts
  <2>. QED
    BY <1>1, <2>1, <2>2, <2>3
<1>7. ASSUME NEW o \in Operator, WriteIncident(o)
      PROVE  KeepsAccounts
  <2> DEFINE i == form[o].id  ack == form[o].verb = "acknowledge"
  <2>1. /\ incident' = [incident EXCEPT ![i].status = IF ack THEN "acknowledged" ELSE "resolved"]
        /\ reopened' = IF ack /\ incident[i].status = "resolved" THEN reopened \cup {i} ELSE reopened
        /\ track' = track /\ closing' = closing /\ ids' = ids
    BY <1>7 DEF WriteIncident, sweep
  <2>2. i \in IncidentId /\ incident[i] \in IncidentRow
    BY <1>7 DEF WriteIncident, ListedExist
  <2> HIDE DEF i, ack
  <2>3. /\ incident'[i].track = incident[i].track
        /\ incident'[i].status = IF ack THEN "acknowledged" ELSE "resolved"
    BY <2>1, <2>2 DEF IncidentRow
  <2>4. \A t \in Track : Unsettled(t)' \subseteq Unsettled(t)
    <3> SUFFICES ASSUME NEW t \in Track, NEW j \in Unsettled(t)' PROVE j \in Unsettled(t)
      OBVIOUS
    <3>1. CASE j # i
      BY <2>1, <3>1 DEF Unsettled, OpenFor
    <3>2. CASE j = i
      <4>1. ack /\ incident[i].status # "resolved" /\ reopened' = reopened
        BY <2>1, <2>3, <3>2 DEF Unsettled, OpenFor
      <4>2. incident[i] # None
        BY <2>2, NamesAssumption
      <4>. QED
        BY <2>2, <2>3, <3>2, <4>1, <4>2 DEF Unsettled, OpenFor
    <3>. QED
      BY <3>1, <3>2
  <2>5. \A t \in InStatus("closed")' : t \in InStatus("closed") /\ t \in Track
    BY <2>1 DEF InStatus
  <2>. QED
    BY <2>1, <2>4, <2>5
<1>8. CASE \E w \in Worker : \/ Receive(w) \/ Acquire(w) \/ FindMatchingTrack(w) \/ NoMatch(w)
                             \/ SaveFilter(w) \/ CreateDetection(w) \/ Foresee(w)
  BY <1>1, <1>8 DEF Receive, Acquire, FindMatchingTrack, NoMatch, SaveFilter, CreateDetection,
     Foresee, db, sweep, ghosts
<1>9. CASE \E w \in Worker : \/ LookUp(w, "entries", "open_entry")
                             \/ LookUp(w, "warnings", "open_warning") \/ Release(w)
  BY <1>1, <1>9 DEF LookUp, Release, db, sweep, ghosts
<1>10. CASE \E p \in Proc : ListActive(p) \/ ListLost(p) \/ EndSweep(p)
  BY <1>1, <1>10 DEF ListActive, ListLost, EndSweep, db, sweep, ghosts
<1>11. CASE \/ \E o \in Operator : ReadIncident(o)
            \/ Tick \/ UNCHANGED vars
  BY <1>1, <1>11 DEF ReadIncident, Tick, vars, db, sweep, ghosts
<1>. QED
  BY <1>3, <1>4, <1>5, <1>6, <1>7, <1>8, <1>9, <1>10, <1>11 DEF Next, CommitStep, SweepStep

LEMMA ListsStep ==
  ASSUME Reader = {}, SettledInv, [Next]_vars, crashes' = 0
  PROVE  ListsAreWorked'
<1> USE DEF SettledInv, OrderInv, TypeInv, TypeOK, ListsAreWorked, Goto, Proc
<1>1. CASE \E w \in Worker : \/ Receive(w) \/ Acquire(w) \/ FindMatchingTrack(w) \/ NoMatch(w)
                             \/ SpawnTrack(w) \/ SaveFilter(w) \/ CreateDetection(w)
                             \/ UpdateTrack(w)
  BY <1>1 DEF Receive, Acquire, FindMatchingTrack, NoMatch, SpawnTrack, SaveFilter,
     CreateDetection, UpdateTrack, sweep
<1>2. CASE \E w \in Worker : ListExits(w) \/ Foresee(w) \/ Release(w)
  BY <1>2 DEF ListExits, Foresee, Release, sweep
<1>3. CASE \E w \in Worker : \/ LookUp(w, "entries", "open_entry")
                             \/ LookUp(w, "warnings", "open_warning")
  BY <1>3 DEF LookUp, sweep
<1>4. CASE \E w \in Worker : \/ CreateIncident(w, "open_entry", "entries")
                             \/ CreateIncident(w, "open_warning", "warnings")
  BY <1>4 DEF CreateIncident, sweep
<1>5. CASE \E p \in Proc : ListActive(p) \/ MarkLost(p) \/ ListLost(p) \/ MarkClosed(p)
  BY <1>5 DEF ListActive, MarkLost, ListLost, MarkClosed
<1>6. CASE \E p \in Proc : ListOpen(p) \/ AutoClose(p) \/ EndSweep(p)
  BY <1>6 DEF ListOpen, AutoClose, EndSweep, sweep
<1>7. CASE \E p \in Proc : Crash(p)
  BY <1>7 DEF Crash
<1>8. CASE \/ \E o \in Operator : ReadIncident(o) \/ WriteIncident(o)
           \/ Tick \/ UNCHANGED vars
  BY <1>8 DEF ReadIncident, WriteIncident, Tick, vars, sweep
<1>. QED
  BY <1>1, <1>2, <1>3, <1>4, <1>5, <1>6, <1>7, <1>8 DEF Next, CommitStep, SweepStep

\* Nobody dies where none may.
LEMMA NobodyDies ==
  ASSUME MaxCrashes = 0, crashes = 0, [Next]_vars
  PROVE  crashes' = 0 /\ ~ \E p \in Proc : Crash(p)
<1>1. ~ \E p \in Proc : Crash(p)
  BY DEF Crash
<1>2. crashes' = crashes
  <2>1. CASE \E w \in Worker : \/ Receive(w) \/ Acquire(w) \/ FindMatchingTrack(w) \/ NoMatch(w)
                               \/ SpawnTrack(w) \/ SaveFilter(w) \/ CreateDetection(w)
                               \/ UpdateTrack(w) \/ ListExits(w) \/ Foresee(w) \/ Release(w)
    BY <2>1 DEF Receive, Acquire, FindMatchingTrack, NoMatch, SpawnTrack, SaveFilter,
       CreateDetection, UpdateTrack, ListExits, Foresee, Release, ghosts
  <2>2. CASE \E w \in Worker : \/ LookUp(w, "entries", "open_entry")
                               \/ LookUp(w, "warnings", "open_warning")
                               \/ CreateIncident(w, "open_entry", "entries")
                               \/ CreateIncident(w, "open_warning", "warnings")
    BY <2>2 DEF LookUp, CreateIncident, ghosts
  <2>3. CASE \E p \in Proc : SweepStep(p)
    BY <2>3 DEF SweepStep, ListActive, MarkLost, ListLost, MarkClosed, ListOpen, AutoClose,
       EndSweep, ghosts
  <2>4. CASE \/ \E r \in Reader : Poll(r)
             \/ \E o \in Operator : ReadIncident(o) \/ WriteIncident(o)
             \/ Tick \/ UNCHANGED vars
    BY <2>4 DEF Poll, ReadIncident, WriteIncident, Tick, vars, ghosts
  <2>. QED
    BY <1>1, <2>1, <2>2, <2>3, <2>4 DEF Next, CommitStep
<1>. QED
  BY <1>1, <1>2

\* Where every sweep is inside the lock and no request dies half way, an
\* unresolved incident of a closed track is on the list of the sweep that
\* closed it, or was reopened by a late acknowledgement.
THEOREM ClosedTracksAreSettled ==
  Reader = {} /\ MaxCrashes = 0 => (Spec => []ClosedTrackIsSettled)
<1> SUFFICES ASSUME Reader = {}, MaxCrashes = 0 PROVE Spec => []ClosedTrackIsSettled
  OBVIOUS
<1>1. Init => SettledInv
  <2> SUFFICES ASSUME Init PROVE SettledInv
    OBVIOUS
  <2>1. OrderInv
    BY OrderInit
  <2>2. crashes = 0 /\ ListsAreWorked
    BY DEF Init, ListsAreWorked
  <2>3. ClosedTrackIsSettled
    BY DEF Init, ClosedTrackIsSettled, InStatus
  <2>. QED
    BY <2>1, <2>2, <2>3 DEF SettledInv
<1>2. SettledInv /\ [Next]_vars => SettledInv'
  <2> SUFFICES ASSUME SettledInv, [Next]_vars PROVE SettledInv'
    OBVIOUS
  <2>1. OrderInv'
    BY OrderStep DEF SettledInv
  <2>2. crashes' = 0 /\ ~ \E p \in Proc : Crash(p)
    BY NobodyDies DEF SettledInv
  <2>3. ListsAreWorked'
    BY <2>2, ListsStep
  <2>4. CASE \E p \in Proc : MarkClosed(p) \/ ListOpen(p) \/ AutoClose(p)
    BY <2>4, SweepSettles, <2>1, <2>2, <2>3 DEF SettledInv
  <2>5. CASE ~ \E p \in Proc : MarkClosed(p) \/ ListOpen(p) \/ AutoClose(p)
    <3>1. KeepsAccounts
      BY <2>1, <2>2, <2>5, OthersKeepAccounts
    <3>2. ClosedTrackIsSettled'
      BY <3>1, AccountsKeptIsSettled DEF SettledInv
    <3>. QED
      BY <2>1, <2>2, <2>3, <3>2 DEF SettledInv
  <2>. QED
    BY <2>4, <2>5
<1>3. SettledInv => ClosedTrackIsSettled
  BY DEF SettledInv
<1>. QED
  BY <1>1, <1>2, <1>3, PTL DEF Spec

-----------------------------------------------------------------------------
(* Every stored or listed last_seen is reported, unlocked sweeps or not.    *)

\* Stored detections are never deleted by these requests.
LEMMA DetectionsStay ==
  ASSUME TypeInv, [Next]_vars, NEW t \in Track
  PROVE  detections[t] \subseteq detections'[t]
<1> USE DEF TypeInv, TypeOK
<1>1. CASE \E w \in Worker : CreateDetection(w)
  BY <1>1 DEF CreateDetection
<1>2. CASE \E w \in Worker : \/ Receive(w) \/ Acquire(w) \/ FindMatchingTrack(w) \/ NoMatch(w)
                             \/ SpawnTrack(w) \/ SaveFilter(w) \/ UpdateTrack(w)
                             \/ ListExits(w) \/ Foresee(w) \/ Release(w)
  BY <1>2 DEF Receive, Acquire, FindMatchingTrack, NoMatch, SpawnTrack, SaveFilter,
     UpdateTrack, ListExits, Foresee, Release, db
<1>3. CASE \E w \in Worker : \/ LookUp(w, "entries", "open_entry")
                             \/ LookUp(w, "warnings", "open_warning")
                             \/ CreateIncident(w, "open_entry", "entries")
                             \/ CreateIncident(w, "open_warning", "warnings")
  BY <1>3 DEF LookUp, CreateIncident, db
<1>4. CASE \E p \in Proc : SweepStep(p) \/ Crash(p)
  BY <1>4 DEF Crash, SweepStep, ListActive, MarkLost, ListLost, MarkClosed, ListOpen, AutoClose,
     EndSweep, db
<1>5. CASE \/ \E r \in Reader : Poll(r)
           \/ \E o \in Operator : ReadIncident(o) \/ WriteIncident(o)
           \/ Tick \/ UNCHANGED vars
  BY <1>5 DEF Poll, ReadIncident, WriteIncident, Tick, vars, db
<1>. QED
  BY <1>1, <1>2, <1>3, <1>4, <1>5 DEF Next, CommitStep

\* What is about to be stored is stored, or still about to be.
LEMMA ReportedStays ==
  ASSUME TypeInv, [Next]_vars, ~ \E p \in Proc : Crash(p),
         NEW t \in Track, NEW ts, Reported(t, ts)
  PROVE  Reported(t, ts)'
<1> USE DEF TypeInv, TypeOK, Goto, Proc
<1>1. CASE ts \in detections[t]
  <2>1. detections[t] \subseteq detections'[t]
    BY DetectionsStay
  <2>. QED
    BY <1>1, <2>1 DEF Reported
<1>2. CASE \E w \in Worker :
             pc[w] \in {"save_filter", "create_detection"} /\ cur[w].id = t /\ det[w].ts = ts
  <2> PICK w \in Worker :
             pc[w] \in {"save_filter", "create_detection"} /\ cur[w].id = t /\ det[w].ts = ts
    BY <1>2
  <2>1. CASE SaveFilter(w)
    BY <2>1 DEF SaveFilter, Reported, commit
  <2>2. CASE CreateDetection(w)
    BY <2>2 DEF CreateDetection, Reported
  <2>3. CASE ~SaveFilter(w) /\ ~CreateDetection(w)
    <3>1. pc'[w] = pc[w] /\ cur'[w] = cur[w] /\ det'[w] = det[w]
      <4>1. CASE \E v \in Worker : Receive(v) \/ Acquire(v) \/ FindMatchingTrack(v) \/ NoMatch(v)
        BY <4>1 DEF Receive, Acquire, FindMatchingTrack, NoMatch, commit
      <4>2. CASE \E v \in Worker : SpawnTrack(v) \/ ListExits(v) \/ Foresee(v)
        BY <4>2 DEF SpawnTrack, ListExits, Foresee, commit
      <4>3. CASE \E v \in Worker : SaveFilter(v) \/ CreateDetection(v) \/ Release(v)
        BY <2>3, <4>3 DEF SaveFilter, CreateDetection, Release, Discard, commit
      <4>4. CASE \E v \in Worker : \/ LookUp(v, "entries", "open_entry")
                                   \/ LookUp(v, "warnings", "open_warning")
        BY <4>4 DEF LookUp
      <4>5. CASE \E v \in Worker : \/ CreateIncident(v, "open_entry", "entries")
                                   \/ CreateIncident(v, "open_warning", "warnings")
        BY <4>5 DEF CreateIncident
      <4>6. CASE \E p \in Proc : ListActive(p) \/ MarkLost(p) \/ ListLost(p) \/ MarkClosed(p)
        BY <4>6 DEF ListActive, MarkLost, ListLost, MarkClosed, commit
      <4>7. CASE \E p \in Proc : ListOpen(p) \/ AutoClose(p) \/ EndSweep(p)
        BY <4>7 DEF ListOpen, AutoClose, EndSweep, commit
      <4>8. CASE \/ \E r \in Reader : Poll(r)
                 \/ \E o \in Operator : ReadIncident(o) \/ WriteIncident(o)
                 \/ Tick \/ UNCHANGED vars
        BY <4>8, NamesAssumption DEF Poll, ReadIncident, WriteIncident, Tick, vars, commit
      <4>9. CASE \E v \in Worker : UpdateTrack(v)
        <5>. PICK v \in Worker : UpdateTrack(v)
          BY <4>9
        <5>1. /\ v # w /\ det' = det /\ \A u \in Proc : u # v => pc'[u] = pc[u]
              /\ \E row : cur' = [cur EXCEPT ![v].row = row]
          BY DEF UpdateTrack
        <5>. QED
          BY <5>1
      <4>. QED
        BY <4>1, <4>2, <4>3, <4>4, <4>5, <4>6, <4>7, <4>8, <4>9 DEF Next, CommitStep, SweepStep
    <3>. QED
      BY <3>1 DEF Reported
  <2>. QED
    BY <2>1, <2>2, <2>3
<1>. QED
  BY <1>1, <1>2 DEF Reported

\* A step that changes neither the table nor a listing only keeps reports.
LEMMA SameRowsKeepEvidence ==
  ASSUME TypeInv, Evidence, [Next]_vars, ~ \E p \in Proc : Crash(p),
         track' = track, \A p \in Proc : rows'[p] \subseteq rows[p]
  PROVE  Evidence'
<1> USE DEF TypeInv, TypeOK
<1>1. ASSUME NEW t \in (Track \ Unused)'
      PROVE  Reported(t, track[t].lastSeen)'
  <2>1. t \in Track \ Unused
    BY DEF Unused
  <2>. QED
    BY <2>1, ReportedStays DEF Evidence
<1>2. ASSUME NEW p \in Proc, NEW r \in rows'[p]
      PROVE  Reported(r.id, r.row.lastSeen)'
  <2>1. r \in rows[p] /\ r.id \in Track /\ Reported(r.id, r.row.lastSeen)
    BY DEF Evidence
  <2>. QED
    BY <2>1, ReportedStays
<1>. QED
  BY <1>1, <1>2 DEF Evidence

\* A listing copies last_seen as it is stored.
LEMMA ListingKeepsEvidence ==
  ASSUME TypeInv, Evidence, [Next]_vars, ~ \E p \in Proc : Crash(p),
         NEW p \in Proc, ListActive(p) \/ ListLost(p)
  PROVE  Evidence'
<1> USE DEF TypeInv, TypeOK
<1>1. track' = track /\ \A q \in Proc : q # p => rows'[q] = rows[q]
  BY DEF ListActive, ListLost, db
<1>2. \A r \in rows'[p] : r.id \in Track \ Unused /\ r.row.lastSeen = track[r.id].lastSeen
  <2>1. PICK ts \in SUBSET (Track \ Unused), s \in {"lost", "closed"} : rows'[p] = Marked(ts, s)
    <3>1. CASE ListActive(p)
      BY <3>1 DEF ListActive, InStatus, Unused
    <3>2. CASE ListLost(p)
      BY <3>2 DEF ListLost, InStatus, Unused
    <3>. QED
      BY <3>1, <3>2
  <2>2. \A t \in ts : track[t] \in TrackRow
    BY DEF Unused
  <2>. QED
    BY <2>1, <2>2 DEF Marked, TrackRow
<1>3. ASSUME NEW t \in (Track \ Unused)'
      PROVE  Reported(t, track[t].lastSeen)'
  <2>1. t \in Track \ Unused
    BY <1>1 DEF Unused
  <2>. QED
    BY <1>1, <2>1, ReportedStays DEF Evidence
<1>4. ASSUME NEW q \in Proc, NEW r \in rows'[q]
      PROVE  Reported(r.id, r.row.lastSeen)'
  <2>1. r.id \in Track /\ Reported(r.id, r.row.lastSeen)
    BY <1>1, <1>2 DEF Evidence
  <2>. QED
    BY <2>1, ReportedStays
<1>. QED
  BY <1>3, <1>4 DEF Evidence

\* A write stores a last_seen that is reported.
LEMMA WriteKeepsEvidence ==
  ASSUME TypeInv, Evidence, [Next]_vars, ~ \E p \in Proc : Crash(p),
         NEW x \in Track, \A t \in Track : t # x => track'[t] = track[t],
         Reported(x, track[x].lastSeen)', \A p \in Proc : rows'[p] \subseteq rows[p]
  PROVE  Evidence'
<1> USE DEF TypeInv, TypeOK
<1>1. ASSUME NEW t \in (Track \ Unused)'
      PROVE  Reported(t, track[t].lastSeen)'
  <2>1. CASE t = x
    BY <2>1
  <2>2. CASE t # x
    <3>1. t \in Track \ Unused /\ track'[t] = track[t]
      BY <2>2 DEF Unused
    <3>. QED
      BY <3>1, ReportedStays DEF Evidence
  <2>. QED
    BY <2>1, <2>2
<1>2. ASSUME NEW p \in Proc, NEW r \in rows'[p]
      PROVE  Reported(r.id, r.row.lastSeen)'
  <2>1. r \in rows[p] /\ r.id \in Track /\ Reported(r.id, r.row.lastSeen)
    BY DEF Evidence
  <2>. QED
    BY <2>1, ReportedStays
<1>. QED
  BY <1>1, <1>2 DEF Evidence

\* What a commit is about to write carries its detection's time, which is
\* stored before the row is.
LEMMA FreshStep ==
  ASSUME TypeInv, \A w \in Worker : Fresh(w), [Next]_vars, ~ \E p \in Proc : Crash(p),
         NEW w \in Worker
  PROVE  Fresh(w)'
<1> USE DEF TypeInv, TypeOK, Goto, Proc
<1>1. CASE FindMatchingTrack(w)
  <2>1. PICK t \in Candidates(det[w]) :
          cur' = [cur EXCEPT ![w] =
                    [id |-> t, row |-> [track[t] EXCEPT !.lastSeen = det[w].ts]]]
    BY <1>1 DEF FindMatchingTrack, Seen
  <2>2. track[t] \in TrackRow /\ det' = det /\ pc'[w] = "save_filter"
    BY <1>1, <2>1 DEF Candidates, InStatus, FindMatchingTrack
  <2>. QED
    BY <2>1, <2>2 DEF Fresh, TrackRow
<1>2. CASE SpawnTrack(w)
  <2>1. PICK t \in Unused :
          cur' = [cur EXCEPT ![w] =
                    [id |-> t, row |-> [status |-> "active", lastSeen |-> det[w].ts,
                                        label |-> "unknown", object |-> det[w].object]]]
    BY <1>2 DEF SpawnTrack
  <2>2. det' = det /\ pc'[w] # "update_track"
    BY <1>2 DEF SpawnTrack
  <2>. QED
    BY <2>1, <2>2 DEF Fresh
<1>3. CASE SaveFilter(w) \/ CreateDetection(w)
  BY <1>3 DEF SaveFilter, CreateDetection, Fresh, Choosing, commit, LocalsSet, Held
<1>4. CASE ~FindMatchingTrack(w) /\ ~SpawnTrack(w) /\ ~SaveFilter(w) /\ ~CreateDetection(w)
  <2>1. pc'[w] \in Choosing => pc[w] = pc'[w] /\ cur'[w] = cur[w] /\ det'[w] = det[w]
    <3> USE DEF Choosing, commit
    <3>1. CASE \E v \in Worker : Receive(v) \/ Acquire(v) \/ FindMatchingTrack(v) \/ NoMatch(v)
      BY <1>4, <3>1 DEF Receive, Acquire, FindMatchingTrack, NoMatch
    <3>2. CASE \E v \in Worker : SpawnTrack(v) \/ ListExits(v) \/ Foresee(v)
      BY <1>4, <3>2 DEF SpawnTrack, ListExits, Foresee
    <3>3. CASE \E v \in Worker : SaveFilter(v) \/ CreateDetection(v) \/ Release(v)
      BY <1>4, <3>3 DEF SaveFilter, CreateDetection, Release, Discard
    <3>4. CASE \E v \in Worker : \/ LookUp(v, "entries", "open_entry")
                                 \/ LookUp(v, "warnings", "open_warning")
      BY <3>4 DEF LookUp
    <3>5. CASE \E v \in Worker : \/ CreateIncident(v, "open_entry", "entries")
                                 \/ CreateIncident(v, "open_warning", "warnings")
      BY <3>5 DEF CreateIncident
    <3>6. CASE \E p \in Proc : ListActive(p) \/ MarkLost(p) \/ ListLost(p) \/ MarkClosed(p)
      BY <3>6 DEF ListActive, MarkLost, ListLost, MarkClosed
    <3>7. CASE \E p \in Proc : ListOpen(p) \/ AutoClose(p) \/ EndSweep(p)
      BY <3>7 DEF ListOpen, AutoClose, EndSweep
    <3>8. CASE \/ \E r \in Reader : Poll(r)
               \/ \E o \in Operator : ReadIncident(o) \/ WriteIncident(o)
               \/ Tick \/ UNCHANGED vars
      BY <3>8, NamesAssumption DEF Poll, ReadIncident, WriteIncident, Tick, vars
    <3>9. CASE \E v \in Worker : UpdateTrack(v)
      <4>. PICK v \in Worker : UpdateTrack(v)
        BY <3>9
      <4>1. /\ det' = det /\ pc'[v] = "entries"
            /\ \A u \in Proc : u # v => pc'[u] = pc[u]
            /\ \E row : cur' = [cur EXCEPT ![v].row = row]
        BY DEF UpdateTrack
      <4>. QED
        BY <4>1
    <3>. QED
      BY <3>1, <3>2, <3>3, <3>4, <3>5, <3>6, <3>7, <3>8, <3>9 DEF Next, CommitStep, SweepStep
  <2>2. pc'[w] = "update_track" /\ pc[w] = pc'[w] => detections[cur[w].id] \subseteq detections'[cur[w].id]
    <3> SUFFICES ASSUME pc[w] = "update_track"
                 PROVE  detections[cur[w].id] \subseteq detections'[cur[w].id]
      OBVIOUS
    <3>1. cur[w].id \in Track
      BY DEF LocalsSet, Held
    <3>. QED
      BY <3>1, DetectionsStay
  <2>. QED
    BY <2>1, <2>2 DEF Fresh
<1>. QED
  BY <1>1, <1>2, <1>3, <1>4

LEMMA EvidenceKept ==
  ASSUME EvidenceInv, [Next]_vars, crashes' = 0, ~ \E p \in Proc : Crash(p)
  PROVE  Evidence'
<1>. TypeInv /\ crashes = 0 /\ Evidence /\ \A w \in Worker : Fresh(w)
  BY DEF EvidenceInv
<1>1. ASSUME NEW w \in Worker, SpawnTrack(w)
      PROVE  Evidence'
  <2> USE DEF TypeInv, TypeOK
  <2> DEFINE row == [status |-> "active", lastSeen |-> det[w].ts,
                     label |-> "unknown", object |-> det[w].object]
  <2>1. PICK t \in Unused : /\ track' = [track EXCEPT ![t] = row]
                            /\ cur' = [cur EXCEPT ![w] = [id |-> t, row |-> row]]
    BY <1>1 DEF SpawnTrack
  <2>2. rows' = rows /\ det' = det /\ pc'[w] \in {"save_filter", "create_detection"}
    BY <1>1 DEF SpawnTrack, sweep, Goto, Proc
  <2>3. t \in Track /\ track'[t].lastSeen = det'[w].ts /\ cur'[w].id = t
    BY <2>1, <2>2 DEF Unused
  <2>4. Reported(t, track[t].lastSeen)'
    BY <2>2, <2>3 DEF Reported
  <2>. QED
    BY <2>1, <2>2, <2>3, <2>4, WriteKeepsEvidence
<1>2. ASSUME NEW w \in Worker, UpdateTrack(w)
      PROVE  Evidence'
  <2> USE DEF TypeInv, TypeOK
  <2>1. /\ pc[w] = "update_track" /\ rows' = rows /\ detections' = detections
        /\ \E fused \in Votes :
             track' = [track EXCEPT ![cur[w].id] = [cur[w].row EXCEPT !.label = Ratchet(@, fused)]]
    BY <1>2 DEF UpdateTrack, sweep
  <2>2. /\ cur[w] \in [id : Track, row : TrackRow] /\ cur[w].row.lastSeen = det[w].ts
        /\ det[w].ts \in detections[cur[w].id]
    BY <2>1 DEF LocalsSet, Held, Fresh, Choosing
  <2>3. track'[cur[w].id].lastSeen = det[w].ts
    BY <2>1, <2>2 DEF TrackRow
  <2> DEFINE x == cur[w].id
  <2>4. x \in Track /\ track'[x].lastSeen \in detections'[x]
    BY <2>1, <2>2, <2>3
  <2>5. \A t \in Track : t # x => track'[t] = track[t]
    BY <2>1
  <2> HIDE DEF x
  <2>6. \A t \in Track : t = x => Reported(t, track[t].lastSeen)'
    BY <2>4 DEF Reported
  <2>. QED
    BY <2>1, <2>4, <2>5, <2>6, WriteKeepsEvidence
<1>3. ASSUME NEW p \in Proc, MarkLost(p) \/ MarkClosed(p)
      PROVE  Evidence'
  <2> USE DEF TypeInv, TypeOK
  <2>1. PICK r \in rows[p] : /\ track' = [track EXCEPT ![r.id] = r.row]
                             /\ rows' = [rows EXCEPT ![p] = @ \ {r}]
    BY <1>3 DEF MarkLost, MarkClosed
  <2>2. r.id \in Track /\ track'[r.id] = r.row /\ Reported(r.id, r.row.lastSeen)
    BY <2>1 DEF Evidence
  <2>3. Reported(r.id, r.row.lastSeen)'
    BY <2>2, ReportedStays
  <2>4. Reported(r.id, track[r.id].lastSeen)'
    BY <2>2, <2>3
  <2>. QED
    BY <2>1, <2>2, <2>4, WriteKeepsEvidence
<1>4. CASE \E p \in Proc : ListActive(p) \/ ListLost(p)
  BY <1>4, ListingKeepsEvidence
<1>5. track' = track /\ rows' = rows => Evidence'
  BY SameRowsKeepEvidence
<1>6. CASE \E w \in Worker : \/ Receive(w) \/ Acquire(w) \/ FindMatchingTrack(w) \/ NoMatch(w)
                             \/ SaveFilter(w) \/ CreateDetection(w) \/ ListExits(w)
                             \/ Foresee(w) \/ Release(w)
  BY <1>5, <1>6 DEF Receive, Acquire, FindMatchingTrack, NoMatch, SaveFilter,
     CreateDetection, ListExits, Foresee, Release, db, sweep
<1>7. CASE \E w \in Worker : \/ LookUp(w, "entries", "open_entry")
                             \/ LookUp(w, "warnings", "open_warning")
                             \/ CreateIncident(w, "open_entry", "entries")
                             \/ CreateIncident(w, "open_warning", "warnings")
  BY <1>5, <1>7 DEF LookUp, CreateIncident, db, sweep
<1>8. CASE \E p \in Proc : ListOpen(p) \/ AutoClose(p) \/ EndSweep(p)
  BY <1>5, <1>8 DEF ListOpen, AutoClose, EndSweep, db, sweep
<1>9. CASE \/ \E r \in Reader : Poll(r)
           \/ \E o \in Operator : ReadIncident(o) \/ WriteIncident(o)
           \/ Tick \/ UNCHANGED vars
  BY <1>5, <1>9 DEF Poll, ReadIncident, WriteIncident, Tick, vars, db, sweep
<1>. QED
  BY <1>1, <1>2, <1>3, <1>4, <1>6, <1>7, <1>8, <1>9 DEF Next, CommitStep, SweepStep

LEMMA EvidenceStep ==
  ASSUME EvidenceInv, [Next]_vars, crashes' = 0, ~ \E p \in Proc : Crash(p)
  PROVE  EvidenceInv'
<1>1. TypeInv'
  BY TypeStep DEF EvidenceInv
<1>2. \A w \in Worker : Fresh(w)'
  BY FreshStep DEF EvidenceInv
<1>3. Evidence'
  BY EvidenceKept
<1>. QED
  BY <1>1, <1>2, <1>3 DEF EvidenceInv

\* Where no request dies half way, the last_seen of a row is the time of a
\* detection stored against it, or of one whose commit is on its way, however
\* unlocked sweeps and commits overwrite each other.
THEOREM LastSeenHasEvidence == MaxCrashes = 0 => (Spec => []LastSeenIsReported)
<1> SUFFICES ASSUME MaxCrashes = 0 PROVE Spec => []LastSeenIsReported
  OBVIOUS
<1>1. Init => EvidenceInv
  <2> SUFFICES ASSUME Init PROVE EvidenceInv
    OBVIOUS
  <2>1. TypeInv
    BY TypeInit
  <2>2. crashes = 0 /\ Evidence /\ \A w \in Worker : Fresh(w)
    BY DEF Init, Evidence, Unused, Fresh, Choosing, Proc
  <2>. QED
    BY <2>1, <2>2 DEF EvidenceInv
<1>2. EvidenceInv /\ [Next]_vars => EvidenceInv'
  <2> SUFFICES ASSUME EvidenceInv, [Next]_vars PROVE EvidenceInv'
    OBVIOUS
  <2>1. crashes' = 0 /\ ~ \E p \in Proc : Crash(p)
    BY NobodyDies DEF EvidenceInv
  <2>. QED
    BY <2>1, EvidenceStep
<1>3. EvidenceInv => LastSeenIsReported
  BY DEF EvidenceInv, Evidence, Reported, LastSeenIsReported
<1>. QED
  BY <1>1, <1>2, <1>3, PTL DEF Spec

-----------------------------------------------------------------------------
(* Where every sweep is inside the lock and no request dies half way, what a *)
(* request does is what Association does.                                    *)

\* A sweep has on its list what it has not written yet, and leaves nothing out.
SweepsToTheEnd ==
  \A w \in Worker : \A t \in Track \ Unused :
    /\ pc[w] = "mark_lost" /\ track[t].status = "active" /\ Quiet(w, t, Stale) =>
         \E r \in rows[w] : r.id = t
    /\ pc[w] \in {"mark_closed", "list_open"} /\ EndStatus(w, t) # track[t].status =>
         \E r \in rows[w] : r.id = t
    /\ pc[w] = "match" => EndStatus(w, t) = track[t].status

\* Nothing fits the detection of a worker that is about to spawn.
StillUnmatched == \A w \in Worker : pc[w] = "spawn" => Candidates(det[w]) = {}

AtomicInv == OrderInv /\ crashes = 0 /\ SweepsToTheEnd /\ StillUnmatched

Concerned == Expiring \cup {"match", "spawn"}

\* A worker in the middle of a sweep or a choice, and what it looks at, stay.
Spared(w) ==
  pc'[w] \in Concerned =>
    /\ pc'[w] = pc[w] \/ {pc[w], pc'[w]} \subseteq {"mark_closed", "list_open"}
    /\ UNCHANGED <<track, hasFilter>>
    /\ rows'[w] = rows[w] /\ det'[w] = det[w]

LEMMA SparedKeeps ==
  ASSUME Reader = {}, SweepsToTheEnd, StillUnmatched, \A w \in Worker : Spared(w)
  PROVE  SweepsToTheEnd' /\ StillUnmatched'
<1>1. SweepsToTheEnd'
  BY DEF SweepsToTheEnd, Spared, Concerned, Expiring, EndStatus, Quiet, Now, Unused
<1>2. StillUnmatched'
  BY DEF StillUnmatched, Spared, Concerned, Candidates, InStatus
<1>. QED
  BY <1>1, <1>2

\* The actor is the only one inside, so the others are spared.
LEMMA OthersSpared ==
  ASSUME Reader = {}, OrderInv, NEW p \in Worker, pc[p] \in Inside, NEW w \in Worker, w # p,
         pc'[w] = pc[w]
  PROVE  pc'[w] \notin Concerned
BY OnlyOneInside DEF OrderInv, Concerned, Expiring, Inside, WorkerPC, Proc

LEMMA SweepGoesOn ==
  ASSUME Reader = {}, AtomicInv, NEW p \in Worker,
         ListActive(p) \/ MarkLost(p) \/ ListLost(p) \/ MarkClosed(p) \/ EndSweep(p) \/ NoMatch(p)
  PROVE  SweepsToTheEnd' /\ StillUnmatched'
<1> USE DEF AtomicInv, OrderInv, TypeInv, TypeOK, Proc, Goto
<1>1. \A w \in Worker : w # p => pc'[w] \notin Concerned
  <2>1. pc[p] \in Inside /\ \A w \in Worker : w # p => pc'[w] = pc[w]
    BY DEF ListActive, MarkLost, ListLost, MarkClosed, EndSweep, NoMatch, Inside, WorkerPC
  <2>. QED
    BY <2>1, OthersSpared
<1>2. SUFFICES ASSUME NEW t \in Track, track'[t] # None
               PROVE  /\ pc'[p] = "mark_lost" /\ track'[t].status = "active" /\ Quiet(p, t, Stale)' =>
                           \E r \in rows'[p] : r.id = t
                      /\ pc'[p] \in {"mark_closed", "list_open"} /\ EndStatus(p, t)' # track'[t].status =>
                           \E r \in rows'[p] : r.id = t
                      /\ pc'[p] = "match" => EndStatus(p, t)' = track'[t].status
  <2>1. StillUnmatched'
    <3>1. pc'[p] = "spawn" => Candidates(det[p])' = {}
      <4> SUFFICES ASSUME pc'[p] = "spawn" PROVE Candidates(det[p])' = {}
        OBVIOUS
      <4>1. NoMatch(p)
        BY DEF ListActive, MarkLost, ListLost, MarkClosed, EndSweep
      <4>2. UNCHANGED <<track, hasFilter, det>> /\ Candidates(det[p]) = {}
        BY <4>1 DEF NoMatch, commit, db
      <4>. QED
        BY <4>2 DEF Candidates, InStatus
    <3>. QED
      BY <1>1, <3>1 DEF StillUnmatched, Concerned
  <2>. QED
    BY <1>1, <2>1 DEF SweepsToTheEnd, Unused, Concerned, Expiring
<1>3. CASE ListActive(p)
  <2>1. pc'[p] = "mark_lost" /\ track' = track /\ det' = det
    BY <1>3 DEF ListActive, commit, db
  <2>2. ASSUME track[t].status = "active", Quiet(p, t, Stale)
        PROVE  \E r \in rows'[p] : r.id = t
    <3> DEFINE r == [id |-> t, row |-> [track[t] EXCEPT !.status = "lost"]]
    <3>1. t \in {u \in InStatus("active") : Quiet(p, u, Stale)}
      BY <1>2, <2>1, <2>2 DEF InStatus
    <3>2. r \in Marked({u \in InStatus("active") : Quiet(p, u, Stale)}, "lost")
      BY <3>1 DEF Marked
    <3>. QED
      BY <1>3, <3>2 DEF ListActive
  <2>3. Quiet(p, t, Stale)' <=> Quiet(p, t, Stale)
    BY <2>1 DEF Quiet, Now
  <2>. QED
    BY <2>1, <2>2, <2>3
<1>4. CASE MarkLost(p)
  <2>1. PICK r \in rows[p] : track' = [track EXCEPT ![r.id] = r.row] /\ rows'[p] = rows[p] \ {r}
    BY <1>4 DEF MarkLost
  <2>2. pc' = pc /\ det' = det /\ pc[p] = "mark_lost" /\ r.id \in Track
    BY <1>4 DEF MarkLost, commit
  <2>3. Current(p, r)
    BY DEF RowsAreCurrent
  <2>4. CASE t = r.id
    BY <2>1, <2>2, <2>3, <2>4 DEF Current, TrackRow
  <2>5. CASE t # r.id
    <3>1. track'[t] = track[t] /\ (Quiet(p, t, Stale)' <=> Quiet(p, t, Stale))
      BY <2>1, <2>2, <2>5 DEF Quiet, Now
    <3>. QED
      BY <1>2, <2>1, <2>2, <2>5, <3>1 DEF SweepsToTheEnd, Unused
  <2>. QED
    BY <2>4, <2>5
<1>5. CASE ListLost(p)
  <2>1. pc[p] = "mark_lost" /\ pc'[p] = "mark_closed" /\ rows[p] = {} /\ track' = track /\ det' = det
    BY <1>5 DEF ListLost, commit, db
  <2>2. EndStatus(p, t)' = EndStatus(p, t)
    BY <2>1 DEF EndStatus, Quiet, Now
  <2>3. ~(track[t].status = "active" /\ Quiet(p, t, Stale))
    BY <1>2, <2>1 DEF SweepsToTheEnd, Unused
  <2>4. ASSUME EndStatus(p, t) # track[t].status
        PROVE  \E r \in rows'[p] : r.id = t
    <3> DEFINE r == [id |-> t, row |-> [track[t] EXCEPT !.status = "closed"]]
    <3>1. t \in {u \in InStatus("lost") : Quiet(p, u, Drop)}
      BY <1>2, <2>1, <2>3, <2>4 DEF EndStatus, InStatus
    <3>2. r \in Marked({u \in InStatus("lost") : Quiet(p, u, Drop)}, "closed")
      BY <3>1 DEF Marked
    <3>. QED
      BY <1>5, <3>2 DEF ListLost
  <2>. QED
    BY <2>1, <2>2, <2>4
<1>6. CASE MarkClosed(p)
  <2>1. PICK r \in rows[p] : track' = [track EXCEPT ![r.id] = r.row] /\ rows'[p] = rows[p] \ {r}
    BY <1>6 DEF MarkClosed
  <2>2. pc'[p] = "list_open" /\ det' = det /\ pc[p] = "mark_closed" /\ r.id \in Track
    BY <1>6 DEF MarkClosed, commit
  <2>3. Current(p, r)
    BY DEF RowsAreCurrent
  <2>4. CASE t = r.id
    <3>1. track'[t].status = "closed"
      BY <2>1, <2>2, <2>3, <2>4 DEF Current, TrackRow
    <3>. QED
      BY <2>2, <3>1 DEF EndStatus
  <2>5. CASE t # r.id
    <3>1. track'[t] = track[t] /\ EndStatus(p, t)' = EndStatus(p, t)
      BY <2>1, <2>2, <2>5 DEF EndStatus, Quiet, Now
    <3>. QED
      BY <1>2, <2>1, <2>2, <2>5, <3>1 DEF SweepsToTheEnd, Unused
  <2>. QED
    BY <2>4, <2>5
<1>7. CASE EndSweep(p)
  <2>1. pc[p] = "mark_closed" /\ pc'[p] = "match" /\ rows[p] = {} /\ track' = track /\ det' = det
    BY <1>7 DEF EndSweep, commit, db
  <2>2. EndStatus(p, t)' = EndStatus(p, t)
    BY <2>1 DEF EndStatus, Quiet, Now
  <2>. QED
    BY <1>2, <2>1, <2>2 DEF SweepsToTheEnd, Unused
<1>8. CASE NoMatch(p)
  BY <1>8 DEF NoMatch, Expiring
<1>. QED
  BY <1>3, <1>4, <1>5, <1>6, <1>7, <1>8

LEMMA AtomicStep ==
  ASSUME Reader = {}, MaxCrashes = 0, AtomicInv, [Next]_vars
  PROVE  AtomicInv'
<1> USE DEF AtomicInv, OrderInv, TypeInv, TypeOK, Proc, Goto
<1>1. OrderInv'
  BY OrderStep
<1>2. crashes' = 0 /\ ~ \E p \in Proc : Crash(p)
  BY NobodyDies
<1>3. CASE \E p \in Worker : \/ ListActive(p) \/ MarkLost(p) \/ ListLost(p) \/ MarkClosed(p)
                             \/ EndSweep(p) \/ NoMatch(p)
  BY <1>1, <1>2, <1>3, SweepGoesOn
<1>4. CASE \E p \in Worker : \/ FindMatchingTrack(p) \/ SpawnTrack(p) \/ SaveFilter(p) \/ CreateDetection(p)
                             \/ UpdateTrack(p)
  <2>. PICK p \in Worker : \/ FindMatchingTrack(p) \/ SpawnTrack(p) \/ SaveFilter(p) \/ CreateDetection(p)
                           \/ UpdateTrack(p)
    BY <1>4
  <2>1. pc[p] \in Inside /\ pc'[p] \notin Concerned /\ \A w \in Worker : w # p => pc'[w] = pc[w]
    BY DEF FindMatchingTrack, SpawnTrack, SaveFilter, CreateDetection, UpdateTrack, Inside, WorkerPC,
       Concerned, Expiring
  <2>2. \A w \in Worker : Spared(w)
    BY <2>1, OthersSpared DEF Spared
  <2>. QED
    BY <1>1, <1>2, <2>2, SparedKeeps
<1>5. CASE \E p \in Worker : \/ Receive(p) \/ Acquire(p) \/ ListOpen(p) \/ AutoClose(p)
                             \/ ListExits(p) \/ Foresee(p) \/ Release(p)
                             \/ LookUp(p, "entries", "open_entry")
                             \/ LookUp(p, "warnings", "open_warning")
                             \/ CreateIncident(p, "open_entry", "entries")
                             \/ CreateIncident(p, "open_warning", "warnings")
  <2>1. \A w \in Worker : Spared(w)
    BY <1>5 DEF Spared, Concerned, Expiring, Receive, Acquire, ListOpen, AutoClose, ListExits, Foresee,
       Release, LookUp, CreateIncident, Discard, db, sweep, commit
  <2>. QED
    BY <1>1, <1>2, <2>1, SparedKeeps
<1>6. CASE (\E o \in Operator : ReadIncident(o) \/ WriteIncident(o)) \/ Tick \/ UNCHANGED vars
  <2>1. \A w \in Worker : Spared(w)
    BY <1>6 DEF Spared, ReadIncident, WriteIncident, Tick, vars, db, sweep, commit
  <2>. QED
    BY <1>1, <1>2, <2>1, SparedKeeps
<1>. QED
  BY <1>2, <1>3, <1>4, <1>5, <1>6 DEF Next, CommitStep, SweepStep

-----------------------------------------------------------------------------
(* What Association sees of a state. *)

Sight == <<Outlook, Filtered, Recorded, Served, Stages, Chosen>>

\* The worker inside is the holder of the lock.
LEMMA HolderSees ==
  ASSUME Reader = {}, OrderInv, NEW w \in Worker, pc[w] \in Inside
  PROVE  /\ lock = w /\ lock # None
         /\ \A v \in Worker : v # w => pc[v] \in {"idle", "waiting"} /\ Stage(v) \in {"free", "waiting"}
<1>1. \A v \in Worker : v # w => pc[v] \in {"idle", "waiting"}
  BY OnlyOneInside DEF OrderInv, Inside, TypeInv, TypeOK, Proc
<1>. QED
  BY <1>1, NamesAssumption DEF OrderInv, LockHeld, Stage, Expiring, Choosing

\* A step off the mapped columns is out of sight.
LEMMA OutOfSight ==
  ASSUME OrderInv, Reader = {}, UNCHANGED <<track, hasFilter, detections, lock, pc, det, cur>>
  PROVE  UNCHANGED Sight
<1>1. lock # None => lock \in Worker
  BY DEF OrderInv, TypeInv, TypeOK
<1>2. UNCHANGED <<Outlook, Filtered, Recorded>>
  BY <1>1 DEF Outlook, Filtered, Recorded, At, EndStatus, Quiet, Now
<1>3. UNCHANGED <<Served, Stages, Chosen>>
  BY DEF Served, Stages, Chosen, Stage
<1>. QED
  BY <1>2, <1>3 DEF Sight

\* Where nobody sweeps or commits, the table is as it looks.
LEMMA PlainSight ==
  ASSUME ~At(Expiring), ~At(Choosing)
  PROVE  /\ Outlook = [t \in Track |-> track[t]]
         /\ Filtered = {t \in Track : hasFilter[t]}
         /\ Recorded = [t \in Track |-> detections[t]]
<1>1. ~At({"save_filter"}) /\ ~At({"save_filter", "create_detection"})
  BY DEF At, Choosing
<1>. QED
  BY <1>1 DEF Outlook, Filtered, Recorded

\* A request that arrives.
LEMMA ReceiveReports ==
  ASSUME Reader = {}, OrderInv, NEW w \in Worker, Receive(w)
  PROVE  Atomic!Report(w)
<1> USE DEF OrderInv, TypeInv, TypeOK, Proc
<1>1. /\ pc[w] = "idle" /\ pc' = [pc EXCEPT ![w] = "waiting"]
      /\ UNCHANGED <<track, hasFilter, detections, lock, cur>>
      /\ \E d \in [object : Object, ts : 0..MaxTime, located : BOOLEAN] : det' = [det EXCEPT ![w] = d]
  BY TimingAssumption DEF Receive, Goto, db
<1>2. UNCHANGED <<Outlook, Filtered, Recorded>>
  <2>1. lock # None => lock \in Worker /\ lock \in Proc
    OBVIOUS
  <2>2. lock # None /\ pc[lock] \in Expiring \cup Choosing => lock # w
    BY <1>1 DEF Expiring, Choosing
  <2>3. \A S \in {Expiring, Choosing, {"save_filter"}, {"save_filter", "create_detection"}} :
          /\ At(S)' <=> At(S)
          /\ At(S) => lock \in Worker /\ cur'[lock] = cur[lock] /\ det'[lock] = det[lock]
    BY <1>1, <2>1, <2>2 DEF At, Expiring, Choosing
  <2>. QED
    BY <1>1, <2>3 DEF Outlook, Filtered, Recorded, EndStatus, Quiet, Now
<1>3. PICK d \in [object : Object, ts : 0..MaxTime, located : BOOLEAN] : det' = [det EXCEPT ![w] = d]
  BY <1>1
<1>4. Stages[w] = "free" /\ Stages' = [Stages EXCEPT ![w] = "waiting"]
  BY <1>1 DEF Stages, Stage, Expiring, Choosing
<1>5. Served' = [Served EXCEPT ![w] = d]
  BY <1>1, <1>3 DEF Served, Stage, Expiring, Choosing
<1>6. Chosen' = Chosen
  BY <1>1 DEF Chosen, Choosing
<1>. QED
  BY <1>2, <1>4, <1>5, <1>6 DEF Atomic!Report

\* A sweep that has begun looks over already.
LEMMA SweepIsOutOfSight ==
  ASSUME Reader = {}, AtomicInv, NEW w \in Worker,
         \/ MarkLost(w) \/ ListLost(w) \/ MarkClosed(w)
         \/ EndSweep(w)
         \/ pc[w] \in Expiring /\ (ListOpen(w) \/ AutoClose(w))
  PROVE  UNCHANGED Sight
<1> USE DEF AtomicInv, OrderInv, TypeInv, TypeOK, Proc
<1>1. /\ pc[w] \in Expiring
      /\ pc'[w] \in Expiring \/ (EndSweep(w) /\ pc'[w] = "match")
      /\ \A v \in Worker : v # w => pc'[v] = pc[v]
      /\ UNCHANGED <<hasFilter, detections, lock, det, cur>>
  BY DEF MarkLost, ListLost, MarkClosed, ListOpen, AutoClose, EndSweep, Expiring, Goto, db, commit
<1>2. lock = w /\ lock # None /\ lock' = w
  BY <1>1, HolderSees DEF Expiring, Inside, WorkerPC
<1>3. UNCHANGED <<Filtered, Recorded>>
  BY <1>1, <1>2 DEF Filtered, Recorded, At, Expiring
<1>4. UNCHANGED <<Served, Stages, Chosen>>
  BY <1>1 DEF Served, Stages, Chosen, Stage, Expiring, Choosing
<1>5. ASSUME NEW t \in Track
      PROVE  /\ track'[t] # None <=> track[t] # None
             /\ track[t] # None =>
                  [track[t] EXCEPT !.status = EndStatus(w, t)] =
                    IF pc'[w] = "match" THEN track'[t] ELSE [track'[t] EXCEPT !.status = EndStatus(w, t)']
  <2>1. CASE track' = track
    <3>1. EndStatus(w, t)' = EndStatus(w, t)
      BY <1>1, <2>1 DEF EndStatus, Quiet, Now
    <3>2. CASE EndSweep(w) /\ track[t] # None
      <4>1. EndStatus(w, t) = track[t].status /\ track[t] \in TrackRow
        BY <3>2 DEF EndSweep, SweepsToTheEnd, Unused
      <4>. QED
        BY <2>1, <3>1, <4>1 DEF TrackRow
    <3>. QED
      BY <1>1, <2>1, <3>1, <3>2 DEF Expiring
  <2>2. CASE MarkLost(w) \/ MarkClosed(w)
    <3>1. PICK r \in rows[w] : track' = [track EXCEPT ![r.id] = r.row]
      BY <2>2 DEF MarkLost, MarkClosed
    <3>2. Current(w, r) /\ r.id \in Track /\ r.row \in TrackRow
      BY <3>1 DEF RowsAreCurrent
    <3>3. pc'[w] \in {"mark_lost", "list_open"} /\ pc[w] \in {"mark_lost", "mark_closed"}
      BY <2>2 DEF MarkLost, MarkClosed, Goto
    <3>4. CASE t # r.id
      <4>1. track'[t] = track[t] /\ EndStatus(w, t)' = EndStatus(w, t)
        BY <1>1, <3>1, <3>4 DEF EndStatus, Quiet, Now
      <4>. QED
        BY <3>3, <4>1
    <3>5. CASE t = r.id
      <4>1. track'[t] = r.row /\ track[t] # None /\ track[t] \in TrackRow /\ r.row # None
        BY <3>1, <3>2, <3>5, NamesAssumption DEF Current
      <4>2. /\ r.row.lastSeen = track[t].lastSeen
            /\ Quiet(w, t, Drop)' <=> Quiet(w, t, Drop)
            /\ r.row = [track[t] EXCEPT !.status = r.row.status]
        <5>1. r.row = [track[t] EXCEPT !.status = "lost"] \/ r.row = [track[t] EXCEPT !.status = "closed"]
          BY <3>2, <3>5 DEF Current
        <5>2. r.row.lastSeen = track[t].lastSeen /\ r.row = [track[t] EXCEPT !.status = r.row.status]
          BY <4>1, <5>1 DEF TrackRow
        <5>. QED
          BY <1>1, <4>1, <5>2 DEF Quiet, Now
      <4>3. EndStatus(w, t)' = EndStatus(w, t)
        BY <3>2, <3>5, <4>1, <4>2 DEF Current, EndStatus, TrackRow
      <4>4. \A e : [r.row EXCEPT !.status = e] = [track[t] EXCEPT !.status = e]
        <5> TAKE e
        <5>. QED
          BY <4>1, <4>2 DEF TrackRow
      <4>5. pc'[w] # "match"
        BY <3>3
      <4>. QED
        BY <4>1, <4>3, <4>4, <4>5
    <3>. QED
      BY <3>4, <3>5
  <2>. QED
    BY <2>1, <2>2 DEF ListLost, ListOpen, AutoClose, EndSweep, db
<1>6. Outlook' = Outlook
  <2>1. Outlook = [t \in Track |-> IF track[t] # None THEN [track[t] EXCEPT !.status = EndStatus(w, t)]
                                  ELSE track[t]]
    BY <1>1, <1>2 DEF Outlook, At, Expiring, Choosing
  <2>2. Outlook' = [t \in Track |-> IF pc'[w] # "match" /\ track'[t] # None
                                     THEN [track'[t] EXCEPT !.status = EndStatus(w, t)']
                                     ELSE track'[t]]
    BY <1>1, <1>2 DEF Outlook, At, Expiring, Choosing
  <2>. QED
    BY <1>5, <2>1, <2>2
<1>. QED
  BY <1>3, <1>4, <1>6 DEF Sight

\* Nor do the steps around the choice of a track show.
LEMMA TheRestIsOutOfSight ==
  ASSUME Reader = {}, AtomicInv, NEW w \in Worker,
         \/ Acquire(w) \/ NoMatch(w) \/ SaveFilter(w) \/ CreateDetection(w)
         \/ LookUp(w, "entries", "open_entry") \/ LookUp(w, "warnings", "open_warning")
         \/ CreateIncident(w, "open_entry", "entries") \/ CreateIncident(w, "open_warning", "warnings")
         \/ ListExits(w) \/ Foresee(w) \/ Release(w)
         \/ pc[w] \notin Expiring /\ AutoClose(w)
  PROVE  UNCHANGED Sight
<1> USE DEF AtomicInv, OrderInv, TypeInv, TypeOK, Proc
<1>1. CASE SaveFilter(w) \/ CreateDetection(w)
  <2>1. /\ pc[w] \in Choosing /\ pc'[w] \in Choosing
        /\ \A v \in Worker : v # w => pc'[v] = pc[v]
        /\ UNCHANGED <<track, lock, det, cur>> /\ cur[w].id \in Track
    BY <1>1 DEF SaveFilter, CreateDetection, Choosing, Goto, db, commit, LocalsSet, Held
  <2>2. lock = w /\ lock # None /\ lock' = w
    BY <2>1, HolderSees DEF Choosing, Inside, WorkerPC
  <2>3. Outlook' = Outlook
    BY <2>1, <2>2 DEF Outlook, At, Expiring, Choosing
  <2>4. UNCHANGED <<Filtered, Recorded>>
    <3>1. CASE SaveFilter(w)
      BY <2>1, <2>2, <3>1 DEF SaveFilter, Goto, Filtered, Recorded, At
    <3>2. CASE CreateDetection(w)
      <4>1. /\ pc[w] = "create_detection" /\ pc'[w] = "update_track" /\ hasFilter' = hasFilter
            /\ detections' = [detections EXCEPT ![cur[w].id] = @ \cup {det[w].ts}]
        BY <3>2 DEF CreateDetection, Goto
      <4>2. Filtered' = Filtered
        BY <2>1, <2>2, <4>1 DEF Filtered, At
      <4>3. \A t \in Track : detections'[t] = IF cur[w].id = t THEN detections[t] \cup {det[w].ts}
                                                               ELSE detections[t]
        BY <2>1, <4>1
      <4>4. Recorded' = [t \in Track |-> detections'[t]]
        BY <2>1, <2>2, <4>1 DEF Recorded, At
      <4>5. Recorded = [t \in Track |-> IF cur[w].id = t THEN detections[t] \cup {det[w].ts}
                                                         ELSE detections[t]]
        BY <2>1, <2>2, <4>1 DEF Recorded, At
      <4>. QED
        BY <4>2, <4>3, <4>4, <4>5
    <3>. QED
      BY <1>1, <3>1, <3>2
  <2>5. UNCHANGED <<Served, Stages, Chosen>>
    BY <2>1 DEF Served, Stages, Chosen, Stage, Expiring, Choosing
  <2>. QED
    BY <2>3, <2>4, <2>5 DEF Sight
<1>2. CASE ~SaveFilter(w) /\ ~CreateDetection(w)
  <2>1. /\ UNCHANGED <<track, hasFilter, detections>>
        /\ \A v \in Worker : v # w => pc'[v] = pc[v] /\ det'[v] = det[v] /\ cur'[v] = cur[v]
    BY <1>2 DEF Acquire, NoMatch, LookUp, CreateIncident, ListExits, Foresee, Release, Discard, AutoClose,
       Goto, db, commit
  <2>2. /\ pc[w] \notin Expiring \cup Choosing /\ pc'[w] \notin Expiring \cup Choosing
        /\ Stage(w)' = Stage(w)
        /\ Stage(w) # "free" => det'[w] = det[w]
    BY <1>2 DEF Acquire, NoMatch, LookUp, CreateIncident, ListExits, Foresee, Release, AutoClose,
       Goto, Stage, Expiring, Choosing, commit
  <2>3. UNCHANGED <<Served, Stages, Chosen>>
    <3>1. ASSUME NEW v \in Worker PROVE Stage(v)' = Stage(v)
      <4>1. CASE v = w
        BY <2>2, <4>1 DEF Stage
      <4>2. CASE v # w
        BY <2>1, <4>2 DEF Stage
      <4>. QED
        BY <4>1, <4>2
    <3>2. \A v \in Worker : Stage(v) # "free" => det'[v] = det[v]
      BY <2>1, <2>2 DEF Stage
    <3>3. ASSUME NEW v \in Worker
          PROVE  /\ pc'[v] \in Choosing <=> pc[v] \in Choosing
                 /\ pc[v] \in Choosing => cur'[v] = cur[v]
      <4>1. CASE v = w
        BY <2>2, <4>1
      <4>2. CASE v # w
        BY <2>1, <4>2
      <4>. QED
        BY <4>1, <4>2
    <3>. QED
      BY <3>1, <3>2, <3>3 DEF Served, Stages, Chosen
  <2>4. lock \in {w, None} /\ lock' \in {w, None}
    <3>1. CASE Acquire(w)
      BY <3>1 DEF Acquire, LockFree
    <3>2. CASE ~Acquire(w)
      <4>1. pc[w] \in Inside /\ lock' \in {lock, None}
        BY <1>2, <3>2 DEF NoMatch, LookUp, CreateIncident, ListExits, Foresee, Release, AutoClose, Inside, WorkerPC
      <4>. QED
        BY <4>1, HolderSees
    <3>. QED
      BY <3>1, <3>2
  <2>5. /\ ~At(Expiring) /\ ~At(Choosing)
        /\ ~At(Expiring)' /\ ~At(Choosing)'
    BY <2>2, <2>4 DEF At, Expiring, Choosing
  <2>6. UNCHANGED <<Outlook, Filtered, Recorded>>
    <3>1. /\ Outlook = [t \in Track |-> track[t]]
          /\ Filtered = {t \in Track : hasFilter[t]}
          /\ Recorded = [t \in Track |-> detections[t]]
      BY <2>5, PlainSight
    <3>2. /\ Outlook' = [t \in Track |-> track'[t]]
          /\ Filtered' = {t \in Track : hasFilter'[t]}
          /\ Recorded' = [t \in Track |-> detections'[t]]
      BY <2>5 DEF Outlook, Filtered, Recorded, At, Choosing
    <3>. QED
      BY <2>1, <3>1, <3>2
  <2>. QED
    BY <2>3, <2>6 DEF Sight
<1>. QED
  BY <1>1, <1>2

\* A listing of the quiet tracks expires them.
LEMMA ListingExpires ==
  ASSUME Reader = {}, AtomicInv, NEW w \in Worker, ListActive(w)
  PROVE  Atomic!Expire(w)
<1> USE DEF AtomicInv, OrderInv, TypeInv, TypeOK, Proc
<1>1. /\ pc[w] = "list_active" /\ pc' = [pc EXCEPT ![w] = "mark_lost"] /\ det[w] \in Detection
      /\ UNCHANGED <<track, hasFilter, detections, lock, det, cur>>
  BY DEF ListActive, Goto, db, commit, LocalsSet
<1>2. /\ lock = w /\ lock # None /\ lock' = w
      /\ \A v \in Worker : v # w => Stage(v) \in {"free", "waiting"} /\ Stage(v)' = Stage(v)
  BY <1>1, HolderSees DEF Inside, WorkerPC, Stage
<1>3. ~At(Expiring) /\ ~At(Choosing)
  BY <1>1, <1>2 DEF At, Expiring, Choosing
<1>4. Stage(w) = "waiting" /\ Stage(w)' = "expired"
  BY <1>1 DEF Stage, Expiring, Choosing
<1>5. Served[w] = det[w]
  BY <1>4 DEF Served
<1>6. Outlook' = Atomic!Expired(Served[w].ts)
  <2>1. ASSUME NEW t \in Track, track[t] # None
        PROVE  [track[t] EXCEPT !.status = EndStatus(w, t)] = Atomic!Aged(track[t], det[w].ts)
    <3>1. track[t] \in TrackRow
      BY <2>1
    <3>. QED
      BY <3>1, TimingAssumption DEF EndStatus, Quiet, Now, Atomic!Aged, Atomic!Lapsed, TrackRow
  <2>2. Outlook' = [t \in Track |-> IF track[t] # None THEN [track[t] EXCEPT !.status = EndStatus(w, t)']
                                   ELSE track[t]]
    BY <1>1, <1>2 DEF Outlook, At, Expiring, Choosing
  <2>3. \A t \in Track : EndStatus(w, t)' = EndStatus(w, t)
    BY <1>1 DEF EndStatus, Quiet, Now
  <2>4. Outlook = [t \in Track |-> track[t]]
    BY <1>3, PlainSight
  <2>. QED
    BY <1>5, <2>1, <2>2, <2>3, <2>4 DEF Atomic!Expired
<1>7. UNCHANGED <<Filtered, Recorded, Served, Chosen>>
  <2>1. UNCHANGED <<Filtered, Recorded>>
    BY <1>1, <1>2 DEF Filtered, Recorded, At
  <2>2. \A v \in Worker : Stage(v)' = "free" <=> Stage(v) = "free"
    BY <1>2, <1>4
  <2>3. UNCHANGED Served
    BY <1>1, <2>2 DEF Served
  <2>4. UNCHANGED Chosen
    BY <1>1 DEF Chosen, Choosing
  <2>. QED
    BY <2>1, <2>3, <2>4
<1>. QED
  BY <1>2, <1>4, <1>6, <1>7 DEF Atomic!Expire, Stages

\* A choice and a spawn record the detection.
LEMMA ChoiceRecords ==
  ASSUME Reader = {}, AtomicInv, NEW w \in Worker, FindMatchingTrack(w) \/ SpawnTrack(w)
  PROVE  \E t \in Track : Atomic!Record(w, t)
<1> USE DEF AtomicInv, OrderInv, TypeInv, TypeOK, Proc
<1> DEFINE d == det[w]
<1>1. /\ pc[w] \in {"match", "spawn"} /\ pc'[w] \in {"save_filter", "create_detection"}
      /\ pc'[w] = "save_filter" <=> d.located
      /\ \A v \in Worker : v # w => pc'[v] = pc[v] /\ cur'[v] = cur[v]
      /\ d \in Detection
      /\ UNCHANGED <<hasFilter, detections, lock, det>>
  <2>1. CASE FindMatchingTrack(w)
    BY <2>1 DEF FindMatchingTrack, Candidates, Goto, LocalsSet, db, Detection
  <2>2. CASE SpawnTrack(w)
    BY <2>2 DEF SpawnTrack, Goto, LocalsSet, Detection
  <2>. QED
    BY <2>1, <2>2
<1>2. /\ lock = w /\ lock # None /\ lock' = w
      /\ \A v \in Worker : v # w => pc[v] \in {"idle", "waiting"}
  BY <1>1, HolderSees DEF Inside, WorkerPC
<1>3. ~At(Expiring) /\ ~At(Choosing)
  BY <1>1, <1>2 DEF At, Expiring, Choosing
<1>4. /\ Outlook = [t \in Track |-> track[t]]
      /\ Filtered = {t \in Track : hasFilter[t]}
      /\ Recorded = [t \in Track |-> detections[t]]
  BY <1>3, PlainSight
<1>5. Served[w] = d /\ Stages[w] = "expired"
  BY <1>1 DEF Served, Stages, Stage, Expiring, Choosing
<1>6. Stages' = [Stages EXCEPT ![w] = "recorded"]
  BY <1>1 DEF Stages, Stage, Expiring, Choosing
<1>7. Served' = Served
  <2>1. ASSUME NEW v \in Worker PROVE Stage(v)' = "free" <=> Stage(v) = "free"
    BY <1>1 DEF Stage, Expiring, Choosing
  <2>. QED
    BY <1>1, <2>1 DEF Served
<1>8. Atomic!Fitting(d) = Candidates(d)
  BY <1>4 DEF Atomic!Fitting, Candidates, InStatus
<1>9. ASSUME NEW t \in Track, cur'[w].id = t
      PROVE  /\ Filtered' = IF d.located THEN Filtered \cup {t} ELSE Filtered
             /\ Recorded' = [Recorded EXCEPT ![t] = @ \cup {d.ts}]
             /\ Chosen' = [Chosen EXCEPT ![w] = t]
             /\ Outlook' = [u \in Track |-> IF u = t THEN cur'[w].row ELSE track'[u]]
  <2>1. Filtered' = IF d.located THEN Filtered \cup {t} ELSE Filtered
    BY <1>1, <1>2, <1>4, <1>9 DEF Filtered, At
  <2>2. Recorded' = [Recorded EXCEPT ![t] = @ \cup {d.ts}]
    BY <1>1, <1>2, <1>4, <1>9 DEF Recorded, At
  <2>3. Chosen' = [Chosen EXCEPT ![w] = t]
    BY <1>1, <1>9 DEF Chosen, Choosing
  <2>4. Outlook' = [u \in Track |-> IF u = t THEN cur'[w].row ELSE track'[u]]
    BY <1>1, <1>2, <1>9 DEF Outlook, At, Expiring, Choosing
  <2>. QED
    BY <2>1, <2>2, <2>3, <2>4
<1>10. CASE FindMatchingTrack(w)
  <2>1. PICK t \in Candidates(d) : cur' = [cur EXCEPT ![w] = [id |-> t, row |-> Seen(t, d)]]
    BY <1>10 DEF FindMatchingTrack
  <2>2. /\ t \in Track /\ track[t] \in TrackRow /\ track' = track
        /\ cur'[w].id = t /\ cur'[w].row = [track[t] EXCEPT !.lastSeen = d.ts]
    BY <1>10, <2>1 DEF FindMatchingTrack, Candidates, InStatus, Seen, db
  <2>3. Outlook' = [Outlook EXCEPT ![t].lastSeen = d.ts]
    BY <1>4, <1>9, <2>2
  <2>4. t \in Atomic!Fitting(d)
    BY <1>8, <2>1
  <2>. HIDE DEF d
  <2>5. Atomic!Record(w, t)
    BY <1>5, <1>6, <1>7, <1>9, <2>2, <2>3, <2>4 DEF Atomic!Record
  <2>. QED
    BY <2>2, <2>5
<1>11. CASE SpawnTrack(w)
  <2>1. PICK t \in Unused : /\ track' = [track EXCEPT ![t] = Atomic!NewTrack(d)]
                            /\ cur' = [cur EXCEPT ![w] = [id |-> t, row |-> Atomic!NewTrack(d)]]
    BY <1>11 DEF SpawnTrack, Atomic!NewTrack
  <2>2. t \in Track /\ track[t] = None /\ cur'[w].id = t /\ cur'[w].row = Atomic!NewTrack(d)
    BY <2>1 DEF Unused
  <2>3. Outlook' = [Outlook EXCEPT ![t] = Atomic!NewTrack(d)] /\ Outlook[t] = None
    BY <1>4, <1>9, <2>1, <2>2
  <2>4. Candidates(d) = {}
    BY <1>11 DEF SpawnTrack, StillUnmatched
  <2>. QED
    BY <1>5, <1>6, <1>7, <1>8, <1>9, <2>2, <2>3, <2>4 DEF Atomic!Record
<1>. QED
  BY <1>10, <1>11

\* A commit writes the row it announced, with the label the vote moved.
LEMMA CommitRelabels ==
  ASSUME Reader = {}, AtomicInv, NEW w \in Worker, UpdateTrack(w)
  PROVE  Atomic!Relabel(w)
<1> USE DEF AtomicInv, OrderInv, TypeInv, TypeOK, Proc
<1> DEFINE t == cur[w].id
<1>1. PICK fused \in Votes :
        /\ track' = [track EXCEPT ![t] = [cur[w].row EXCEPT !.label = Ratchet(@, fused)]]
        /\ \A v \in Worker : v # w => cur'[v] = cur[v]
  BY DEF UpdateTrack
<1>2. /\ pc[w] = "update_track" /\ pc' = [pc EXCEPT ![w] = "entries"]
      /\ t \in Track /\ cur[w].row \in TrackRow
      /\ UNCHANGED <<hasFilter, detections, lock, det>>
  BY DEF UpdateTrack, Goto, LocalsSet, Held
<1>3. lock = w /\ lock # None /\ lock' = w
  BY <1>2, HolderSees DEF Inside, WorkerPC
<1> DEFINE label == cur[w].row.label
           l == Ratchet(label, fused)
<1>4. l \in Label /\ Atomic!MayBecome(label, l)
  BY <1>2, TimingAssumption DEF Ratchet, Atomic!MayBecome, TrackRow
<1>5. Outlook = [u \in Track |-> IF u = t THEN cur[w].row ELSE track[u]]
  BY <1>2, <1>3 DEF Outlook, At, Expiring, Choosing
<1>6. Outlook' = [u \in Track |-> track'[u]]
  BY <1>2, <1>3 DEF Outlook, At, Expiring, Choosing
<1>7. Outlook' = [Outlook EXCEPT ![t].label = l]
  BY <1>1, <1>2, <1>5, <1>6
<1>8. Chosen[w] = t /\ Chosen' = [Chosen EXCEPT ![w] = None]
  BY <1>1, <1>2 DEF Chosen, Choosing
<1>9. Stages[w] = "recorded" /\ Stages' = [Stages EXCEPT ![w] = "free"]
  BY <1>2 DEF Stages, Stage, Expiring, Choosing
<1>10. Served' = [Served EXCEPT ![w] = None]
  <2>1. ASSUME NEW v \in Worker PROVE Stage(v)' = "free" <=> (v = w \/ Stage(v) = "free")
    BY <1>2 DEF Stage, Expiring, Choosing
  <2>. QED
    BY <1>2, <2>1 DEF Served
<1>11. UNCHANGED <<Filtered, Recorded>>
  BY <1>2, <1>3 DEF Filtered, Recorded, At
<1>12. Outlook[Chosen[w]].label = label
  BY <1>2, <1>5, <1>8
<1>. QED
  BY <1>4, <1>7, <1>8, <1>9, <1>10, <1>11, <1>12 DEF Atomic!Relabel

LEMMA AssociationStep ==
  ASSUME Reader = {}, MaxCrashes = 0, AtomicInv, [Next]_vars
  PROVE  [Atomic!AssociationNext]_(Atomic!AssociationVars)
<1> USE DEF AtomicInv
<1>1. SUFFICES Atomic!AssociationNext \/ UNCHANGED Sight
  BY DEF Atomic!AssociationVars, Sight
<1>2. ~ \E p \in Proc : Crash(p)
  BY NobodyDies
<1>3. CASE \E w \in Worker : Receive(w)
  BY <1>3, ReceiveReports DEF Atomic!AssociationNext
<1>4. CASE \E w \in Worker : ListActive(w)
  BY <1>4, ListingExpires DEF Atomic!AssociationNext
<1>5. CASE \E w \in Worker : FindMatchingTrack(w) \/ SpawnTrack(w)
  BY <1>5, ChoiceRecords DEF Atomic!AssociationNext
<1>6. CASE \E w \in Worker : UpdateTrack(w)
  BY <1>6, CommitRelabels DEF Atomic!AssociationNext
<1>7. CASE \E w \in Worker : MarkLost(w) \/ ListLost(w) \/ MarkClosed(w) \/ EndSweep(w)
  BY <1>7, SweepIsOutOfSight
<1>8. CASE \E w \in Worker : ListOpen(w) \/ AutoClose(w)
  <2>. PICK w \in Worker : ListOpen(w) \/ AutoClose(w)
    BY <1>8
  <2>1. CASE pc[w] \in Expiring
    BY <2>1, SweepIsOutOfSight
  <2>2. CASE pc[w] \notin Expiring
    BY <2>2, TheRestIsOutOfSight DEF ListOpen, Expiring
  <2>. QED
    BY <2>1, <2>2
<1>9. CASE \E w \in Worker :
             \/ Acquire(w) \/ NoMatch(w) \/ SaveFilter(w) \/ CreateDetection(w)
             \/ LookUp(w, "entries", "open_entry") \/ LookUp(w, "warnings", "open_warning")
             \/ CreateIncident(w, "open_entry", "entries") \/ CreateIncident(w, "open_warning", "warnings")
             \/ ListExits(w) \/ Foresee(w) \/ Release(w)
  BY <1>9, TheRestIsOutOfSight
<1>10. CASE (\E o \in Operator : ReadIncident(o) \/ WriteIncident(o)) \/ Tick \/ UNCHANGED vars
  <2>1. UNCHANGED <<track, hasFilter, detections, lock, pc, det, cur>>
    BY <1>10 DEF ReadIncident, WriteIncident, Tick, vars, db, commit
  <2>. QED
    BY <2>1, OutOfSight
<1>. QED
  BY <1>2, <1>3, <1>4, <1>5, <1>6, <1>7, <1>8, <1>9, <1>10 DEF Next, CommitStep, SweepStep, Proc

LEMMA AtomicInit ==
  ASSUME Init, Reader = {}
  PROVE  AtomicInv /\ Atomic!AssociationInit
<1>1. OrderInv
  BY OrderInit
<1>2. \A p \in Proc : pc[p] = "idle"
  BY DEF Init
<1>3. AtomicInv
  BY <1>1, <1>2 DEF AtomicInv, SweepsToTheEnd, StillUnmatched, Init, Proc
<1>4. lock = None /\ track = [t \in Track |-> None] /\ hasFilter = [t \in Track |-> FALSE]
      /\ detections = [t \in Track |-> {}]
  BY DEF Init
<1>5. Outlook = [t \in Track |-> None] /\ Filtered = {} /\ Recorded = [t \in Track |-> {}]
  BY <1>4 DEF Outlook, Filtered, Recorded, At
<1>6. \A w \in Worker : Stage(w) = "free"
  BY <1>2 DEF Stage, Proc, Expiring, Choosing
<1>7. Served = [w \in Worker |-> None] /\ Stages = [w \in Worker |-> "free"]
  BY <1>6 DEF Served, Stages
<1>8. Chosen = [w \in Worker |-> None]
  BY <1>2 DEF Chosen, Choosing, Proc
<1>. QED
  BY <1>3, <1>5, <1>7, <1>8 DEF Atomic!AssociationInit

\* Where every sweep runs inside the association lock and no request dies half
\* way, requests look as if they ran one after the other: the quiet tracks
\* expire in one step, and the row, the filter and the detection of a request
\* are recorded in another, on the table the request before it left.
THEOREM AssociationIsAtomic ==
  Reader = {} /\ MaxCrashes = 0 => (Spec => AssociatesAtomically)
<1> SUFFICES ASSUME Reader = {}, MaxCrashes = 0 PROVE Spec => AssociatesAtomically
  OBVIOUS
<1>1. Init => AtomicInv /\ Atomic!AssociationInit
  BY AtomicInit
<1>2. AtomicInv /\ [Next]_vars => AtomicInv'
  BY AtomicStep
<1>3. AtomicInv /\ [Next]_vars => [Atomic!AssociationNext]_(Atomic!AssociationVars)
  BY AssociationStep
<1>. QED
  BY <1>1, <1>2, <1>3, PTL DEF Spec, AssociatesAtomically, Atomic!AssociationSpec
=============================================================================
