--------------------------- MODULE Retention_proofs ---------------------------
(***************************************************************************)
(* Proofs about Retention, for any number of tracks and rows and any bound *)
(* on the incidents: with one server process a track never has two         *)
(* unresolved incidents of one behavior that no late acknowledgement took  *)
(* out of "resolved", and with any number of them the retention sweep      *)
(* never takes an active track.                                            *)
(*                                                                         *)
(* The first rests on the lookup still being right when the insert comes:  *)
(* between the two, other transactions only resolve and detach incidents,  *)
(* or revive one, which is then told apart.                                *)
(* The second rests on the ids read by purge_old_tracks: a track that was  *)
(* not active then does not become active again.                           *)
(***************************************************************************)
EXTENDS Retention, TLAPS

\* An incident is on the track it was opened for until it is detached, and keeps
\* the other track of its pair.
RowsMatchAlarms ==
  \A i \in DOMAIN incident : /\ incident[i].track \in {None, incident[i].alarm.track}
                             /\ incident[i].related = incident[i].alarm.related

\* The tracks a retention sweep has read stay finished.
SelectedAreFinished == \A r \in Replica : \A t \in selected[r] : status[t] # "active"

\* The incidents that count against a second one: unresolved all along, and still on
\* a track.
Raised == {i \in Unresolved \ reopened : incident[i].track # None}

\* What a sweep is about to insert is still missing.
CandidateIsNew ==
  \A r \in Replica : cand[r] # None => \A i \in Raised : incident[i].alarm # cand[r]

OneReplica == \A q, r \in Replica : q = r

TypeInv == TypeOK /\ RowsMatchAlarms

-----------------------------------------------------------------------------
(* Types. *)

\* An alarm is its type and its tracks, and is not NULL-like in its track.
LEMMA AlarmFields ==
  /\ \A a \in Alarm : a.track \in Track /\ a.related \in Track \cup {None}
  /\ \A a, b \in Alarm : a.type = b.type /\ a.track = b.track /\ a.related = b.related => a = b
  BY DEF Alarm

\* Rewriting rows in place keeps a table a table, with the same ids.
LEMMA RowsRewritten ==
  ASSUME incident \in Seq(IncidentRow), NEW rows,
         rows = [i \in DOMAIN incident |-> rows[i]],
         \A i \in DOMAIN incident : rows[i] \in IncidentRow
  PROVE  rows \in Seq(IncidentRow) /\ Len(rows) = Len(incident) /\ DOMAIN rows = DOMAIN incident
  <1>1. DOMAIN incident = 1..Len(incident) /\ Len(incident) \in Nat
    OBVIOUS
  <1>2. rows \in [1..Len(incident) -> IncidentRow]
    BY <1>1
  <1> QED
    BY <1>1, <1>2

LEMMA InitTypes == Init => TypeInv
  <1> SUFFICES ASSUME Init PROVE TypeInv
    OBVIOUS
  <1>1. incident \in Seq(IncidentRow) /\ Len(incident) = 0 /\ DOMAIN incident = {}
    BY DEF Init
  <1>2. \A d \in DOMAIN fedInto : d \in Detection /\ fedInto[d] \in Track
    BY DEF Init
  <1>3. TypeOK
    BY <1>1, <1>2, MaxAssumption DEF Init, TypeOK
  <1> QED
    BY <1>1, <1>3 DEF TypeInv, RowsMatchAlarms

\* Settling an incident keeps the tables well typed.
LEMMA SettleTypes ==
  ASSUME TypeInv, NEW i \in DOMAIN incident, Settle(i)
  PROVE  /\ incident' \in Seq(IncidentRow) /\ Len(incident') = Len(incident)
         /\ DOMAIN incident' = DOMAIN incident
         /\ \A j \in DOMAIN incident :
              incident'[j] = IF j = i THEN [incident[i] EXCEPT !.status = "resolved"]
                                      ELSE incident[j]
         /\ found' \in [Replica -> SUBSET Alarm]
         /\ RowsMatchAlarms'
  <1>1. \A j \in DOMAIN incident : incident[j] \in IncidentRow
    BY DEF TypeInv, TypeOK
  <1>2. \A j \in DOMAIN incident : incident'[j] \in IncidentRow
    BY <1>1 DEF Settle, IncidentRow
  <1>3. incident' = [j \in DOMAIN incident |-> incident'[j]]
    BY DEF Settle
  <1>4. /\ incident' \in Seq(IncidentRow) /\ Len(incident') = Len(incident)
        /\ DOMAIN incident' = DOMAIN incident
    BY <1>2, <1>3, RowsRewritten DEF TypeInv, TypeOK
  <1>5. \A j \in DOMAIN incident :
          incident'[j] = IF j = i THEN [incident[i] EXCEPT !.status = "resolved"]
                                  ELSE incident[j]
    BY DEF Settle
  <1>6. found' \in [Replica -> SUBSET Alarm]
    BY DEF Settle, TypeInv, TypeOK
  <1>7. RowsMatchAlarms'
    BY <1>1, <1>4, <1>5 DEF TypeInv, RowsMatchAlarms, IncidentRow
  <1> QED
    BY <1>4, <1>5, <1>6, <1>7

\* A request of an operator that has read an incident is about one there is.
LEMMA FormNamesIncident ==
  ASSUME TypeOK, NEW o \in Operator, form[o] # None
  PROVE  form[o].id \in DOMAIN incident
  BY DEF TypeOK

\* Acknowledging one keeps them well typed too.
LEMMA AcknowledgeTypes ==
  ASSUME TypeInv, NEW o \in Operator, WriteAcknowledged(o)
  PROVE  /\ form[o].id \in DOMAIN incident
         /\ incident' \in Seq(IncidentRow) /\ Len(incident') = Len(incident)
         /\ DOMAIN incident' = DOMAIN incident
         /\ \A j \in DOMAIN incident :
              incident'[j] = IF j = form[o].id
                             THEN [incident[form[o].id] EXCEPT !.status = "acknowledged"]
                             ELSE incident[j]
         /\ RowsMatchAlarms'
  <1> DEFINE i == form[o].id
  <1>0. i \in DOMAIN incident
    BY FormNamesIncident DEF TypeInv, WriteAcknowledged
  <1>1. \A j \in DOMAIN incident : incident[j] \in IncidentRow
    BY DEF TypeInv, TypeOK
  <1>2. incident' = [incident EXCEPT ![i].status = "acknowledged"]
    BY DEF WriteAcknowledged
  <1> HIDE DEF i
  <1>3. \A j \in DOMAIN incident : incident'[j] \in IncidentRow
    BY <1>1, <1>2 DEF IncidentRow
  <1>4. incident' = [j \in DOMAIN incident |-> incident'[j]]
    BY <1>2
  <1>5. /\ incident' \in Seq(IncidentRow) /\ Len(incident') = Len(incident)
        /\ DOMAIN incident' = DOMAIN incident
    BY <1>3, <1>4, RowsRewritten DEF TypeInv, TypeOK
  <1>6. \A j \in DOMAIN incident :
          incident'[j] = IF j = i THEN [incident[i] EXCEPT !.status = "acknowledged"]
                                  ELSE incident[j]
    BY <1>0, <1>2
  <1>7. RowsMatchAlarms'
    BY <1>0, <1>1, <1>5, <1>6 DEF TypeInv, RowsMatchAlarms, IncidentRow
  <1> QED
    BY <1>0, <1>5, <1>6, <1>7 DEF i

\* Detaching incidents too.
LEMMA DetachTypes ==
  ASSUME TypeInv, NEW gone,
         incident' = [i \in DOMAIN incident |-> Detached(i, gone)]
  PROVE  /\ incident' \in Seq(IncidentRow) /\ Len(incident') = Len(incident)
         /\ DOMAIN incident' = DOMAIN incident
         /\ RowsMatchAlarms'
  <1>1. \A j \in DOMAIN incident : incident[j] \in IncidentRow
    BY DEF TypeInv, TypeOK
  <1>2. \A j \in DOMAIN incident : incident'[j] \in IncidentRow
    BY <1>1 DEF Detached, IncidentRow
  <1>3. incident' = [j \in DOMAIN incident |-> incident'[j]]
    OBVIOUS
  <1>4. /\ incident' \in Seq(IncidentRow) /\ Len(incident') = Len(incident)
        /\ DOMAIN incident' = DOMAIN incident
    BY <1>2, <1>3, RowsRewritten DEF TypeInv, TypeOK
  <1>5. RowsMatchAlarms'
    BY <1>1, <1>4 DEF TypeInv, RowsMatchAlarms, IncidentRow, Detached
  <1> QED
    BY <1>4, <1>5

\* Opening one too.
LEMMA CreateTypes ==
  ASSUME TypeInv, NEW r \in Replica, CreateIncident(r)
  PROVE  /\ cand[r] \in Alarm
         /\ incident' \in Seq(IncidentRow) /\ Len(incident') = Len(incident) + 1
         /\ Len(incident') <= MaxIncidents
         /\ DOMAIN incident' = DOMAIN incident \cup {Len(incident) + 1}
         /\ Len(incident) + 1 \notin DOMAIN incident
         /\ \A j \in DOMAIN incident : incident'[j] = incident[j]
         /\ incident'[Len(incident) + 1] =
              [alarm |-> cand[r], status |-> "open", track |-> cand[r].track,
               related |-> cand[r].related]
         /\ RowsMatchAlarms'
  <1>1. cand[r] \in Alarm
    BY DEF TypeInv, TypeOK, CreateIncident
  <1> DEFINE row == [alarm |-> cand[r], status |-> "open", track |-> cand[r].track,
                     related |-> cand[r].related]
  <1>2. row \in IncidentRow
    BY <1>1, AlarmFields DEF IncidentRow
  <1>3. incident' = Append(incident, row) /\ Len(incident) < MaxIncidents
    BY DEF CreateIncident
  <1>4. /\ incident \in Seq(IncidentRow) /\ Len(incident) \in Nat
        /\ DOMAIN incident = 1..Len(incident)
    BY DEF TypeInv, TypeOK
  <1> HIDE DEF row
  <1>5. /\ incident' \in Seq(IncidentRow) /\ Len(incident') = Len(incident) + 1
        /\ DOMAIN incident' = 1..(Len(incident) + 1)
        /\ \A j \in DOMAIN incident : incident'[j] = incident[j]
        /\ incident'[Len(incident) + 1] = row
    BY <1>2, <1>3, <1>4
  <1>6. /\ DOMAIN incident' = DOMAIN incident \cup {Len(incident) + 1}
        /\ Len(incident) + 1 \notin DOMAIN incident
    BY <1>4, <1>5
  <1>7. RowsMatchAlarms'
    BY <1>5, <1>6 DEF TypeInv, RowsMatchAlarms, row
  <1>8. Len(incident') <= MaxIncidents
    BY <1>5, MaxAssumption, <1>3, <1>4
  <1> QED
    BY <1>1, <1>5, <1>6, <1>7, <1>8 DEF row

\* Every step keeps the types and the rows with their alarms.
LEMMA StepTypes ==
  ASSUME TypeInv, [Next]_vars
  PROVE  TypeInv'
  <1> USE DEF TypeInv
  <1>1. ASSUME NEW t \in Track, Report(t)
        PROVE  TypeInv'
    BY <1>1 DEF Report, TypeOK, RowsMatchAlarms, console, expiry, behavior, retain
  <1>2. ASSUME NEW t \in Track, MarkLost(t)
        PROVE  TypeInv'
    BY <1>2 DEF MarkLost, TypeOK, RowsMatchAlarms, console, expiry, behavior, retain
  <1>3. ASSUME NEW t \in Track, MarkClosed(t)
        PROVE  TypeInv'
    BY <1>3 DEF MarkClosed, TypeOK, RowsMatchAlarms, console, behavior, retain
  <1>4. ASSUME NEW t \in Track, ListOpen(t)
        PROVE  TypeInv'
    BY <1>4 DEF ListOpen, OpenFor, Unresolved, TypeOK, RowsMatchAlarms, tables, console,
       behavior, retain
  <1>5. ASSUME NEW i \in DOMAIN incident, AutoClose(i)
        PROVE  TypeInv'
    <2>1. Settle(i)
      BY <1>5 DEF AutoClose
    <2> QED
      BY <1>5, <2>1, SettleTypes DEF AutoClose, TypeOK, console, retain
  <1>6. ASSUME NEW o \in Operator, ReadIncident(o)
        PROVE  TypeInv'
    BY <1>6 DEF ReadIncident, Unresolved, TypeOK, RowsMatchAlarms, tables, expiry, behavior, retain
  <1>7. ASSUME NEW o \in Operator, WriteResolved(o)
        PROVE  TypeInv'
    <2>1. Settle(form[o].id) /\ form[o].id \in DOMAIN incident
      BY <1>7, FormNamesIncident DEF WriteResolved
    <2> QED
      BY <1>7, <2>1, SettleTypes DEF WriteResolved, TypeOK, expiry, retain
  <1>21. ASSUME NEW o \in Operator, WriteAcknowledged(o)
         PROVE  TypeInv'
    <2>1. reopened' \subseteq DOMAIN incident
      BY <1>21, FormNamesIncident DEF WriteAcknowledged, TypeOK
    <2> QED
      BY <1>21, <2>1, AcknowledgeTypes DEF WriteAcknowledged, TypeOK, expiry, behavior, retain
  <1>8. ASSUME Age
        PROVE  TypeInv'
    <2>1. \A p \in Policies : Stored(p) \subseteq Track \cup Detection \cup Entry
      BY PolicyAssumption DEF Stored, TypeOK, InStatus
    <2> QED
      BY <1>8, <2>1 DEF Age, TypeOK, RowsMatchAlarms, console, expiry, behavior, retain
  <1>9. ASSUME NEW r \in Replica, ListActive(r)
        PROVE  TypeInv'
    <2>1. PICK g \in SUBSET InStatus("active") : See(r, Formation(g))
      BY <1>9 DEF ListActive
    <2>2. Formation(g) \subseteq Alarm /\ InStatus("active") \subseteq Track
      BY DEF Formation, Alarm, InStatus
    <2> QED
      BY <1>9, <2>1, <2>2 DEF ListActive, See, TypeOK, RowsMatchAlarms, tables, console,
         expiry, retain
  <1>10. ASSUME NEW r \in Replica, CheckShadowing(r)
         PROVE  TypeInv'
    <2>1. PICK ps \in SUBSET Pairs(listed[r]) : See(r, UNION {BothOfPair(p) : p \in ps})
      BY <1>10 DEF CheckShadowing
    <2>2. \A p \in ps : BothOfPair(p) \subseteq Alarm
      BY DEF Pairs, TypeOK, BothOfPair, Alarm
    <2>3. UNION {BothOfPair(p) : p \in ps} \subseteq Alarm
      BY <2>2
    <2> QED
      BY <1>10, <2>1, <2>3 DEF CheckShadowing, See, TypeOK, RowsMatchAlarms, tables, console,
         expiry, retain
  <1>11. ASSUME NEW r \in Replica, LookUp(r)
         PROVE  TypeInv'
    BY <1>11 DEF LookUp, TypeOK, RowsMatchAlarms, tables, console, expiry, retain
  <1>12. ASSUME NEW r \in Replica, CreateIncident(r)
         PROVE  TypeInv'
    BY <1>12, CreateTypes DEF CreateIncident, TypeOK, console, expiry, retain
  <1>13. ASSUME NEW r \in Replica, FailSweep(r) \/ EndSweep(r)
         PROVE  TypeInv'
    BY <1>13 DEF FailSweep, EndSweep, Rest, TypeOK, RowsMatchAlarms, tables, console, expiry, retain
  <1>14. ASSUME NEW r \in Replica, WakeUp(r)
         PROVE  TypeInv'
    BY <1>14 DEF WakeUp, TypeOK, RowsMatchAlarms, tables, console, expiry, behavior
  <1>15. ASSUME NEW r \in Replica, PurgeDetections(r)
         PROVE  TypeInv'
    BY <1>15 DEF PurgeDetections, TypeOK, RowsMatchAlarms, console, expiry, behavior
  <1>16. ASSUME NEW r \in Replica, SelectTracks(r)
         PROVE  TypeInv'
    BY <1>16 DEF SelectTracks, Purgeable, TypeOK, RowsMatchAlarms, tables, console, expiry, behavior
  <1>17. ASSUME NEW r \in Replica, PurgeTracks(r)
         PROVE  TypeInv'
    BY <1>17, DetachTypes DEF PurgeTracks, TypeOK, console, expiry, behavior
  <1>18. ASSUME NEW r \in Replica, FailPurge(r)
         PROVE  TypeInv'
    BY <1>18 DEF FailPurge, TypeOK, RowsMatchAlarms, tables, console, expiry, behavior
  <1>19. ASSUME NEW r \in Replica, PurgeAudit(r)
         PROVE  TypeInv'
    BY <1>19 DEF PurgeAudit, TypeOK, RowsMatchAlarms, console, expiry, behavior
  <1>20. CASE UNCHANGED vars
    BY <1>20 DEF TypeOK, RowsMatchAlarms, vars, tables, console, expiry, behavior, retain
  <1> QED
    BY <1>1, <1>2, <1>3, <1>4, <1>5, <1>6, <1>7, <1>8, <1>9, <1>10, <1>11, <1>12, <1>13,
       <1>14, <1>15, <1>16, <1>17, <1>18, <1>19, <1>20, <1>21
       DEF Next, TrackStep, BehaviorStep, RetentionStep

\* Every state is well typed: TLC checks it on small instances, the steps above for
\* every value of the constants.  Of the code: a shadowing incident never names its
\* own track, and the pages of ids the loops hold are ids of rows.
THEOREM TypeCorrect == Spec => []TypeOK
  <1>1. TypeInv => TypeOK
    BY DEF TypeInv
  <1> QED
    BY InitTypes, StepTypes, <1>1, PTL DEF Spec

-----------------------------------------------------------------------------
(* The retention sweep. *)

\* Tracks change by expiry and by the purge only.
LEMMA OtherStepsKeepStatus ==
  ASSUME [Next]_vars
  PROVE  \/ \E t \in Track : MarkLost(t) \/ MarkClosed(t)
         \/ \E r \in Replica : PurgeTracks(r)
         \/ UNCHANGED status
  <1>1. CASE TrackStep
    BY <1>1 DEF TrackStep, Report, Age, ListOpen, AutoClose, ReadIncident,
       WriteAcknowledged, WriteResolved, tables
  <1>2. CASE \E r \in Replica : BehaviorStep(r)
    BY <1>2 DEF BehaviorStep, ListActive, CheckShadowing, LookUp, CreateIncident, FailSweep,
       EndSweep, tables
  <1>3. CASE \E r \in Replica : RetentionStep(r)
    BY <1>3 DEF RetentionStep, WakeUp, PurgeDetections, SelectTracks, FailPurge, PurgeAudit, tables
  <1>4. CASE UNCHANGED vars
    BY <1>4 DEF vars, tables
  <1> QED
    BY <1>1, <1>2, <1>3, <1>4 DEF Next

\* No step makes a track active, so what purge_old_tracks has read stays finished.
LEMMA StaysFinished ==
  ASSUME TypeOK, [Next]_vars, NEW t \in Track, status[t] # "active"
  PROVE  status'[t] # "active"
  <1>1. CASE \E u \in Track : MarkLost(u) \/ MarkClosed(u)
    BY <1>1 DEF MarkLost, MarkClosed, TypeOK
  <1>2. CASE \E r \in Replica : PurgeTracks(r)
    BY <1>2 DEF PurgeTracks
  <1>3. CASE UNCHANGED status
    BY <1>3
  <1> QED
    BY <1>1, <1>2, <1>3, OtherStepsKeepStatus

LEMMA StepSelected ==
  ASSUME TypeOK, SelectedAreFinished, [Next]_vars
  PROVE  SelectedAreFinished'
  <1>1. ASSUME NEW r \in Replica, SelectTracks(r)
        PROVE  SelectedAreFinished'
    BY <1>1 DEF SelectTracks, SelectedAreFinished, Purgeable, tables, TypeOK
  <1>2. ASSUME NEW r \in Replica, PurgeTracks(r) \/ FailPurge(r)
        PROVE  SelectedAreFinished'
    <2>1. \A q \in Replica : selected'[q] \subseteq selected[q]
      BY <1>2 DEF PurgeTracks, FailPurge, TypeOK
    <2> QED
      BY <2>1, StaysFinished DEF SelectedAreFinished, TypeOK
  <1>3. CASE selected' = selected
    BY <1>3, StaysFinished DEF SelectedAreFinished, TypeOK
  <1> QED
    BY <1>1, <1>2, <1>3 DEF Next, TrackStep, BehaviorStep, RetentionStep, Report, Age, MarkLost,
       MarkClosed, ListOpen, AutoClose, ReadIncident,
       WriteAcknowledged, WriteResolved, ListActive, CheckShadowing, LookUp,
       CreateIncident, FailSweep, EndSweep, WakeUp, PurgeDetections, PurgeAudit, vars, retain

\* purge_old_tracks never takes an active track, although it deletes by ids it has
\* read before its first write: nothing reopens a finished track in between.
THEOREM ActiveNeverPurged == Spec => ActiveTrackIsNeverPurged
  <1>1. Init => SelectedAreFinished
    BY DEF Init, SelectedAreFinished
  <1>2. ASSUME TypeOK, SelectedAreFinished, [Next]_vars, NEW t \in Track, status[t] = "active"
        PROVE  status'[t] # "purged"
    <2>1. ASSUME NEW r \in Replica, PurgeTracks(r)
          PROVE  status'[t] # "purged"
      BY <1>2, <2>1 DEF PurgeTracks, SelectedAreFinished
    <2>2. CASE \E u \in Track : MarkLost(u) \/ MarkClosed(u)
      BY <1>2, <2>2 DEF MarkLost, MarkClosed, TypeOK
    <2>3. CASE UNCHANGED status
      BY <1>2, <2>3
    <2> QED
      BY <1>2, <2>1, <2>2, <2>3, OtherStepsKeepStatus
  <1>3. TypeOK /\ SelectedAreFinished /\ [Next]_vars
          => [\A t \in Track : status[t] = "active" => status'[t] # "purged"]_vars
    BY <1>2
  <1> QED
    BY <1>1, <1>3, StepSelected, TypeCorrect, PTL DEF Spec, ActiveTrackIsNeverPurged

-----------------------------------------------------------------------------
(* The behavior sweep of a single server process. *)

\* The lookup finds an unresolved incident opened for the alarm and still on a track.
LEMMA OpenMeansRaised ==
  ASSUME TypeInv, NEW a \in Alarm, NEW i \in Raised, incident[i].alarm = a
  PROVE  HasOpen(a)
  <1>1. i \in Unresolved /\ i \in DOMAIN incident /\ incident[i].track # None
    BY DEF Raised, Unresolved
  <1>2. incident[i].track = a.track /\ incident[i].related = a.related
    BY <1>1 DEF TypeInv, RowsMatchAlarms
  <1> QED
    BY <1>1, <1>2 DEF HasOpen, OpenFor

\* But for the insert of a new one, no step adds to them or renames their alarm.
LEMMA OnlyCreateRaises ==
  ASSUME TypeInv, [Next]_vars, \A r \in Replica : ~CreateIncident(r)
  PROVE  /\ Raised' \subseteq Raised
         /\ \A i \in Raised' : incident'[i].alarm = incident[i].alarm
  <1> USE DEF TypeInv
  <1>0. \A i \in DOMAIN incident : incident[i] \in IncidentRow
    BY DEF TypeOK
  <1>1. ASSUME NEW i \in DOMAIN incident, Settle(i), reopened' = reopened
        PROVE  /\ Raised' \subseteq Raised
               /\ \A j \in Raised' : incident'[j].alarm = incident[j].alarm
    BY <1>0, <1>1, SettleTypes DEF Raised, Unresolved, IncidentRow
  <1>2. CASE \E o \in Operator : WriteAcknowledged(o)
    <2>1. PICK o \in Operator : WriteAcknowledged(o)
      BY <1>2
    <2> DEFINE i == form[o].id
    <2>2. reopened' = reopened \cup ({i} \ Unresolved)
      BY <2>1 DEF WriteAcknowledged
    <2>3. /\ DOMAIN incident' = DOMAIN incident /\ i \in DOMAIN incident
          /\ \A j \in DOMAIN incident : incident'[j] =
               IF j = i THEN [incident[i] EXCEPT !.status = "acknowledged"] ELSE incident[j]
      BY <2>1, AcknowledgeTypes
    <2> QED
      BY <1>0, <2>2, <2>3 DEF Raised, Unresolved, IncidentRow
  <1>3. CASE \E r \in Replica : PurgeTracks(r)
    <2>1. PICK gone : incident' = [i \in DOMAIN incident |-> Detached(i, gone)]
      BY <1>3 DEF PurgeTracks
    <2>2. reopened' = reopened
      BY <1>3 DEF PurgeTracks, console
    <2> QED
      BY <1>0, <2>1, <2>2, DetachTypes DEF Raised, Unresolved, IncidentRow, Detached
  <1>4. CASE incident' = incident /\ reopened' = reopened
    BY <1>4 DEF Raised, Unresolved
  <1>5. ASSUME NEW i \in DOMAIN incident, AutoClose(i)
        PROVE  /\ Raised' \subseteq Raised
               /\ \A j \in Raised' : incident'[j].alarm = incident[j].alarm
    BY <1>1, <1>5 DEF AutoClose, console
  <1>6. ASSUME NEW o \in Operator, WriteResolved(o)
        PROVE  /\ Raised' \subseteq Raised
               /\ \A j \in Raised' : incident'[j].alarm = incident[j].alarm
    <2>1. Settle(form[o].id) /\ form[o].id \in DOMAIN incident /\ reopened' = reopened
      BY <1>6, FormNamesIncident DEF WriteResolved
    <2> QED
      BY <1>1, <2>1
  <1> QED
    BY <1>2, <1>3, <1>4, <1>5, <1>6 DEF Next, TrackStep, ReadIncident, console, BehaviorStep,
       RetentionStep, Report, Age, MarkLost, MarkClosed, ListOpen, ListActive, CheckShadowing,
       LookUp, FailSweep, EndSweep, WakeUp, PurgeDetections, SelectTracks, FailPurge, PurgeAudit,
       vars, tables

\* Candidates come from the lookup only.
LEMMA OthersKeepCandidates ==
  ASSUME TypeOK, [Next]_vars, \A q \in Replica : ~LookUp(q)
  PROVE  \A q \in Replica : cand'[q] \in {None, cand[q]}
  <1>1. CASE TrackStep
    BY <1>1 DEF TrackStep, Report, Age, MarkLost, MarkClosed, ListOpen, AutoClose, ReadIncident,
       WriteAcknowledged, WriteResolved, behavior
  <1>2. CASE \E r \in Replica : BehaviorStep(r)
    BY <1>2 DEF BehaviorStep, ListActive, CheckShadowing, CreateIncident, FailSweep, EndSweep,
       Rest, TypeOK
  <1>3. CASE \E r \in Replica : RetentionStep(r)
    BY <1>3 DEF RetentionStep, WakeUp, PurgeDetections, SelectTracks, PurgeTracks, FailPurge,
       PurgeAudit, behavior
  <1>4. CASE UNCHANGED vars
    BY <1>4 DEF vars, behavior
  <1> QED
    BY <1>1, <1>2, <1>3, <1>4 DEF Next

\* The invariant of one sweep: one incident per alarm, and what is about to be
\* inserted is still missing.
Dedup == TypeInv /\ OneOpenIncidentPerBehavior /\ CandidateIsNew

LEMMA StepDedup ==
  ASSUME OneReplica, Dedup, [Next]_vars
  PROVE  Dedup'
  <1> USE DEF Dedup
  <1>1. TypeInv'
    BY StepTypes
  <1>2. ASSUME NEW r \in Replica, CreateIncident(r)
        PROVE  OneOpenIncidentPerBehavior' /\ CandidateIsNew'
    <2> DEFINE n == Len(incident) + 1
    <2>1. /\ DOMAIN incident' = DOMAIN incident \cup {n} /\ n \notin DOMAIN incident
          /\ \A j \in DOMAIN incident : incident'[j] = incident[j]
          /\ incident'[n].alarm = cand[r] /\ cand[r] \in Alarm
      <3>1. incident'[n] = [alarm |-> cand[r], status |-> "open", track |-> cand[r].track,
                            related |-> cand[r].related]
        BY <1>2, CreateTypes
      <3>2. /\ DOMAIN incident' = DOMAIN incident \cup {n} /\ n \notin DOMAIN incident
            /\ \A j \in DOMAIN incident : incident'[j] = incident[j]
            /\ cand[r] \in Alarm
        BY <1>2, CreateTypes
      <3> QED
        BY <3>1, <3>2
    <2>2. \A i \in Raised : incident[i].alarm # cand[r]
      BY <1>2 DEF CandidateIsNew, CreateIncident
    <2> HIDE DEF n
    <2>3. Raised' \subseteq Raised \cup {n}
      <3>1. reopened' = reopened
        BY <1>2 DEF CreateIncident, console
      <3> QED
        BY <2>1, <3>1 DEF Raised, Unresolved
    <2>4. Raised \subseteq DOMAIN incident
      BY DEF Raised, Unresolved
    <2>5. OneOpenIncidentPerBehavior'
      <3> SUFFICES ASSUME NEW i \in Raised', NEW j \in Raised',
                          incident'[i].alarm = incident'[j].alarm
                   PROVE  i = j
        BY DEF OneOpenIncidentPerBehavior, Raised
      <3>1. \A k, l \in Raised : incident[k].alarm = incident[l].alarm => k = l
        BY DEF OneOpenIncidentPerBehavior, Raised
      <3> QED
        BY <2>1, <2>2, <2>3, <2>4, <3>1
    <2>6. \A q \in Replica : cand'[q] = None
      BY <1>2 DEF CreateIncident, OneReplica, TypeInv, TypeOK
    <2> QED
      BY <2>5, <2>6 DEF CandidateIsNew
  <1>3. CASE \A r \in Replica : ~CreateIncident(r)
    <2>1. /\ Raised' \subseteq Raised
          /\ \A i \in Raised' : incident'[i].alarm = incident[i].alarm
      BY <1>3, OnlyCreateRaises
    <2>2. OneOpenIncidentPerBehavior'
      <3> SUFFICES ASSUME NEW i \in Raised', NEW j \in Raised',
                          incident'[i].alarm = incident'[j].alarm
                   PROVE  i = j
        BY DEF OneOpenIncidentPerBehavior, Raised
      <3> QED
        BY <2>1 DEF OneOpenIncidentPerBehavior, Raised
    <2>3. ASSUME NEW r \in Replica, cand'[r] # None, NEW i \in Raised
          PROVE  incident[i].alarm # cand'[r]
      <3>1. CASE \E q \in Replica : LookUp(q)
        <4>1. PICK q \in Replica : LookUp(q)
          BY <3>1
        <4>2. PICK a \in todo[q] :
                cand' = IF HasOpen(a) THEN cand ELSE [cand EXCEPT ![q] = a]
          BY <4>1 DEF LookUp
        <4>3. a \in Alarm
          BY <4>2 DEF TypeInv, TypeOK
        <4>4. CASE HasOpen(a)
          BY <2>3, <4>2, <4>4 DEF CandidateIsNew
        <4>5. CASE ~HasOpen(a)
          <5>1. incident[i].alarm # a
            BY <4>3, <4>5, OpenMeansRaised
          <5>2. cand'[r] \in {a, cand[r]}
            BY <4>2, <4>5 DEF TypeInv, TypeOK
          <5> QED
            BY <2>3, <5>1, <5>2 DEF CandidateIsNew
        <4> QED
          BY <4>4, <4>5
      <3>2. CASE \A q \in Replica : ~LookUp(q)
        <4>1. cand'[r] \in {None, cand[r]}
          BY <3>2, OthersKeepCandidates DEF TypeInv
        <4> QED
          BY <2>3, <4>1 DEF CandidateIsNew
      <3> QED
        BY <3>1, <3>2
    <2>4. ASSUME NEW r \in Replica, cand'[r] # None, NEW i \in Raised'
          PROVE  incident'[i].alarm # cand'[r]
      <3>1. i \in Raised /\ incident'[i].alarm = incident[i].alarm
        BY <2>1
      <3> QED
        BY <2>3, <2>4, <3>1
    <2>5. CandidateIsNew'
      BY <2>4 DEF CandidateIsNew
    <2> QED
      BY <1>1, <2>2, <2>5 DEF Dedup
  <1> QED
    BY <1>1, <1>2, <1>3 DEF Dedup

\* With one server process a track never has two unresolved incidents of one
\* behavior (of one pair, for shadowing), although _open_behavioral_incident looks
\* up and inserts in two transactions: the sweep is the only one to insert.  Those
\* that an acknowledgement, written after the incident was resolved, has revived
\* are left out: acknowledge_incident writes the row whatever has become of it.
THEOREM OneIncidentPerBehavior ==
  ASSUME OneReplica
  PROVE  Spec => []OneOpenIncidentPerBehavior
  <1>1. Init => Dedup
    BY InitTypes DEF Init, Dedup, OneOpenIncidentPerBehavior, CandidateIsNew, Unresolved
  <1>2. Dedup /\ [Next]_vars => Dedup'
    BY StepDedup
  <1>3. Dedup => OneOpenIncidentPerBehavior
    BY DEF Dedup
  <1> QED
    BY <1>1, <1>2, <1>3, PTL DEF Spec

-----------------------------------------------------------------------------
(* What a sweep has seen. *)

\* What a sweep has seen and nobody has resolved is still to be looked up, about
\* to be inserted, or has an unresolved incident of its own.
SeenIsPending ==
  \A r \in Replica : \A a \in found[r] :
    \/ a \in todo[r]
    \/ a = cand[r]
    \/ \E i \in Unresolved : incident[i].alarm = a

\* A sleeping sweep has nothing left over.
RestIsClean == \A r \in Replica : phase[r] = "asleep" => found[r] = {}

\* The lookup finds an incident of this very alarm, not of another pair.
LEMMA OpenIsOfTheAlarm ==
  ASSUME TypeInv, NEW a \in Alarm, HasOpen(a)
  PROVE  \E i \in Unresolved : incident[i].alarm = a
  <1>1. PICK i \in Unresolved : /\ incident[i].track = a.track
                                /\ incident[i].alarm.type = a.type
                                /\ incident[i].related = a.related
    BY DEF HasOpen, OpenFor
  <1>2. i \in DOMAIN incident
    BY DEF Unresolved
  <1>3. incident[i] \in IncidentRow
    BY <1>2 DEF TypeInv, TypeOK
  <1>4. incident[i].alarm \in Alarm
    BY <1>3 DEF IncidentRow
  <1>5. incident[i].alarm.track = a.track /\ incident[i].alarm.related = a.related
    BY <1>1, <1>2, AlarmFields, NamesAssumption DEF TypeInv, RowsMatchAlarms
  <1> QED
    BY <1>1, <1>4, <1>5, AlarmFields

\* Unresolved incidents are resolved by Settle only, and keep their alarm.
LEMMA OnlySettleResolves ==
  ASSUME TypeInv, [Next]_vars, \A i \in DOMAIN incident : ~Settle(i)
  PROVE  \A i \in Unresolved : i \in Unresolved' /\ incident'[i].alarm = incident[i].alarm
  <1> USE DEF TypeInv
  <1>0. \A i \in DOMAIN incident : incident[i] \in IncidentRow
    BY DEF TypeOK
  <1>1. CASE \E o \in Operator : WriteAcknowledged(o)
    <2>1. PICK o \in Operator : WriteAcknowledged(o)
      BY <1>1
    <2> DEFINE i == form[o].id
    <2>2. /\ DOMAIN incident' = DOMAIN incident
          /\ \A j \in DOMAIN incident : incident'[j] =
               IF j = i THEN [incident[i] EXCEPT !.status = "acknowledged"] ELSE incident[j]
      BY <2>1, AcknowledgeTypes
    <2> QED
      BY <1>0, <2>2 DEF Unresolved, IncidentRow
  <1>2. CASE \E r \in Replica : PurgeTracks(r)
    <2>1. PICK gone : incident' = [i \in DOMAIN incident |-> Detached(i, gone)]
      BY <1>2 DEF PurgeTracks
    <2> QED
      BY <1>0, <2>1, DetachTypes DEF Unresolved, IncidentRow, Detached
  <1>3. CASE \E r \in Replica : CreateIncident(r)
    <2>1. PICK r \in Replica : CreateIncident(r)
      BY <1>3
    <2>2. /\ DOMAIN incident \subseteq DOMAIN incident'
          /\ \A j \in DOMAIN incident : incident'[j] = incident[j]
      BY <2>1, CreateTypes
    <2> QED
      BY <2>2 DEF Unresolved
  <1>4. CASE incident' = incident
    BY <1>4 DEF Unresolved
  <1>5. ASSUME NEW o \in Operator
        PROVE  ~WriteResolved(o)
    BY FormNamesIncident DEF WriteResolved
  <1> QED
    BY <1>1, <1>2, <1>3, <1>4, <1>5 DEF Next, TrackStep, BehaviorStep, RetentionStep, Report, Age,
       MarkLost, MarkClosed, ListOpen, AutoClose, ReadIncident, ListActive, CheckShadowing, LookUp,
       FailSweep, EndSweep, WakeUp, PurgeDetections, SelectTracks, FailPurge, PurgeAudit, vars,
       tables

\* Steps outside the sweeps leave what they have to do alone.
LEMMA OthersKeepSweeps ==
  ASSUME TypeOK, [Next]_vars, \A r \in Replica : ~BehaviorStep(r)
  PROVE  /\ todo' = todo /\ cand' = cand
         /\ found' = found \/ \E i \in DOMAIN incident : Settle(i)
  <1>0. ASSUME NEW o \in Operator, WriteResolved(o)
        PROVE  todo' = todo /\ cand' = cand /\ \E i \in DOMAIN incident : Settle(i)
    BY <1>0, FormNamesIncident DEF WriteResolved
  <1>1. CASE TrackStep
    BY <1>0, <1>1 DEF TrackStep, Report, Age, MarkLost, MarkClosed, ListOpen, AutoClose,
       ReadIncident, WriteAcknowledged, behavior
  <1>2. CASE \E r \in Replica : RetentionStep(r)
    BY <1>2 DEF RetentionStep, WakeUp, PurgeDetections, SelectTracks, PurgeTracks, FailPurge,
       PurgeAudit, behavior
  <1>3. CASE UNCHANGED vars
    BY <1>3 DEF vars, behavior
  <1> QED
    BY <1>1, <1>2, <1>3 DEF Next

LEMMA StepSeen ==
  ASSUME TypeInv, SeenIsPending, RestIsClean, [Next]_vars
  PROVE  SeenIsPending'
  <1> USE DEF TypeInv
  <1>1. ASSUME NEW i \in DOMAIN incident, Settle(i), \A r \in Replica : ~BehaviorStep(r)
        PROVE  SeenIsPending'
    <2>1. todo' = todo /\ cand' = cand
      BY <1>1, OthersKeepSweeps
    <2>2. \A r \in Replica : found'[r] = found[r] \ {incident[i].alarm}
      BY <1>1 DEF Settle
    <2>3. \A j \in Unresolved \ {i} : j \in Unresolved' /\ incident'[j].alarm = incident[j].alarm
      BY <1>1, SettleTypes DEF Unresolved
    <2>4. \A r \in Replica : \A a \in found'[r] :
             (\E j \in Unresolved : incident[j].alarm = a)
               => \E j \in Unresolved' : incident'[j].alarm = a
      BY <2>2, <2>3
    <2> QED
      BY <2>1, <2>2, <2>4 DEF SeenIsPending
  <1>2. ASSUME \A i \in DOMAIN incident : ~Settle(i)
        PROVE  \A a \in Alarm : (\E j \in Unresolved : incident[j].alarm = a)
                                 => \E j \in Unresolved' : incident'[j].alarm = a
    BY <1>2, OnlySettleResolves
  <1>3. ASSUME \A r \in Replica : ~BehaviorStep(r), \A i \in DOMAIN incident : ~Settle(i)
        PROVE  SeenIsPending'
    <2>1. todo' = todo /\ cand' = cand /\ found' = found
      BY <1>3, OthersKeepSweeps
    <2>2. \A r \in Replica : found[r] \subseteq Alarm
      BY DEF TypeOK
    <2> QED
      BY <1>2, <1>3, <2>1, <2>2 DEF SeenIsPending
  <1>4. ASSUME NEW r \in Replica, ListActive(r) \/ CheckShadowing(r)
        PROVE  SeenIsPending'
    <2>1. PICK alarms : See(r, alarms)
      BY <1>4 DEF ListActive, CheckShadowing
    <2>2. incident' = incident /\ cand' = cand
      BY <1>4 DEF ListActive, CheckShadowing, tables
    <2>3. todo'[r] = alarms /\ found'[r] = found[r] \cup alarms
      BY <2>1 DEF See, TypeOK
    <2>4. \A q \in Replica \ {r} : todo'[q] = todo[q] /\ found'[q] = found[q]
      BY <2>1 DEF See, TypeOK
    <2>5. todo[r] = {} \/ found[r] = {}
      BY <1>4 DEF ListActive, CheckShadowing, RestIsClean
    <2>6. Unresolved' = Unresolved
      BY <2>2 DEF Unresolved
    <2> QED
      BY <2>2, <2>3, <2>4, <2>5, <2>6 DEF SeenIsPending
  <1>5. ASSUME NEW r \in Replica, LookUp(r)
        PROVE  SeenIsPending'
    <2>1. PICK a \in todo[r] :
            /\ todo' = [todo EXCEPT ![r] = @ \ {a}]
            /\ cand' = IF HasOpen(a) THEN cand ELSE [cand EXCEPT ![r] = a]
      BY <1>5 DEF LookUp
    <2>2. cand[r] = None /\ found' = found /\ Unresolved' = Unresolved /\ incident' = incident
      BY <1>5 DEF LookUp, tables, Unresolved
    <2>3. a \in Alarm /\ found[r] \subseteq Alarm
      BY <2>1 DEF TypeOK
    <2>4. \A q \in Replica \ {r} : todo'[q] = todo[q] /\ cand'[q] = cand[q]
      BY <2>1 DEF TypeOK
    <2>5. todo'[r] = todo[r] \ {a}
      BY <2>1 DEF TypeOK
    <2>6. HasOpen(a) => \E i \in Unresolved : incident[i].alarm = a
      BY <2>3, OpenIsOfTheAlarm
    <2>7. ~HasOpen(a) => cand'[r] = a
      BY <2>1 DEF TypeOK
    <2>8. \A b \in found[r] : b # None
      BY <2>3, NamesAssumption
    <2> QED
      BY <2>2, <2>4, <2>5, <2>6, <2>7, <2>8 DEF SeenIsPending
  <1>6. ASSUME NEW r \in Replica, CreateIncident(r)
        PROVE  SeenIsPending'
    <2>1. todo' = todo /\ found' = found /\ cand' = [cand EXCEPT ![r] = None]
      BY <1>6 DEF CreateIncident
    <2>2. /\ DOMAIN incident' = DOMAIN incident \cup {Len(incident) + 1}
          /\ \A j \in DOMAIN incident : incident'[j] = incident[j]
          /\ Len(incident) + 1 \notin DOMAIN incident
      BY <1>6, CreateTypes
    <2>3. incident'[Len(incident) + 1] =
            [alarm |-> cand[r], status |-> "open", track |-> cand[r].track,
             related |-> cand[r].related]
      BY <1>6, CreateTypes
    <2>4. \E i \in Unresolved' : incident'[i].alarm = cand[r]
      BY <2>2, <2>3 DEF Unresolved
    <2>5. \A i \in Unresolved : i \in Unresolved' /\ incident'[i].alarm = incident[i].alarm
      BY <2>2 DEF Unresolved
    <2>6. \A q \in Replica \ {r} : cand'[q] = cand[q]
      BY <2>1 DEF TypeOK
    <2> QED
      BY <2>1, <2>4, <2>5, <2>6 DEF SeenIsPending
  <1>7. ASSUME NEW r \in Replica, FailSweep(r) \/ EndSweep(r)
        PROVE  SeenIsPending'
    <2>1. Rest(r) /\ incident' = incident
      BY <1>7 DEF FailSweep, EndSweep, tables
    <2>2. /\ found'[r] = {}
          /\ \A q \in Replica \ {r} : /\ todo'[q] = todo[q] /\ cand'[q] = cand[q]
                                      /\ found'[q] = found[q]
      BY <2>1 DEF Rest, TypeOK
    <2> QED
      BY <2>1, <2>2 DEF SeenIsPending, Unresolved
  <1> QED
    BY <1>1, <1>3, <1>4, <1>5, <1>6, <1>7 DEF BehaviorStep

LEMMA StepRest ==
  ASSUME TypeOK, RestIsClean, [Next]_vars
  PROVE  RestIsClean'
  <1>1. ASSUME NEW r \in Replica, BehaviorStep(r)
        PROVE  RestIsClean'
    BY <1>1 DEF BehaviorStep, ListActive, CheckShadowing, LookUp, CreateIncident, FailSweep,
       EndSweep, Rest, See, RestIsClean, TypeOK
  <1>5. ASSUME NEW o \in Operator, WriteResolved(o)
        PROVE  RestIsClean'
    BY <1>5 DEF WriteResolved, Settle, RestIsClean
  <1>6. ASSUME NEW i \in DOMAIN incident, AutoClose(i)
        PROVE  RestIsClean'
    BY <1>6 DEF AutoClose, Settle, RestIsClean
  <1>2. CASE TrackStep
    BY <1>2, <1>5, <1>6 DEF TrackStep, Report, Age, MarkLost, MarkClosed, ListOpen,
       ReadIncident, WriteAcknowledged, behavior, RestIsClean
  <1>3. CASE \E r \in Replica : RetentionStep(r)
    BY <1>3 DEF RetentionStep, WakeUp, PurgeDetections, SelectTracks, PurgeTracks, FailPurge,
       PurgeAudit, behavior, RestIsClean
  <1>4. CASE UNCHANGED vars
    BY <1>4 DEF vars, behavior, RestIsClean
  <1> QED
    BY <1>1, <1>2, <1>3, <1>4 DEF Next

\* A sweep that ends leaves an unresolved incident for every alarm it has seen that
\* nobody resolved meanwhile, whatever pairs the tracks are in and whatever other
\* replicas, operators and purges do: the dedup lookup tells the pairs apart.
THEOREM EverythingRaised == Spec => EverythingSeenIsRaised
  <1> DEFINE Seen == TypeInv /\ SeenIsPending /\ RestIsClean
  <1>1. Init => Seen
    BY InitTypes DEF Init, SeenIsPending, RestIsClean
  <1>2. Seen /\ [Next]_vars => Seen'
    BY StepTypes, StepSeen, StepRest DEF TypeInv
  <1>3. ASSUME Seen, NEW r \in Replica, EndSweep(r), NEW a \in found[r]
        PROVE  \E i \in Unresolved : incident[i].alarm = a
    <2>1. todo[r] = {} /\ cand[r] = None
      BY <1>3 DEF EndSweep
    <2>2. a # None
      BY <1>3, NamesAssumption DEF TypeInv, TypeOK
    <2> QED
      BY <1>3, <2>1, <2>2 DEF SeenIsPending
  <1>4. Seen => [\A r \in Replica : EndSweep(r) =>
                   \A a \in found[r] : \E i \in Unresolved : incident[i].alarm = a]_vars
    BY <1>3
  <1> QED
    BY <1>1, <1>2, <1>4, PTL DEF Spec, EverythingSeenIsRaised
=============================================================================
