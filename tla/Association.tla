----------------------------- MODULE Association -----------------------------
(***************************************************************************)
(* What associate_detection promises while it holds the association lock   *)
(* (app/tracking.py, "create duplicates" of _association_lock): a request  *)
(* expires the quiet tracks in one step and records its detection in       *)
(* another, against a track that fits it or, where none does, a new one,   *)
(* with nobody else's detection in between; and a label moves one way.     *)
(***************************************************************************)
EXTENDS Integers

CONSTANTS
  Track, Object, Worker,
  Time,          \* what timestamps may be
  Label,         \* what a track may be taken for
  Stale, Drop,   \* the ages at which a track is lost, and closed
  Gate,          \* how far in time a detection may be from the track it fits
  None

VARIABLES
  picture,       \* the tracks of the site
  filtered,      \* the tracks that can be matched
  evidence,      \* the times of the detections recorded against each track
  served,        \* the detection each request serves, or None
  stage,         \* how far it is
  chosen         \* the track it recorded its detection against, or None

AssociationVars == <<picture, filtered, evidence, served, stage, chosen>>

AssociationInit ==
  /\ picture = [t \in Track |-> None]
  /\ filtered = {}
  /\ evidence = [t \in Track |-> {}]
  /\ served = [w \in Worker |-> None]
  /\ stage = [w \in Worker |-> "free"]
  /\ chosen = [w \in Worker |-> None]

Report(w) ==
  /\ stage[w] = "free" /\ stage' = [stage EXCEPT ![w] = "waiting"]
  /\ \E d \in [object : Object, ts : Time, located : BOOLEAN] : served' = [served EXCEPT ![w] = d]
  /\ UNCHANGED <<picture, filtered, evidence, chosen>>

Lapsed(row, ts) ==
  IF row.status = "active" /\ ts - row.lastSeen > Stale THEN [row EXCEPT !.status = "lost"] ELSE row

\* What becomes of a row as of a time: a track lost just now may be closed too.
Aged(row, ts) ==
  LET lapsed == Lapsed(row, ts) IN
  IF lapsed.status = "lost" /\ ts - row.lastSeen > Drop THEN [lapsed EXCEPT !.status = "closed"] ELSE lapsed

Expired(ts) == [t \in Track |-> IF picture[t] = None THEN None ELSE Aged(picture[t], ts)]

\* All quiet tracks expire at once, while no other request is half way.
Expire(w) ==
  /\ stage[w] = "waiting" /\ \A v \in Worker : stage[v] \in {"free", "waiting"}
  /\ stage' = [stage EXCEPT ![w] = "expired"]
  /\ picture' = Expired(served[w].ts)
  /\ UNCHANGED <<filtered, evidence, served, chosen>>

Fitting(d) ==
  {t \in filtered : /\ picture[t] # None
                    /\ picture[t].status = "active"
                    /\ picture[t].object = d.object
                    /\ d.located /\ d.ts - picture[t].lastSeen \in (-Gate)..Gate}

NewTrack(d) ==
  [status |-> "active", lastSeen |-> d.ts, label |-> "unknown", object |-> d.object]

\* The row, the filter and the detection in one step.
Record(w, t) ==
  LET d == served[w] IN
  /\ stage[w] = "expired" /\ stage' = [stage EXCEPT ![w] = "recorded"]
  /\ \/ t \in Fitting(d) /\ picture' = [picture EXCEPT ![t].lastSeen = d.ts]
     \/ Fitting(d) = {} /\ picture[t] = None /\ picture' = [picture EXCEPT ![t] = NewTrack(d)]
  /\ filtered' = IF d.located THEN filtered \cup {t} ELSE filtered
  /\ evidence' = [evidence EXCEPT ![t] = @ \cup {d.ts}]
  /\ chosen' = [chosen EXCEPT ![w] = t]
  /\ UNCHANGED served

MayBecome(before, after) ==
  after = before \/ before = "unknown" \/ (after = "drone" /\ before # "aircraft")

Relabel(w) ==
  /\ stage[w] = "recorded" /\ stage' = [stage EXCEPT ![w] = "free"]
  /\ \E l \in Label :
       /\ MayBecome(picture[chosen[w]].label, l)
       /\ picture' = [picture EXCEPT ![chosen[w]].label = l]
  /\ served' = [served EXCEPT ![w] = None]
  /\ chosen' = [chosen EXCEPT ![w] = None]
  /\ UNCHANGED <<filtered, evidence>>

AssociationNext ==
  \E w \in Worker : Report(w) \/ Expire(w) \/ (\E t \in Track : Record(w, t)) \/ Relabel(w)

AssociationSpec == AssociationInit /\ [][AssociationNext]_AssociationVars
=============================================================================
