-------------------------------- MODULE Paging --------------------------------
(***************************************************************************)
(* The listings that are read page by page (LIMIT and OFFSET in app/db.py) *)
(* while their tables change: the audit log and the incidents, newest      *)
(* first (app/api/audit_log.py, app/api/incidents.py), and the detections  *)
(* of a time window, oldest first (app/api/detections.py), which           *)
(* scripts/replay_detections.py records.                                   *)
(*                                                                         *)
(* A row is told by its time, which never changes.  Rows of the logs are   *)
(* stamped when they are inserted; a detection bears its sensor's time, up *)
(* to a skew away from the server's.  The retention loop deletes what is   *)
(* older than its cutoff, of detections and the audit log.                 *)
(***************************************************************************)
EXTENDS Integers, SequencesExt, FiniteSetsExt

CONSTANTS
  PageSize,      \* limit
  Lateness,      \* MAX_DETECTION_CLOCK_SKEW_SECONDS
  Retained,      \* the retention time
  MaxAt, MaxRows \* bounds on the clock and the rows ever inserted

ASSUME PagingAssumption ==
  /\ PageSize \in Nat \ {0}
  /\ {Lateness, Retained, MaxAt, MaxRows} \subseteq Nat

VARIABLES
  at,            \* utcnow()
  rows,          \* the table: [time, id], ids in the order of insertion
  inserted,      \* rows ever inserted
  listing,       \* which listing is read
  window,        \* start and end of a recording
  pages,         \* what the reader has got, in one sequence; the next offset
  offset,        \* is its own count
  reading,       \* "no", "yes" or "done"
  initially      \* history: the rows when the reader began

PagingVars == <<at, rows, inserted, listing, window, pages, offset, reading, initially>>

PagedRow == [time : Int, id : Nat]

PagingTypeOK ==
  /\ at \in 0..MaxAt /\ inserted \in 0..MaxRows
  /\ rows \subseteq PagedRow /\ initially \subseteq PagedRow
  /\ listing \in {"log", "detections"}
  /\ window.start \in Nat /\ window.end \in Nat
  /\ \A i \in DOMAIN pages : pages[i] \in PagedRow
  /\ offset \in Nat /\ reading \in {"no", "yes", "done"}

PagingInit ==
  /\ at = 0 /\ rows = {} /\ inserted = 0
  /\ listing \in {"log", "detections"}
  /\ window \in {w \in [start : 0..MaxAt, end : 0..MaxAt] : w.start < w.end}
  /\ listing = "log" => window = [start |-> 0, end |-> 1]  \* it has none
  /\ pages = <<>> /\ offset = 0
  /\ reading = "no"
  /\ initially = {}

-----------------------------------------------------------------------------
PagingTick ==
  /\ at < MaxAt /\ at' = at + 1
  /\ UNCHANGED <<rows, inserted, listing, window, pages, offset, reading, initially>>

\* record_audit and create_incident, stamped with utcnow(); or create_detection
\* of a detection that _check_clock_skew lets through.
Insert ==
  /\ inserted < MaxRows /\ inserted' = inserted + 1
  /\ \E t \in IF listing = "log" THEN {at} ELSE at - Lateness .. at + Lateness :
       /\ t >= 0 /\ rows' = rows \cup {[time |-> t, id |-> inserted]}
  /\ UNCHANGED <<at, listing, window, pages, offset, reading, initially>>

\* purge_old_audit_log, purge_old_detections
Purge ==
  /\ \E r \in rows : r.time < at - Retained
  /\ rows' = {r \in rows : r.time >= at - Retained}
  /\ UNCHANGED <<at, inserted, listing, window, pages, offset, reading, initially>>

\* WHERE timestamp >= start AND timestamp < end
InWindow(r) == listing = "log" \/ (window.start <= r.time /\ r.time < window.end)

\* A bug: the log is listed oldest first.
OldestFirst(x, y) == x.time < y.time

\* ORDER BY occurred_at DESC, opened_at DESC; ORDER BY timestamp.  Nothing breaks
\* a tie: of two rows of one time either may come first, and on the next page
\* the other.
Ahead(x, y) == IF listing = "log" THEN x.time > y.time ELSE x.time < y.time

RowsAhead(S, r) == Cardinality({q \in S : Ahead(q, r)})

RowsUpTo(S, r) == Cardinality({q \in S : ~Ahead(r, q)})

\* r may be the i-th of S: after every row ahead of it, and among its ties.
InPlace(S, i, r) == RowsAhead(S, r) < i /\ i <= RowsUpTo(S, r)

Listed == {r \in rows : InWindow(r)}

\* What LIMIT PageSize OFFSET offset may return, in one statement: as many rows
\* as there are, no row twice.
NextPages ==
  {page \in BoundedSeq(Listed, PageSize) :
     /\ Len(page) = PageSize \/ offset + Len(page) >= Cardinality(Listed)
     /\ \A i \in DOMAIN page : InPlace(Listed, offset + i, page[i])
     /\ IsInjective(page)}

\* A page is full, so the next begins where it ended.
Advance(page) == offset + Len(page)

\* fetch_detections, or a client that pages through a log: until a page is short.
ReadPage ==
  /\ reading # "done"
  /\ initially' = IF reading = "no" THEN rows ELSE initially
  /\ \E page \in NextPages :
       /\ pages' = pages \o page
       /\ offset' = Advance(page)
       /\ reading' = IF Len(page) < PageSize THEN "done" ELSE "yes"
  /\ UNCHANGED <<at, rows, inserted, listing, window>>

PagingNext == PagingTick \/ Insert \/ Purge \/ ReadPage

PagingSpec == PagingInit /\ [][PagingNext]_PagingVars

-----------------------------------------------------------------------------
\* The reader got one and the same row of time t twice.
TwiceAt(t) == \E i, j \in DOMAIN pages : i # j /\ pages[i] = pages[j] /\ pages[i].time = t

\* A reader of the audit log, or of all incidents, gets every entry that was
\* there when it began and still is, though entries are added and purged
\* between its pages; one that it misses was stamped at the very time of
\* another, which it got twice.
NothingMissed ==
  reading = "done" /\ listing = "log" =>
    \A r \in initially \cap rows : r \in ToSet(pages) \/ TwiceAt(r.time)

InRecording(r) == window.start <= r.time /\ r.time < window.end

\* The recording of a window that is over when the recording begins, by more
\* than the clocks may differ, and that no purge reaches until it ends.
RecordedInPeace ==
  /\ reading = "done" /\ listing = "detections" /\ window.start >= at - Retained
  /\ \A r \in rows \ initially : r.time >= window.end

\* Such a recording has as many detections as the window, at every place one
\* that belongs there ("in original chronological order").  Where several bear
\* one time, as the plots of a batch do, and a page ends among them, one may
\* come twice and another not at all.
RecordedInPlace ==
  RecordedInPeace =>
    LET recorded == {r \in rows : InRecording(r)} IN
    /\ Len(pages) = Cardinality(recorded)
    /\ \A i \in DOMAIN pages : pages[i] \in recorded /\ InPlace(recorded, i, pages[i])

PagesAreComplete == NothingMissed /\ RecordedInPlace

\* What the script says of its recording: "save them to a JSONL file, one
\* detection per line".  No invariant of PagingSpec: ties.
EveryDetectionRecorded == RecordedInPeace => {r \in rows : InRecording(r)} \subseteq ToSet(pages)
=============================================================================
