\* Duplicate tracks: two requests, a dashboard and a crash, no incidents.
CONSTANTS
  Track = {t1, t2, t3}
  Object = {o1}
  Zone = {}
  Votes = {"unknown"}
  Fixes = {TRUE, FALSE}
  Loiters = {FALSE}
  IncidentId = {}
  Worker = {w1, w2}
  Reader = {r1}
  Operator = {}
  Stale = 1
  Drop = 1
  Gate = 1
  Skew = 1
  MaxLate = 1
  MaxTime = 2
  MaxCrashes = 1
  None = None
SPECIFICATION Spec
INVARIANTS OneActiveTrackPerObject
SYMMETRY Symmetry
CHECK_DEADLOCK FALSE
