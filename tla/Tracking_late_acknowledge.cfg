CONSTANTS
  Track = {t1, t2}
  Object = {o1}
  Zone = {z1}
  Votes = {"unknown"}
  Fixes = {TRUE}
  Loiters = {FALSE}
  IncidentId = {i1, i2}
  Worker = {w1}
  Reader = {}
  Operator = {p1}
  Stale = 1
  Drop = 2
  Gate = 1
  Skew = 1
  MaxLate = 1
  MaxTime = 1
  MaxCrashes = 0
  None = None
SPECIFICATION Spec
INVARIANTS OneOpenIncidentPerTrackAndZone
CHECK_DEADLOCK FALSE
