CONSTANTS
  Track = {t1, t2}
  Object = {o1}
  Zone = {z1}
  Votes = {"unknown"}
  Fixes = {TRUE}
  Loiters = {FALSE}
  IncidentId = {i1, i2}
  Worker = {w1, w2}
  Reader = {r1}
  Operator = {p1}
  Stale = 0
  Drop = 0
  Gate = 1
  Skew = 0
  MaxLate = 1
  MaxTime = 1
  MaxCrashes = 1
  None = None
SPECIFICATION Spec
INVARIANTS OneOpenIncidentPerAlarm
SYMMETRY Symmetry
CHECK_DEADLOCK FALSE
