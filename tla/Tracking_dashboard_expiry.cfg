CONSTANTS
  Track = {t1, t2}
  Object = {o1}
  Zone = {}
  Votes = {"unknown"}
  Fixes = {TRUE}
  Loiters = {FALSE}
  IncidentId = {}
  Worker = {w1}
  Reader = {r1}
  Operator = {}
  Stale = 1
  Drop = 2
  Gate = 1
  Skew = 1
  MaxLate = 1
  MaxTime = 3
  MaxCrashes = 0
  None = None
SPECIFICATION Spec
PROPERTIES OnlyQuietTracksExpire
CHECK_DEADLOCK FALSE
