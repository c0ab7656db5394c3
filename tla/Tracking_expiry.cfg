\* A dashboard polls forever; two reports of one object.
CONSTANTS
  Track = {t1, t2}
  Object = {o1}
  Zone = {}
  Votes = {"unknown"}
  Fixes = {TRUE}
  Loiters = {FALSE}
  IncidentId = {}
  Worker = {w1}
  Reader = {r1}
  Operator = {}
  Stale = 1
  Drop = 2
  Gate = 1
  Skew = 1
  MaxLate = 1
  MaxTime = 4
  MaxCrashes = 0
  None = None
SPECIFICATION FairSpec
PROPERTIES QuietTracksClose
CHECK_DEADLOCK FALSE
