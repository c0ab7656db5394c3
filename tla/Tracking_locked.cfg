CONSTANTS
  Track = {t1, t2, t3}
  Object = {o1}
  Zone = {z1}
  Votes = {"unknown", "drone"}
  Fixes = {TRUE}
  Loiters = {TRUE, FALSE}
  IncidentId = {i1, i2}
  Worker = {w1, w2}
  Reader = {}
  Operator = {}
  Stale = 1
  Drop = 2
  Gate = 1
  Skew = 1
  MaxLate = 1
  MaxTime = 3
  MaxCrashes = 0
  None = None
SPECIFICATION Spec
INVARIANTS TypeOK ClosedTrackIsSettled LastSeenIsReported
PROPERTIES RowsOnlyMoveOn OnlyQuietTracksExpire AssociatesAtomically
SYMMETRY Symmetry
CHECK_DEADLOCK FALSE
