CONSTANTS
  Track = {t1, t2}
  Detection = {}
  Entry = {}
  Replica = {r1}
  Operator = {p1}
  Behaviors = {"shadowing"}
  MaxIncidents = 3
  Quiet = {t1, t2}
  Policies = {"tracks"}
  None = None
SPECIFICATION Spec
INVARIANTS TypeOK OneOpenIncidentPerBehavior
PROPERTIES ActiveTrackIsNeverPurged EverythingSeenIsRaised
SYMMETRY Symmetry
CHECK_DEADLOCK FALSE
