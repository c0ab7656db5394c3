CONSTANTS
  Track = {t1, t2}
  Detection = {d1}
  Entry = {e1}
  Replica = {r1}
  Operator = {}
  Behaviors = {"formation"}
  MaxIncidents = 1
  Quiet = {t1, t2}
  Policies = {"detections", "tracks", "audit"}
  None = None
SPECIFICATION FairSpec
PROPERTIES FinishedTracksArePurged OldAuditEntriesArePurged
CHECK_DEADLOCK FALSE
