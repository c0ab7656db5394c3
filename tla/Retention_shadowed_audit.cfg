CONSTANTS
  Track = {t1, t2}
  Detection = {}
  Entry = {e1}
  Replica = {r1}
  Operator = {}
  Behaviors = {"shadowing"}
  MaxIncidents = 2
  Quiet = {t1, t2}
  Policies = {"tracks", "audit"}
  None = None
SPECIFICATION FairSpec
PROPERTIES OldAuditEntriesArePurged
CHECK_DEADLOCK FALSE
