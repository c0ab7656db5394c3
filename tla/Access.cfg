\* Keys and sessions, the registry and its audit log, listings read page by
\* page, a batch's assignment, and the rules about zones,
\* movements and labels.
CONSTANTS
  a1 = a1
  Key = {k1}
  Admin = {a}
  Request = {r1, r2}
  AdminKey = {}
  SiteName = {"north"}
  Entry <- EntryOf
  Need <- NeedOf
  Claim = {"guest"}
  Granularity = 1
  FlushInterval = 1
  MaxAge = 0
  MaxLatency = 1
  MaxTime = 2
  MaxVersions = 3
  MaxFailures = 1
  Caller = {a1, a2, a3}
  SiteOf <- SiteOfCaller
  Name = {"fence", "pad"}
  Shared = {"s1"}
  Labeled <- LabeledOf
  MaxZones = 2
  MaxCalls = 3
  MaxDeaths = 1
  PageSize = 2
  Lateness = 1
  Retained = 1
  MaxAt = 3
  MaxRows = 4
  Plots = 3
  Tracks = 2
  Gate = 2
  Far = 10
  Grid = {0, 1, 2}
  Instant = {0, 1, 2, 3}
  Spot = {0, 1, 3}
  Heading = {0, 10, 350}
  Speed = {1, 3}
  Span = 2
  Gap = 1
  Near = 1
  Turn = 15
  Pace = 1
  Evidence <- EvidenceOf
  Registered = {"own", "finder"}
  Operators <- OperatorsOf
  Estimate = "there"
  OperatorSignatures <- OperatorOf
  MaxHistory = 3
  Age <- AgeOf
SPECIFICATION AccessSpec
INVARIANTS AccessTypeOK JudgedByCurrentKeys UsageIsRecent ZoneNamesAreUnique AuditTellsWhatHappened PagesAreComplete BatchIsJointlyBest ZoneRules MovementRules VoteRules
SYMMETRY Threads
CHECK_DEADLOCK FALSE
