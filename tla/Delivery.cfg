\* The live feed, a queue consumer, a bridge, two replicas that start, and two
\* threads that alert; no found database repeats a zone name before sites.
CONSTANTS
  m1 = m1
  m3 = m3
  Client = {c1}
  Worker = {w1, w2}
  Site = {"north", "south"}
  SiteOf <- SiteOfClient
  Cap = 2
  MaxEvents = 4
  Consumer = {n1}
  Message = {m1, m2, m3}
  Body <- BodyOf
  Harmful = {m3}
  MaxChunk = 3
  MaxPings = 1
  MaxDrops = 1
  Device = {d1, d2}
  MinInterval = 2
  RefreshInterval = 1
  Power = {0, 1, 3}
  Threshold = 1
  MaxRetries = 2
  Backoff = 1
  MaxReports = 2
  MaxUptime = 4
  Process = {p1, p2}
  ZoneName = {"fence", "pad"}
  Seeds = {"fence"}
  Found = {"empty", "no_sites", "sites", "head"}
  MaxKills = 1
  Sender = {t1, t2}
  Recipient <- RecipientOf
  Minimum <- MinimumOf
  TrackLabel = {"drone", "bird"}
  MaxOpened = 2
SPECIFICATION DeliverySpec
INVARIANTS DeliveryTypeOK FramesAreWhole ServesMigrated EveryChannelHearsOnce
PROPERTIES KeepsPromise NewestIsDelivered ToldClientsEnd CatchesUp AckedPostsAreSpaced ComesBack EveryReplicaStarts
CHECK_DEADLOCK FALSE
