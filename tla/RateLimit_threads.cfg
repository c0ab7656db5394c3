CONSTANTS
  Thread = {th1, th2}
  Sensor = {s1}
  Site = site
  Postgres = TRUE
  Rate = 2
  Burst = 3
  SiteRate = 3
  SiteBurst = 4
  Cost = 2
  MaxBatch = 2
  MaxTime = 3
SPECIFICATION Spec
INVARIANTS TypeOK GrantedWithinLimitAndRewinds
PROPERTIES RetryAfterIsHonest BurstGoesOut
SYMMETRY Symmetry
CHECK_DEADLOCK FALSE
