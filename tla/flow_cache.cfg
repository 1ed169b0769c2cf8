SPECIFICATION FairSpec
CONSTANTS
  r1 = r1
  r2 = r2
  r3 = r3
  Requests <- Viewers
  TTL = 2
  Timeout = 3
  Horizon = 5
  Nobody = Nobody
  Empty = Empty
INVARIANTS
  TypeOK
  SingleFlight
  Fresh
  RateLimited
PROPERTIES
  Progress
