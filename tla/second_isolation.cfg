SPECIFICATION FairSpec
CONSTANTS
  None = None
  a = a
  b = b
  c = c
  MinSamples = 1
  Specs <- RoutingSpecs
  MaxCooldown = 3
  Backends <- Pair
  Refs <- Split
  InitRoutes <- FullSplit
  InitReplicas = {2}
  Interval = 1
  Traffic <- RoutingTraffic
  CalmTraffic <- SteadyTraffic
  Faults = {}
  ReplicaEdits = {}
  WeightEdits = {}
PROPERTIES
  NobodyStaysLow
