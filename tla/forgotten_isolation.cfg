SPECIFICATION Spec
CONSTANTS
  None = None
  a = a
  b = b
  c = c
  MinSamples = 1
  Specs <- LatencySpecs
  MaxCooldown = 3
  Backends <- Pair
  Refs <- Split
  InitRoutes <- FullSplit
  InitReplicas = {2}
  Interval = 1
  Traffic <- MixedTraffic
  CalmTraffic <- SteadyTraffic
  Faults = {}
  ReplicaEdits = {}
  WeightEdits = {}
PROPERTIES
  RecoveryCompletes
