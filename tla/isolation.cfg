SPECIFICATION FairSpec
CONSTANTS
  None = None
  a = a
  b = b
  c = c
  MinSamples = 1
  Specs <- TrialSpecs
  MaxCooldown = 2
  Backends <- Pair
  Refs <- Split
  InitRoutes <- FullSplit
  InitReplicas = {2}
  Interval = 1
  Traffic <- RoutingTraffic
  CalmTraffic <- SteadyTraffic
  Faults = {"crash", "record", "spec"}
  ReplicaEdits = {}
  WeightEdits = {}
INVARIANT TypeOK
PROPERTIES
  CooldownRespected
  RecoveryCompletes
  Recovers
