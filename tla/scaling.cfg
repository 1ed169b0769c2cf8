SPECIFICATION FairSpec
CONSTANTS
  None = None
  a = a
  b = b
  c = c
  MinSamples = 1
  Specs <- ScalingSpecs
  MaxCooldown = 3
  Backends <- Pair
  Refs <- Split
  InitRoutes <- FullSplit
  InitReplicas = {2}
  Interval = 2
  Traffic <- ScalingTraffic
  CalmTraffic <- BusyTraffic
  Faults = {"crash", "pods", "replicas", "spec"}
  ReplicaEdits = {1, 6}
  WeightEdits = {}
PROPERTIES
  CooldownRespected
  ReplicasBounded
  Settles
