SPECIFICATION Spec
CONSTANTS
  None = None
  a = a
  b = b
  c = c
  MinSamples = 1
  Specs <- BriefSpecs
  MaxCooldown = 0
  Backends <- Three
  Refs <- TwoRules
  InitRoutes <- FullTwoRules
  InitReplicas = {2}
  Interval = 1
  Traffic <- TroubledTraffic
  CalmTraffic <- SteadyTraffic
  Faults = {"api", "route", "spec"}
  ReplicaEdits = {}
  WeightEdits = {0}
PROPERTIES
  WeightStepBounded
  CutOnlyBesideHealthy
  LowersOnlyIfAllowed
