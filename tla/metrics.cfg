SPECIFICATION FairSpec
CONSTANTS
  s1 = s1
  s2 = s2
  b1 = b1
  b2 = b2
  r1 = r1
  r2 = r2
  Series <- TwoSeries
  Backends <- TwoBackends
  Specs <- SomeSpecs
  EnvImpl = None
  Adapters <- Registry
  Aliases <- Abbreviations
  DefaultImpl = "envoy-gateway"
  NameOf <- Named
  ZoneExtra = 1
  Rates <- IdleOrBusy
  PodCounts <- Pods
  Scale = 100
  Retries = 1
  MaxScrapes = 1
  Known = Known
  None = None
  HubbleNames <- Cilium
  Last = 2
  Kinds <- FewKinds
  MaxFlows = 3
  Horizon = 3
INVARIANTS
  TypeOK
  NothingDisguised
  SteadySums
  ErrorsHaveCulprit
PROPERTIES
  NeverInvents
  CompleteBelowCap
  CollectionEnds
