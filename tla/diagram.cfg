SPECIFICATION Spec
CONSTANTS
  A = A
  B = B
  DNS = DNS
  World = World
  shop = shop
  kube = kube
  None = None
  SystemNamespaces <- SystemOnly
  Kinds <- SomeKinds
  TopN = 3
  HubbleLast = 5
  DiagramLimit = 2
INVARIANT AlwaysDrawable
