SPECIFICATION Spec
CONSTANTS
  None = None
  Cases <- SmallCases
  PodLimit = 8
INVARIANT TypeOK
PROPERTIES
  NoReversal
  DownKeepsCapacity
  SurgeAdds
CHECK_DEADLOCK FALSE
