SPECIFICATION Spec
CONSTANTS
  None = None
  MinSamples = 2
  ErrorRates <- MCErrorRates
  Latencies <- MCLatencies
  ErrorLimit = 3
  LatencyLimit = 3
  MaxSamples = 5
INVARIANTS
  TypeOK
  MeanWithinLearnt
  Absorbed
  BlindNeverCritical
PROPERTIES
  CriticalPersists
  CountsAsPolicy
