SPECIFICATION Spec
CONSTANTS
  b1 = b1
  b2 = b2
  k1 = k1
  k2 = k2
  k3 = k3
  k4 = k4
  k5 = k5
  admin = admin
  other = other
  word1 = word1
  word2 = word2
  Browsers <- TwoBrowsers
  Names <- TwoNames
  Passwords <- TwoPasswords
  DefaultName = admin
  DefaultPassword = word1
  Keys <- FiveKeys
  Faults = {"save", "read"}
  Torn = Torn
  None = None
SYMMETRY Symmetry
INVARIANTS
  TypeOK
  ChangeEndsSessions
  ReportedAsSaved
PROPERTIES
  SavedSurvive
