SPECIFICATION Spec
CONSTANTS
  w1 = w1
  w2 = w2
  d1 = d1
  d2 = d2
  game = game
  other = other
  None = None
  Workers <- MCWorkers
  Dirs <- MCDirs
  Sources <- Xgd3Sources
  Size <- Xgd3Size
  Media <- Xgd3Media
  Requests <- Xgd3Requests
  MaxVersion = 2
  FullProgress = 2
  MaxSessions = 3
SYMMETRY Symmetric
INVARIANTS
  DirectoriesOwnedOnce
  BurnsVerifiedCopy
  CacheIsVerified
  DirectoriesAccountedFor
  StreamingRestored
  ClampBounds
PROPERTY
  CacheSurvivesFailure
