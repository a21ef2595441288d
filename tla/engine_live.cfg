SPECIFICATION Spec
CONSTANTS
  w1 = w1
  w2 = w2
  d1 = d1
  d2 = d2
  game = game
  other = other
  None = None
  Workers <- MCWorkers
  Dirs <- AnyDirs
  Sources <- OneSource
  Size <- OneSize
  Media <- Xgd3Media
  Requests <- LiveRequests
  MaxVersion = 2
  FullProgress = 2
  MaxSessions = 3
PROPERTIES
  JobTerminates
  StartReturns
  ImplementsLifecycle
