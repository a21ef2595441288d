SPECIFICATION Spec
CONSTANTS
  w1 = w1
  w2 = w2
  d1 = d1
  d2 = d2
  game = game
  other = other
  None = None
  Workers <- MCWorkers
  Dirs <- MCDirs
  Sources <- OneSource
  Size <- OneSize
  Media <- CdMedia
  Requests <- CdRequests
  MaxVersion = 2
  FullProgress = 2
  MaxSessions = 3
SYMMETRY Symmetric
INVARIANT DiscIsTheImage
