SPECIFICATION Spec
CONSTANTS
  w1 = w1
  w2 = w2
  d1 = d1
  d2 = d2
  game = game
  other = other
  None = None
  Workers <- MCWorkers
  Dirs <- AnyDirs
  Sources <- AnySources
  Size <- AnySize
  Media <- AnyMedia
  Requests <- AnyRequests
  MaxVersion = 2
  FullProgress = 2
  MaxSessions = 3
SYMMETRY Symmetric
INVARIANTS
  Exclusive
  WritesOnCheckedMedia
  CompleteIsRecorded
PROPERTIES
  OnlyBurnsWrite
