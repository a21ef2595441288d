SPECIFICATION Spec
CONSTANTS
  ChunkSize = 3
  MaxLog = 7
  MaxBytes = 5
  MaxLine = 4
  MaxHelpers = 2
INVARIANTS
  TypeOK
  LogIsTerminal
  LinesAreWhole
  ErrorIsShown
