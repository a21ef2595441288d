SPECIFICATION Spec
CONSTANTS
  L0 <- MCL0
  L1 <- MCL1
  Seeing <- Both
  Answering <- Both
  MaxMatches = 2
INVARIANTS
  OneFamilyWrites
  EnabledIsComplete
  ChangesAreReported
