SPECIFICATION Spec
CONSTANTS
  Sizes <- DvdSizes
  DiscKinds <- BlankDiscs
INVARIANTS BreaksAreGood PaddingFits OnlyKnownRefusals
