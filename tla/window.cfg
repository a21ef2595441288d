SPECIFICATION Spec
CONSTANTS
  game = game
  long = long
  film = film
  feature = feature
  NoImage = NoImage
  Consoles <- MCConsoles
  Images <- MCImages
  Extension <- MCExtension
  Size <- MCSize
  Overlong <- MCOverlong
  Letters <- MCLetters
  Trays <- MCTrays
  CdWriters <- MCCdWriters
  MayFail <- MCMayFail
INVARIANTS
  ImageSuitsTarget
  ResultIsOfSelection
  SpeedIsOffered
  OfferedIsAccepted
PROPERTIES
  OptionsAreSupported
