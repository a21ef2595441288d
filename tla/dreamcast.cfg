SPECIFICATION Spec
CONSTANTS
  Tools <- MCTools
  Images <- MCImages
  Sessions <- MCSessions
  Places <- MCPlaces
  MaxTracks = 4
INVARIANTS
  TypeOK
  HelpersAreWhole
  TracksOfThisImage
  TracksInTheirSessions
  BarIsHonest
