SPECIFICATION Spec
CONSTANTS
  asus = asus
  bridged = bridged
  liteon = liteon
  Unknown = Unknown
  Drives <- MCDrives
  Letters <- MCLetters
  Addresses <- MCAddresses
  Model <- MCModel
  WinRev <- MCWinRev
  ScanRev <- MCScanRev
INVARIANTS
  TypeOK
  AddressesDistinct
  ListIsCurrent
  InspectedIsWritten
  ClosesIdle
PROPERTIES
  ChangesAreServed
