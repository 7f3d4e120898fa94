SPECIFICATION Spec
CONSTANTS
  Requests <- AllRequests
  SizeOf <- MCSizeOf
  SortedStems <- MCSortedStems
  Dirs = {"work", "card"}
  Card = "card"
  Nowhere = "none"
  NoFile = NoFile
  Torn = Torn
  NoRequest = NoRequest
  Off = Off
  MaxRuns = 3
CHECK_DEADLOCK FALSE
INVARIANTS
  TypeOK
  BootedPacksAreWhole
  SuccessIsOffered
PROPERTIES
  UnforcedInPlaceKeepsOffered
