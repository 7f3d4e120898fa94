SPECIFICATION Spec
CONSTANTS
  Requests <- StagedRequests
  SizeOf <- MCSizeOf
  SortedStems <- MCSortedStems
  Dirs = {"work", "card"}
  Card = "card"
  Nowhere = "none"
  NoFile = NoFile
  Torn = Torn
  NoRequest = NoRequest
  Off = Off
  MaxRuns = 3
CHECK_DEADLOCK FALSE
PROPERTIES
  UnforcedKeepsOffered
