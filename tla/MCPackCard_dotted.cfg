SPECIFICATION Spec
CONSTANTS
  Requests <- DottedRequests
  SizeOf <- MCSizeOf
  SortedStems <- MCSortedStems
  Dirs = {"work", "card"}
  Card = "card"
  Nowhere = "none"
  NoFile = NoFile
  Torn = Torn
  NoRequest = NoRequest
  Off = Off
  MaxRuns = 3
CHECK_DEADLOCK FALSE
INVARIANTS
  SuccessIsOffered
