SPECIFICATION LibrarySpec
CONSTANTS
  Manifests <- MCManifests
  Requests <- MCRequests
  MaxLon = 3
  MaxLat = 1
  MaxZoom = 2
  NoPack = NoPack
  NoInput = NoInput
  NoPayload = NoPayload
  NoCall = NoCall
  Garbage = Garbage
  Word32 = 3
  MaxEntries = 3
  MaxTileId = 5
  Deltas = {0, 1, 2}
  RunLengths = {0, 1, 2}
  Lengths = {1, 5}
  Offsets = {0, 2}
  Word = 8
  MaxLevel = 3
  DefaultExtent = 8
  MaxDepth = 3
  MaxTokens = 80
  StringFields <- MCStringFields
CHECK_DEADLOCK FALSE
INVARIANTS
  ResolvedCovers
  ResolvedWhateverTheOrder
  SelectionIsDeliberate
  SearchesAgree
  FindsTheClaimant
  LevelsAreCurves
  PlacementsPaintTheScreen
  FillLeavesNoMargin
  AnchorStays
  GeometryIsTheConcatenation
  DecodersAgree
  RunsPaintTheBrush
  TileIsItsFeatures
  CutManifestIsRefused
PROPERTIES
  ImplementsStream
  CallsReturn
