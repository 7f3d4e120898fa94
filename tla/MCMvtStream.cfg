SPECIFICATION FairSpec
CONSTANTS
  Payloads <- MCPayloads
  RetainedGeometryPoints = 4
  MaxRetainedFeatureBytes = 3
  MaxStreamedFeatureBytes = 8
  ReservedFeatureBytes = 2
  NoTile = NoTile
  RunEnds <- RunsEndAtLayers
CHECK_DEADLOCK FALSE
INVARIANTS
  TypeOK
  SinkSeesAPrefix
  OwnLayerTables
  AcceptedUpToTheEnd
  RetainedGeometryBounded
PROPERTIES
  TilesEnd
