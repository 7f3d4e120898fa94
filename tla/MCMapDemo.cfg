SPECIFICATION FairSpec
CONSTANTS
  Tile = 4
  MaxZoom = 2
  Catalogs <- MCCatalogs
  Boards = {"tab5", "cyd"}
  Width <- MCWidth
  Height <- MCHeight
  FitPadding <- MCPadding
  Threshold = 1
  Drags <- MCDrags
  SweepScreens = 1
  Scenarios <- MCScenarios
  MeanLat <- MCMeanLat
  NoPack = NoPack
CHECK_DEADLOCK FALSE
INVARIANTS
  PanelShowsTheCamera
  FramesTellCoverage
  FloorIsTight
PROPERTIES
  NothingJumps
  MeasurementsEnd
