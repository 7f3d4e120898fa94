SPECIFICATION Spec
CONSTANTS
  Tile = 4
  MaxZoom = 2
  Catalogs <- RegionalOnly
  Boards = {"tab5", "cyd"}
  Width <- MCWidth
  Height <- MCHeight
  FitPadding <- MCPadding
  Threshold = 1
  Drags <- MCDrags
  SweepScreens = 1
  Scenarios <- MCScenarios
  MeanLat <- MCMeanLat
  NoPack = NoPack
CHECK_DEADLOCK FALSE
PROPERTIES
  OpensOnARealMap
