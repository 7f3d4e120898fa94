SPECIFICATION Spec
CONSTANTS
  Screens <- MCScreens
  Archive <- MCArchive
  MaxFeatures = 2
  NoTile = NoTile
  Pipelines = {"measured", "check", "lilygo"}
  MaxFrames = 2
CHECK_DEADLOCK FALSE
INVARIANTS
  EveryTileAccountedOnce
  HonestPass
