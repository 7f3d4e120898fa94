SPECIFICATION FairSpec
CONSTANTS
  Word32 = 1000
  LeafDirsOffset = 100
  TileDataOffset = 200
  MaxLeafHops = 8
  TileIds <- MCTileIds
  Root <- MCRoot
  Leaves <- MCLeaves
  Archive <- MCArchive
  Serves <- MCServes
  Absent = Absent
  NoReply = NoReply
  Nothing = Nothing
  LeafCacheUsed = 2
INVARIANTS
  TileExistsTellsAbsence
