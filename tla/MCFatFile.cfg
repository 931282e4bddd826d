CONSTANTS
  SectorSize = 2
  SectorsPerCluster = 2
  DataSector = 3
  IntRange = 64
  Files = {d1}
  Fats <- MCFats
  FirstClusters = {2, 3}
  FileSizes = {3, 11}
  Counts = {0, 1, 3, 7}
  Offsets <- MCOffsets
SPECIFICATION FileSpec
INVARIANT CursorInBounds
PROPERTY ByteFileSpec
CHECK_DEADLOCK TRUE
