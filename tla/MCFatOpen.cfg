CONSTANTS
  HeapBlocks = 8
  SectorSize = 4
  SectorsPerCluster = 1
  DataSector = 8
  IntRange = 256
  ItemSize = 2
  RootSector = 1
  RootEntries = 14
  Fat <- MCFat
  ItemAt <- MCItemAt
  MaxPath = 8
  Paths <- MCPaths
SPECIFICATION Spec
INVARIANTS TypeOK HeapAccounted AnswersByTree ReadsNullPastMissing StuckOnlyWhenDamaged
CHECK_DEADLOCK FALSE
