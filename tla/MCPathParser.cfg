CONSTANTS
  HeapBlocks = 7
  PathStrings <- MCPathStrings
  MaxPath = 6
  RealisticStrlen = 9
  BlockSize = 6
  LowMemory = 6
SPECIFICATION Spec
INVARIANTS TypeOK ListSound LosesLittle 
CHECK_DEADLOCK FALSE
