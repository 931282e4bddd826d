CONSTANTS
  HeapBlocks = 7
  MaxFilesystems = 2
  CallsFsInit = FALSE
SPECIFICATION Spec
INVARIANT MountsFat16
CHECK_DEADLOCK FALSE
