CONSTANTS
  HeapBlocks = 7
  MaxFilesystems = 2
  CallsFsInit = TRUE
SPECIFICATION Spec
INVARIANTS TypeOK AllOrNothing NoDanglingDisk MountsFat16
CHECK_DEADLOCK FALSE
