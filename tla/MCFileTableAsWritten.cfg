CONSTANTS
  MaxDescriptors = 3
  HeapBlocks = 11
  Filesystem = 1
  RefusesBound = TRUE
SPECIFICATION Spec
PROPERTY OpensFile
CHECK_DEADLOCK FALSE
