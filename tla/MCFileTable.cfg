CONSTANTS
  MaxDescriptors = 3
  HeapBlocks = 11
  Filesystem = 1
  RefusesBound = FALSE
SPECIFICATION Spec
INVARIANTS TypeOK TableSound NoLostDescriptor HandlesWork
PROPERTIES FileLostOnlyWhenFull CallsReachOwnFile
CHECK_DEADLOCK TRUE
