CONSTANTS
  Total = 4
  BlockSize = 4
  Saddr = 8
  WordSize = 32
  Garbage = {{}, {"TAKEN"}, {"TAKEN", "HAS_NEXT"}, {"TAKEN", "IS_FIRST"}}
SPECIFICATION Spec
INVARIANTS TypeOK TableWellFormed RunsDisjoint NoOrphanBlocks
PROPERTY AllocatorSpec
CHECK_DEADLOCK TRUE
