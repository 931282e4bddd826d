CONSTANTS
  HeapBlocks = 6
  Entries = 3
  PageSize = 2
  HeapFrame = 3
  CodePage = 1
  VA_start = 2
  Targets = {2, 5, 8}
  MaxSets = 2
SPECIFICATION Spec
INVARIANTS TypeOK IdentityUnlessShort LostOnlyWhenShort
PROPERTY AddressSpaceSpec
CHECK_DEADLOCK FALSE
