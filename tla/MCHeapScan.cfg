CONSTANTS
  Total = 4
  MaxBlocks = 5
SPECIFICATION ScanSpec
INVARIANTS AnswersFirstFit
PROPERTY Terminates
CHECK_DEADLOCK FALSE
