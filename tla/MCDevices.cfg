CONSTANTS
  Words = 2
  Sectors = 65538
  Bad = {256}
  Lbas <- MCLbas
  Totals = {1, 2}
  MaxRequests = 2
  MaxReads = 2
SPECIFICATION Spec
INVARIANTS TypeOK ReturnsWhatWasAsked AnswersDriveOnce
PROPERTIES ReadsEnd AnswersInputs
CHECK_DEADLOCK FALSE
