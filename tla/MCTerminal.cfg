CONSTANTS
  Width = 3
  RowRange = 9
  BootText <- Boot
  LateText <- Nothing
  KeyText <- Message
  MaxKeys = 5
SPECIFICATION Spec
INVARIANT TypeOK
PROPERTIES ShowsInOrder AnswersKeys
CHECK_DEADLOCK FALSE
