SPECIFICATION Spec
CONSTANTS
  BufferLength = 3
  Lengths = {1, 2, 4}
  MaxBytes = 7
  Ends = {3, 6}
INVARIANTS
  ReadsFileInOrder
  StopsAtCharacter
PROPERTIES
  ImplementsLog
CHECK_DEADLOCK FALSE
