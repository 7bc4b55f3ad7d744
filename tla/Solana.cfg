SPECIFICATION AddressSpec

CONSTANTS
  Bytes <- EdgeBytes
  MaxBytes = 3
  Chars <- EdgeChars
  MaxChars = 5
  Curves <- SmallCurves
  MaxBump = 1

INVARIANTS
  ConversionsAgree
  PdaHasNoKey

\* The inputs have been read and the search has answered.
CHECK_DEADLOCK FALSE
