SPECIFICATION LiveSpec
CONSTANTS
  LastValid = 2
  Timeout = 2
  MaxHeight = 4
  MaxForks = 1
INVARIANTS
  TypeOK
  LandedIsTrue
  ExpiredIsFinal
PROPERTY
  AlwaysAnswers
CHECK_DEADLOCK FALSE
