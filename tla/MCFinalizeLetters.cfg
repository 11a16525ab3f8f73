SPECIFICATION Spec
CONSTANTS
  Letters <- MCLetters
  MaxPolls = 2
  MaxValues = 2
INVARIANT
  PrintedLettersServe
CHECK_DEADLOCK FALSE
