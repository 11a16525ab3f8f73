SPECIFICATION Spec
CONSTANTS
  Letters <- MCLetters
  MaxPolls = 2
  MaxValues = 2
INVARIANT
  SuccessMeansReset
CHECK_DEADLOCK FALSE
