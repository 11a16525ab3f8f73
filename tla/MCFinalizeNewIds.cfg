SPECIFICATION Spec
CONSTANTS
  Letters <- MCLetters
  MaxPolls = 2
  MaxValues = 2
INVARIANTS
  BcdbootOnCloneOnly
  KeptLettersServe
  ResourcesSettled
  SuccessIsComplete
PROPERTIES
  ImplementsContract
  Terminates
CHECK_DEADLOCK FALSE
