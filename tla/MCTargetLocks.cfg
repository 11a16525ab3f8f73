SPECIFICATION Spec
CONSTANTS
  Old = {o1, o2}
  New = {n1, n2}
  Attempts = 4
  Blocks = 2
  SurfaceSteps <- EarlySteps
  Running = Running
INVARIANTS
  NobodyElseWrites
PROPERTIES
  LocksHold
  DetailsCmdClone
  Terminates
CHECK_DEADLOCK FALSE
