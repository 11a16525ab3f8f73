SPECIFICATION Spec
CONSTANTS
  S = S
  T = T
  Other = Other
  NoDev = NoDev
  Running = Running
  Dev <- MCDev
  Blocks = 2
  SwapSteps <- DuringPrompt
INVARIANT
  OfflineNoteTrue
CHECK_DEADLOCK FALSE
