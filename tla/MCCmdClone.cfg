SPECIFICATION Spec
CONSTANTS
  S = S
  T = T
  Other = Other
  NoDev = NoDev
  Running = Running
  Dev <- MCDev
  Blocks = 2
  SwapSteps <- DuringPrompt
INVARIANTS
  TypeOK
  ApprovedDisksOnly
  NotModifiedNoteTrue
  OfflineNoteExact
  SwapInstructionsTrue
  TargetIsolated
  WritersToldTruth
PROPERTIES
  ImplementsExitContract
  CancelledCopyAborts
CHECK_DEADLOCK FALSE
