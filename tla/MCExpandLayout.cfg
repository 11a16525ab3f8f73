SPECIFICATION Spec
CONSTANTS
  N <- MCN
  MiB <- MCMiB
  Cap <- MCCap
  Word <- MCWord
  TargetSizes <- MCTargetSizes
  Sources <- RealisticSources
INVARIANTS
  NonOverlapping
  WithinTarget
  LengthsKept
CHECK_DEADLOCK FALSE
