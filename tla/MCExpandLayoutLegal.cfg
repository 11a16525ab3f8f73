SPECIFICATION Spec
CONSTANTS
  N <- MCN
  MiB <- MCMiB
  Cap <- MCCap
  Word <- MCWord
  TargetSizes <- MCTargetSizes
  Sources <- LegalSources
INVARIANT
  WithinTarget
CHECK_DEADLOCK FALSE
