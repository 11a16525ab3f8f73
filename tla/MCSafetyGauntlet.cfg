SPECIFICATION Spec
CONSTANTS
  A = A
  B = B
  C = C
  NoDev = NoDev
  Running = Running
  Long = 1024
  Dev <- MCDev
  DiskNumbers <- MCNumbers
  Misses = 2
  Answers <- MCAnswers
  Replugs = 1
  ReplugSteps <- BeforeApproval
  HostSteps <- BeforeAnnotation
  Cases <- MCCases
INVARIANTS
  TargetServesNobody
  SafePair
  PlanOfOneDisk
  ListsEveryDisk
  RefusedForCause
  
PROPERTIES
  ImplementsCmdClone
CHECK_DEADLOCK FALSE
