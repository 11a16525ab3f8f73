SPECIFICATION Spec
CONSTANTS
  N = 2
  B = 2
  MaxWrites = 2
  Running = Running
INVARIANTS
  SnapshotSetConsistent
  LockedImageConsistent
  CopyAccounted
CHECK_DEADLOCK FALSE
