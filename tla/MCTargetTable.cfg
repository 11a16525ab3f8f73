SPECIFICATION Spec
CONSTANTS
  Sources <- MCSources
  Room = 2
  Attempts = 3
  MaxPartitions = 4
  Signatures <- MCSignatures
  FreshGuid = 1000
  DWord = 16
  SectorSize = 2
INVARIANTS
  SameTable
  TableAccepted
  IdentityAsAsked
  NoBitLocker
  WindowsIdentified
CHECK_DEADLOCK FALSE
