\* The user scans while the host scans too, or swaps tokens.
CONSTANTS
  A = A
  B = B
  Tokens = {A, B}
  Blob = Blob
  Count <- MCCount
  Parts = 2
  ExportCap = 1
  TickLimit = 1
  RetryLimit = 2
  Worlds <- MCWorlds
  MaxGen = 2
  NONE = NONE
SPECIFICATION Spec
CHECK_DEADLOCK FALSE
INVARIANTS
  ProofsAreSigned
  TokenIsWhole
PROPERTIES
  ScanningEnds
