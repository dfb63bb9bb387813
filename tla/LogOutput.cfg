SPECIFICATION FairSpec
CONSTANTS
  Size = 4
  MaxValues = 2
  FileMax = 4
  MaxRecords = 3
  MaxFaults = 2
  HDR = HDR
  BAD = BAD
  NULL = NULL
CHECK_DEADLOCK FALSE
INVARIANTS RecordsWhole FileIsSuffix OutputContinues
PROPERTIES Drained
