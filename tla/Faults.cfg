SPECIFICATION Spec

CONSTANTS
  r1 = r1
  r2 = r2
  Record <- TwoRecords
  Strategy = "timestamp_priority"
  NumTables = 1
  TableOf <- OneTable
  BatchSize <- SmallBatch
  MaxRetries = 2
  Writers <- Both
  EditKinds <- AllEdits
  EditInCycle = TRUE
  MaxEdits = 2
  MaxFaults = 2

INVARIANTS
  TypeOK
  CompletedIsDelivered
  PendingBehindCursorIsRepetition
  FailureKeepsWork
  NoEcho
  NoRecordTwice

PROPERTIES
  CursorSkipsNothingDetected
  CursorWaitsForBothDirections
  ImplementsOutbox
