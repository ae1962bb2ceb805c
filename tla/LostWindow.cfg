SPECIFICATION Spec

CONSTANTS
  r1 = r1
  r2 = r2
  Record <- OneRecord
  Strategy = "timestamp_priority"
  NumTables = 1
  TableOf <- OneTable
  BatchSize <- SmallBatch
  MaxRetries = 2
  Writers <- OnlyLocal
  EditKinds <- AllEdits
  EditInCycle = TRUE
  MaxEdits = 2
  MaxFaults = 0

INVARIANTS
  NoChangeSkipped
