SPECIFICATION FairSpec

CONSTANTS
  r1 = r1
  r2 = r2
  Record <- OneRecord
  Strategy = "timestamp_priority"
  NumTables = 1
  TableOf <- OneTable
  BatchSize <- SmallBatch
  MaxRetries = 2
  Writers <- OnlyLocal
  EditKinds <- Inserts
  EditInCycle = FALSE
  MaxEdits = 1
  MaxFaults = 1

PROPERTIES
  CyclesRecover
