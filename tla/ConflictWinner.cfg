SPECIFICATION Spec

CONSTANTS
  r1 = r1
  r2 = r2
  Record <- OneRecord
  Strategy = "timestamp_priority"
  NumTables = 1
  TableOf <- OneTable
  BatchSize <- SmallBatch
  MaxRetries = 2
  Writers <- Both
  EditKinds <- Updates
  EditInCycle = FALSE
  MaxEdits = 2
  MaxFaults = 0

PROPERTIES
  LatestEditWins
