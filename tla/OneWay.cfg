SPECIFICATION FairSpec

CONSTANTS
  r1 = r1
  r2 = r2
  Record <- TwoRecords
  Strategy = "timestamp_priority"
  NumTables = 2
  TableOf <- TwoTables
  BatchSize <- SmallBatch
  MaxRetries = 2
  Writers <- OnlyLocal
  EditKinds <- NoDeletes
  EditInCycle = FALSE
  MaxEdits = 3
  MaxFaults = 0

PROPERTIES
  Converges
  UsersOwnTheirSide
