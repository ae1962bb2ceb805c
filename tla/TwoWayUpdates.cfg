SPECIFICATION FairSpec

CONSTANTS
  r1 = r1
  r2 = r2
  Record <- TwoRecords
  Strategy = "timestamp_priority"
  NumTables = 1
  TableOf <- OneTable
  BatchSize <- LargeBatch
  MaxRetries = 2
  Writers <- Both
  EditKinds <- Updates
  EditInCycle = FALSE
  MaxEdits = 2
  MaxFaults = 2

INVARIANTS
  Agreement
  CompletedMeansEqual
  NoChangeSkipped

PROPERTIES
  Converges
  CycleEnds
