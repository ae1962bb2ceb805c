SPECIFICATION Spec

CONSTANTS
  main = main
  job = job
  health = health
  Cycler <- InitialAndJob
  Prober <- OneHandler
  Main = main
  BatchSize = 2
  MaxCalls = 2
  MaxSessions = 3
  MaxFaults = 1

INVARIANTS
  TypeOK
  DepthCounts
  AloneIsAtomic
  AloneIsDurable
  NoStrayWork

CHECK_DEADLOCK FALSE
