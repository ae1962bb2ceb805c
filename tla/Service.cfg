SPECIFICATION FairSpec

CONSTANTS
  FailureThreshold = 5
  Timeout = 5
  HalfOpenTimeout = 1
  Intervals = {4, 5, 6}

INVARIANTS
  FieldsMatchState
  ProbeIsAlive

PROPERTIES
  ShutUntilRestart
  OpenIsProbed
  TroubleOverBreakerCloses
