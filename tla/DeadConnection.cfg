SPECIFICATION FairSpec

CONSTANTS
  FailureThreshold = 5
  Timeout = 5
  HalfOpenTimeout = 1
  Intervals = {6}

PROPERTIES
  SurvivesOutages
