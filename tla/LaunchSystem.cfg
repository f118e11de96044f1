SPECIFICATION FairSpec
CONSTANTS
  N = 3
INVARIANTS StoppedMeansExited
PROPERTIES FailureSeen StopSeen
CHECK_DEADLOCK FALSE
