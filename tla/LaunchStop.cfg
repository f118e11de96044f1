SPECIFICATION FairSpec
CONSTANTS
  N = 2
PROPERTIES StopTerminates
CHECK_DEADLOCK FALSE
