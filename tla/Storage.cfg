SPECIFICATION FairSpec
CONSTANTS
  Threads = {t1, t2, t3}
  None = None
  MaxCalls = 2
INVARIANTS SeenComplete OneObject
PROPERTIES CallReturns
CHECK_DEADLOCK FALSE
