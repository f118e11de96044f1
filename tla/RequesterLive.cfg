SPECIFICATION FairSpec
CONSTANTS
  Requests = {r1, r2}
  Threads = {t1, t2}
  None = None
  MaxAnswers <- TwoForOne
PROPERTIES TimeoutCompletes Released Settles
CHECK_DEADLOCK FALSE
