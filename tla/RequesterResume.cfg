SPECIFICATION Spec
CONSTANTS
  Requests = {r1}
  Threads = {t1, t2}
  None = None
  MaxAnswers <- OneEach
INVARIANTS ResumedOnce
CHECK_DEADLOCK FALSE
