SPECIFICATION Spec
CONSTANTS
  Requests = {r1, r2}
  Threads = {t1, t2, t3}
  None = None
  MaxAnswers <- TwoEach
SYMMETRY Symmetry
INVARIANTS SetIsExclusive ResumedOnceWhileAlive TimerNeverStuck
  OwnersSeeLiveObject ResultHasCause
CHECK_DEADLOCK FALSE
PROPERTIES ImplementsCompletion 
