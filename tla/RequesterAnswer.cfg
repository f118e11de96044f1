SPECIFICATION FairSpec
CONSTANTS
  Requests = {r1}
  Threads = {t1, t2}
  None = None
  MaxAnswers <- OneEach
PROPERTIES AnswerCompletes
CHECK_DEADLOCK FALSE
