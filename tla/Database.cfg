SPECIFICATION FairSpec
CONSTANTS
  Threads = {t1, t2}
  Keys = {1, 2, 3}
  Values = {v1}
  Absent = Absent
  None = None
INVARIANTS TypeOK Exclusion Isolation CursorIsCommitted ClearSweeps
PROPERTIES SerialCommits ReaderGetsIn
