SPECIFICATION FairSpec
CONSTANTS
  Threads = {t1, t2, t3}
  MaxConnections = 4
  LogCapacity = 2
INVARIANTS PoolServes AcceptsOn OneAccept LoggedInTime
PROPERTIES ShutsDown Serves
