SPECIFICATION FairSpec
CONSTANTS
  None = None
  Bots = {b1, b2}
  Requests = {r1, r2}
  Backends <- SqliteOrOracle
  PoolSize = 2
  Threads = 1
INVARIANTS NothingLeaks IInv NobodyIsStuck
PROPERTIES StallIsForever WorkShrinks RequestsAnswered PassesEnd
CHECK_DEADLOCK FALSE
