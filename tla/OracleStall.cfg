SPECIFICATION FairSpec
CONSTANTS
  None = None
  Bots = {b1, b2}
  Requests = {r1, r2}
  Backends <- SqliteOrOracle
  PoolSize = 2
  Threads = 1
PROPERTY AllPassesEnd
CHECK_DEADLOCK FALSE
