\* As many networks as threads.
CONSTANTS
  Threads = {t1, t2}
  NoThread = NoThread
  PoolSize = 2
  MaxRequests = 3
  MayThrow = TRUE
SPECIFICATION FairSpec
INVARIANT NoWaiting
PROPERTY Served
\* The threads stop after MaxRequests calls.
CHECK_DEADLOCK FALSE
