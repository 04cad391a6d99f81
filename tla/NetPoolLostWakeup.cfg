\* Every image is valid, and still a post can precede the wait it is meant for.
CONSTANTS
  Threads = {t1, t2}
  NoThread = NoThread
  PoolSize = 1
  MaxRequests = 2
  MayThrow = FALSE
SPECIFICATION FairSpec
PROPERTY WaiterIsWoken
CHECK_DEADLOCK FALSE
