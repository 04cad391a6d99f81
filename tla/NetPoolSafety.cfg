\* Three threads compete for two networks and images may be rejected.
CONSTANTS
  Threads = {t1, t2, t3}
  NoThread = NoThread
  PoolSize = 2
  MaxRequests = 2
  MayThrow = TRUE
SPECIFICATION Spec
SYMMETRY ThreadSymmetry
INVARIANTS Exclusive FlagAgrees
PROPERTY ImplementsAllocator
\* The threads stop after MaxRequests calls.
CHECK_DEADLOCK FALSE
