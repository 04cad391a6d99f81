\* More consumers than producers: they take items from each other.
CONSTANTS
  Producers = {p1, p2}
  Consumers = {c1, c2, c3}
  NoThread = NoThread
  MaxPushes = 3
SPECIFICATION FairSpec
INVARIANT NoLostWakeup
PROPERTY Delivered
