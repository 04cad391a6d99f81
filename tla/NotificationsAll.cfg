\* Two of the monitors, which differ in nothing but their message, the queue that
\* has no monitor, and a subscriber of each kind.
CONSTANTS
  Monitored = {"state", "error"}
  Guests = {g1, g2}
  Pythons = {py}
  Nodes = {node}
  MaxPosts = 3
  HighWater = 2
SPECIFICATION FairSpec
VIEW Present
INVARIANTS SocketStoredFirst OneSubscriber OnlyOverlapsTerminate
PROPERTIES ImplementsLog DeliveredIfUndisturbed
\* The process may end.
CHECK_DEADLOCK FALSE
