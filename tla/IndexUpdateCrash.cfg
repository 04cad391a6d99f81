\* Updates that outgrow the reader, failing renames, a crash and a restart.
CONSTANTS
  Rankers = {r1, r2}
  Initial = 2
  MaxAdded = 2
  MaxUpdates = 3
  MaxRestarts = 1
  NumSlots = 2
  MaxReadable = 5
  UncheckedClose = FALSE
SPECIFICATION FairSpec
INVARIANTS TypeOK PathHasFeature RankingIndicesValid CommittedSurvives
PROPERTY UpdateEnds
\* The process may stay down.
CHECK_DEADLOCK FALSE
