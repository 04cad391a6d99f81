\* Runs of the driver with chunks of different sizes, one of which is not what
\* the combination expects, with children killed and jobs that fail; an image
\* may be added in between.  The second run may find jobs of the first.
SPECIFICATION FairSpec
CONSTANTS
  Initial = 4
  MaxImages = 5
  ChunkSizes = {2, 3}
  CombineSize = 2
  JobLimit = 2
  Phases = {{"comp", "merge"}, {"merge", "neg"}}
  MaxRuns = 2
  MaxFaults = 2
INVARIANTS LimitRespected MergeAfterChunks IndexReadsPrefix CleanRunCompletes
PROPERTY DriverEnds
\* The last run ends.
CHECK_DEADLOCK FALSE
