\* Two batches share the threads of the downloader; the batch may be filtered,
\* and the counts of images are racy.
SPECIFICATION FairSpec
CONSTANTS
  Batches = {b1, b2}
  NumUrls = 2
  NoBatch = NoBatch
INVARIANTS CountIsOutstanding CallbackWhenQueuedFirst EachImageOnce
PROPERTY CallbackAfterQueueing
\* The threads stop when all images were handled.
CHECK_DEADLOCK FALSE
