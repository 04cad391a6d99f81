\* A page or a script, and its query; two images are the least with which
\* downloadUrls completes more than once.
CONSTANTS
  Queries = {q1}
  Workers = {w1, w2}
  Serve = Serve
  Post = Post
  Batches = {b1}
  MaxUrls = 2
  MaxRequests = 30
  Requests = {"add_trs", "add_trs_from_file_and_wait", "train", "rank",
    "get_ranking", "free_query", "train_rank_get_ranking"}
  ModelFiles = {}
  Faults = {"image", "folder"}
  RetrievePages = {"in_range"}
  None = None
SPECIFICATION ClientSpec
VIEW Present
INVARIANT OnlyHastyPagesLoseQueries
PROPERTIES ImplementsLifecycle ClientTrainingSetFrozen
\* The clients stop when they are done, or wait for users.
CHECK_DEADLOCK FALSE
