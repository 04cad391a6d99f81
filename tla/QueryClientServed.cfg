\* Whether a page or a script waits for ever.
CONSTANTS
  Queries = {q1}
  Workers = {w1, w2}
  Serve = Serve
  Post = Post
  Batches = {b1}
  MaxUrls = 1
  MaxRequests = 30
  Requests = {"add_trs", "add_trs_from_file_and_wait", "train", "rank",
    "get_ranking", "free_query", "train_rank_get_ranking"}
  ModelFiles = {}
  Faults = {"image", "folder"}
  RetrievePages = {"in_range"}
  None = None
SPECIFICATION ClientFairSpec
VIEW Present
PROPERTY ClientServed
\* The clients stop when they are done, or wait for users.
CHECK_DEADLOCK FALSE
