\* Every request of the interface, three of them in any combination.
CONSTANTS
  Queries = {q1}
  Workers = {w1, w2}
  Serve = Serve
  Post = Post
  Batches = {b1}
  MaxUrls = 2
  MaxRequests = 3
  Requests = {"set_tag", "add_trs", "train", "rank", "get_ranking", "free_query",
    "train_rank_get_ranking", "add_trs_from_file", "train_and_wait",
    "rank_and_wait", "add_trs_from_file_and_wait", "load_classifier",
    "save_classifier"}
  ModelFiles = {"valid", "missing"}
  Faults = {"image", "folder", "unwritable"}
  RetrievePages = {"in_range", "behind_last"}
  None = None
SPECIFICATION FairSpec
VIEW Present
INVARIANTS OnlyRacesFailAssertions RankedHasRanking TrainedHasModel
  TrainingHasFeatures NoSilentStall
PROPERTY Replies
\* The server stops after MaxRequests requests.
CHECK_DEADLOCK FALSE
