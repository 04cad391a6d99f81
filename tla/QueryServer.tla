---------------------------- MODULE QueryServer ----------------------------
(***************************************************************************)
(* The life of queries in the server (src/src/server/base_server.cc).      *)
(* Three kinds of thread change a query: the serve thread of ZmqServer,    *)
(* which runs one request at a time; the detached threads that it starts   *)
(* for train, rank and add_trs_from_file; and the post-processing thread   *)
(* of ImageDownloader, which adds features and runs BaseServerCallback.    *)
(* The state of a query is a plain field: it is tested in one step and set *)
(* in another, and announcing a change reads it once more.                 *)
(***************************************************************************)
EXTENDS Integers, Sequences

CONSTANTS
  Queries,      \* the ids that startQuery may generate
  Workers,      \* the detached threads that may run at the same time (bound)
  Serve, Post,  \* the serve thread and the post-processing thread
  Batches,      \* the calls of downloadUrls (bound)
  MaxUrls,      \* urls or paths of one request (bound)
  MaxRequests,  \* requests served (bound)
  Requests,     \* the requests that clients make
  ModelFiles,   \* the files passed to load_classifier
  Faults,       \* what may fail outside of the server
  RetrievePages, \* the pages of rankings that clients ask for
  None          \* no query, no batch, no job

AllRequests ==
  {"set_tag", "add_trs", "train", "rank", "get_ranking", "free_query",
   "train_rank_get_ranking", "add_trs_from_file", "train_and_wait",
   "rank_and_wait", "add_trs_from_file_and_wait", "load_classifier",
   "save_classifier"}

ASSUME ServerAssumption ==
  /\ Serve # Post /\ Serve \notin Workers /\ Post \notin Workers
  /\ None \notin Queries \cup Batches \cup Workers \cup {Serve, Post}
  /\ MaxUrls \in Nat \ {0} /\ MaxRequests \in Nat
  /\ Requests \subseteq AllRequests
  /\ ModelFiles \subseteq {"valid", "corrupt", "missing"}
  /\ Faults \subseteq {"image", "folder", "unwritable"}
  /\ RetrievePages \subseteq {"in_range", "behind_last"}

Threads == Workers \cup {Serve, Post}

VARIABLES
  queries,     \* queries_: the ids that can be looked up
  created,     \* the ids ever generated: a QueryIfo outlives its erasure
  tagged,      \* tagged[q]: the tag of q is not empty
  state,       \* state[q]: QueryIfo::state
  feats,       \* feats[q]: rows of pos_feats, entries of pos_paths
  model,       \* model[q]: data.model is not empty
  ranking,     \* ranking[q]: the parts of data.ranking that are filled
  owner,       \* owner[b]: the query of batch b
  image_count, \* image_count[b]: image_count_ of the callback of batch b
  arriving,    \* arriving[b]: images queued for download or post-processing
  value,       \* value[t]: the count that thread t read and is about to change
  overlap,     \* overlap[b]: b was counted down while it was queued (history)
  pc, job, qry, \* pc[t], job[t], qry[t]: place, task and query of thread t
  left,        \* left[t]: urls or paths that thread t has still to handle
  batch,       \* batch[t]: the batch thread t works on
  read,        \* read[t]: the state that thread t is about to announce
  todo,        \* what train_rank_get_ranking has still to do
  posted,      \* posted[q]: the state changes announced to subscribers
  all_images,  \* all_images[q]: all images were announced as processed
  reported,    \* reported[q]: an error of q was posted or replied
  terminated,  \* the thread that ended the process and why, if one did
  requests     \* the number of requests accepted

query_vars    == <<queries, created, tagged>>
data_vars     == <<feats, model, ranking>>
download_vars == <<owner, image_count, arriving, value, overlap>>
thread_vars   == <<job, qry, left, batch, read, todo>>
report_vars   == <<posted, all_images, reported>>
vars == <<query_vars, state, data_vars, download_vars, pc, thread_vars,
          report_vars, terminated, requests>>

States == {"DATACOLL", "DATACOLL_COMPLETE", "TRAINING", "TRAINED",
           "RANKING", "RANKED"}
Jobs   == {"train", "rank", "load"}
Labels ==
  {"idle", "next", "get", "check", "set", "announce", "compute", "sort",
   "finish", "announce_done", "queue", "file", "process", "feature",
   "recheck", "push", "add", "count", "subtract", "remaining", "fetch",
   "callback", "complete",
   "announce_all", "announce_complete", "post", "post_done", "post_complete",
   "dead"}

\* Why the process ends: a query is not found, a CHECK of the scores, of the model or
\* of the number of images fails, a page is behind the last one, or it is one of Faults.
Reasons == {"lookup", "scores", "model", "count", "page", "file", "image", "folder"}

TypeOK ==
  /\ queries \subseteq created /\ created \subseteq Queries
  /\ tagged \in [Queries -> BOOLEAN]
  /\ state \in [Queries -> States]
  /\ feats \in [Queries -> Nat]
  /\ model \in [Queries -> BOOLEAN]
  /\ ranking \in [Queries -> SUBSET {"scores", "sort_idxs"}]
  /\ owner \in [Batches -> Queries \cup {None}]
  /\ image_count \in [Batches -> Int]
  /\ arriving \in [Batches -> Nat]
  /\ value \in [{Serve, Post} -> Int]
  /\ overlap \in [Batches -> BOOLEAN]
  /\ pc \in [Threads -> Labels]
  /\ job \in [Threads -> Jobs \cup {None}]
  /\ qry \in [Threads -> Queries \cup {None}]
  /\ left \in [Threads -> 0..MaxUrls]
  /\ batch \in [Threads -> Batches \cup {None}]
  /\ read \in [Threads -> States]
  /\ todo \in {<<>>, <<"get_ranking">>, <<"rank", "get_ranking">>}
  /\ posted \in [Queries -> Seq(States)]
  /\ all_images \in [Queries -> BOOLEAN]
  /\ reported \in [Queries -> BOOLEAN]
  /\ terminated \subseteq [thread : Threads, why : Reasons]
  /\ requests \in 0..MaxRequests

Init ==
  /\ queries = {} /\ created = {}
  /\ tagged = [q \in Queries |-> TRUE]
  /\ state = [q \in Queries |-> "DATACOLL"]
  /\ feats = [q \in Queries |-> 0]
  /\ model = [q \in Queries |-> FALSE]
  /\ ranking = [q \in Queries |-> {}]
  /\ owner = [b \in Batches |-> None]
  /\ image_count = [b \in Batches |-> 0]
  /\ arriving = [b \in Batches |-> 0]
  /\ value = [t \in {Serve, Post} |-> 0]
  /\ overlap = [b \in Batches |-> FALSE]
  /\ pc = [t \in Threads |-> "idle"]
  /\ job = [t \in Threads |-> None]
  /\ qry = [t \in Threads |-> None]
  /\ left = [t \in Threads |-> 0]
  /\ batch = [t \in Threads |-> None]
  /\ read = [t \in Threads |-> "DATACOLL"]
  /\ todo = <<>>
  /\ posted = [q \in Queries |-> <<>>]
  /\ all_images = [q \in Queries |-> FALSE]
  /\ reported = [q \in Queries |-> FALSE]
  /\ terminated = {}
  /\ requests = 0

-----------------------------------------------------------------------------
(* Steps that several operations share *)

Goto(t, from, to) == pc[t] = from /\ pc' = [pc EXCEPT ![t] = to]

\* Definitions marked as faults are what a plausible bug would make of the one
\* that follows.  No action uses them: each shows that a property can be broken.

\* Where a thread goes when its task is done: the serve thread goes on with the
\* request it serves, if there is more of it.
Done(t) == IF t = Serve /\ todo # <<>> THEN "next" ELSE "idle"

\* An exception in train_, rank_ or loadClassifier: a detached thread posts an
\* error and ends, the serve thread replies with the error.
Throw(t) ==
  /\ pc' = [pc EXCEPT ![t] = "idle"]
  /\ todo' = IF t = Serve THEN <<>> ELSE todo
  /\ reported' = [reported EXCEPT ![qry[t]] = TRUE]
  /\ UNCHANGED <<posted, all_images>>

\* An exception that no handler catches, or a CHECK that fails, ends the process
\* and all its threads.
Terminate(t, why) ==
  /\ terminated' = {[thread |-> t, why |-> why]}
  /\ pc' = [u \in Threads |-> "dead"]

\* The states that a job expects, the one it sets first and the one it sets last.
From   == [train |-> {"DATACOLL", "DATACOLL_COMPLETE"},
           rank  |-> {"TRAINED"},
           load  |-> {"DATACOLL"}]
During == [train |-> "TRAINING", rank |-> "RANKING", load |-> "TRAINING"]
After  == [train |-> "TRAINED",  rank |-> "RANKED",  load |-> "TRAINED"]

-----------------------------------------------------------------------------
(* train_, rank_ and loadClassifier *)

\* getQueryIfo_ at the start of a detached train_ or rank_, outside its try
\* block: if the query was freed the exception ends the process.
GetQueryIfo(t) ==
  /\ pc[t] = "get"
  /\ IF qry[t] \in queries
       THEN pc' = [pc EXCEPT ![t] = "check"] /\ UNCHANGED terminated
       ELSE Terminate(t, "lookup")
  /\ UNCHANGED <<query_vars, state, data_vars, download_vars, thread_vars,
                 report_vars, requests>>

CheckState(t) ==
  /\ pc[t] = "check"
  /\ \/ /\ state[qry[t]] \in From[job[t]]
        /\ Goto(t, "check", "set")
        /\ UNCHANGED <<todo, report_vars>>
     \/ /\ state[qry[t]] \notin From[job[t]]
        /\ Throw(t)
  /\ UNCHANGED <<query_vars, state, data_vars, download_vars, job, qry, left,
                 batch, read, terminated, requests>>

EnterState(t) ==
  /\ Goto(t, "set", "announce")
  /\ state' = [state EXCEPT ![qry[t]] = During[job[t]]]
  /\ UNCHANGED <<query_vars, data_vars, download_vars, thread_vars,
                 report_vars, terminated, requests>>

\* post_state_change_(id, query_ifo->state) reads the state once more, and
\* pushes it on the queue of notifications later.
ReadState(t) ==
  /\ \/ Goto(t, "announce", "post")
     \/ Goto(t, "announce_done", "post_done")
     \/ Goto(t, "announce_complete", "post_complete")
  /\ read' = [read EXCEPT ![t] = state[qry[t]]]
  /\ UNCHANGED <<query_vars, state, data_vars, download_vars, job, qry, left,
                 batch, todo, report_vars, terminated, requests>>

PostStateChange(t) ==
  /\ \/ Goto(t, "post", "compute")
     \/ Goto(t, "post_done", Done(t))
     \/ Goto(t, "post_complete", "idle")
  /\ posted' = [posted EXCEPT ![qry[t]] = Append(@, read[t])]
  /\ UNCHANGED <<query_vars, state, data_vars, download_vars, thread_vars,
                 all_images, reported, terminated, requests>>

TrainModel(t) ==
  /\ job[t] = "train"
  /\ Goto(t, "compute", "finish")
  /\ model' = [model EXCEPT ![qry[t]] = TRUE]
  /\ UNCHANGED <<query_vars, state, feats, ranking, download_vars, thread_vars,
                 report_vars, terminated, requests>>

\* readModelFromProto leaves the model alone if it cannot parse the file, and
\* what it returns is ignored; but a CHECK fails if there is no file (io.cc:277).
LoadModel(t) ==
  /\ job[t] = "load"
  /\ \/ /\ Goto(t, "compute", "finish")
        /\ \E file \in ModelFiles \ {"missing"} :
             model' = [model EXCEPT ![qry[t]] = @ \/ file = "valid"]
        /\ UNCHANGED terminated
     \/ /\ pc[t] = "compute" /\ "missing" \in ModelFiles
        /\ Terminate(t, "file")
        /\ UNCHANGED model
  /\ UNCHANGED <<query_vars, state, feats, ranking, download_vars, thread_vars,
                 report_vars, requests>>

\* Fault: the scores are not sorted.
ScoreDatasetOnly(t) ==
  /\ job[t] = "rank" /\ model[qry[t]]
  /\ Goto(t, "compute", "finish")
  /\ ranking' = [ranking EXCEPT ![qry[t]] = @ \cup {"scores"}]
  /\ UNCHANGED <<query_vars, state, feats, model, download_vars, thread_vars,
                 report_vars, terminated, requests>>

\* rankUsingModel multiplies, which needs a model, and then sorts.
ScoreDataset(t) ==
  /\ job[t] = "rank" /\ model[qry[t]]
  /\ Goto(t, "compute", "sort")
  /\ ranking' = [ranking EXCEPT ![qry[t]] = @ \cup {"scores"}]
  /\ UNCHANGED <<query_vars, state, feats, model, download_vars, thread_vars,
                 report_vars, terminated, requests>>

SortScores(t) ==
  /\ Goto(t, "sort", "finish")
  /\ ranking' = [ranking EXCEPT ![qry[t]] = @ \cup {"sort_idxs"}]
  /\ UNCHANGED <<query_vars, state, feats, model, download_vars, thread_vars,
                 report_vars, terminated, requests>>

\* Fault: the error is logged and neither posted nor replied.
ComputeFailsSilently(t) ==
  /\ job[t] \in {"train", "rank"}
  /\ pc[t] = "compute"
  /\ pc' = [pc EXCEPT ![t] = "idle"]
  /\ UNCHANGED <<query_vars, state, data_vars, download_vars, job, qry, left,
                 batch, read, todo, report_vars, terminated, requests>>

\* Fault: the exception is swallowed and the job goes on.
ComputeFailsIgnored(t) ==
  /\ job[t] \in {"train", "rank"}
  /\ pc[t] = "compute"
  /\ pc' = [pc EXCEPT ![t] = "finish"]
  /\ UNCHANGED <<query_vars, state, data_vars, download_vars, job, qry, left,
                 batch, read, todo, report_vars, terminated, requests>>

\* A cv::Exception or a std::runtime_error of train_ or rank_: the query stays
\* in the state it entered.
ComputeFails(t) ==
  /\ job[t] \in {"train", "rank"}
  /\ pc[t] = "compute"
  /\ Throw(t)
  /\ UNCHANGED <<query_vars, state, data_vars, download_vars, job, qry, left,
                 batch, read, terminated, requests>>

LeaveState(t) ==
  /\ Goto(t, "finish", "announce_done")
  /\ state' = [state EXCEPT ![qry[t]] = After[job[t]]]
  /\ UNCHANGED <<query_vars, data_vars, download_vars, thread_vars,
                 report_vars, terminated, requests>>

-----------------------------------------------------------------------------
(* BaseServerPostProcessor::process, called by the post-processing thread and *)
(* by addTrsFromFile_                                                         *)

\* What comes after an image: its count, or the next path of the file.
ImageDone(t) ==
  IF t = Post
    THEN pc' = [pc EXCEPT ![t] = "count"] /\ UNCHANGED left
    ELSE /\ left' = [left EXCEPT ![t] = @ - 1]
         /\ pc' = [pc EXCEPT ![t] = IF left[t] > 1 THEN "process" ELSE Done(t)]

process_vars == <<query_vars, state, model, ranking, download_vars, job, qry,
                  batch, read, todo, report_vars, terminated, requests>>

\* Fault: images are taken until training begins.
TestCollectingLate(t) ==
  /\ pc[t] \in {"process", "recheck"}
  /\ \/ /\ state[qry[t]] \in {"DATACOLL", "DATACOLL_COMPLETE"}
        /\ pc' = [pc EXCEPT ![t] = IF pc[t] = "process" THEN "feature"
                                                        ELSE "push"]
        /\ UNCHANGED left
     \/ /\ state[qry[t]] \notin {"DATACOLL", "DATACOLL_COMPLETE"}
        /\ ImageDone(t)
  /\ UNCHANGED <<feats, process_vars>>

\* The state is tested before and after the feature is computed.
TestCollecting(t) ==
  /\ pc[t] \in {"process", "recheck"}
  /\ \/ /\ state[qry[t]] = "DATACOLL"
        /\ pc' = [pc EXCEPT ![t] = IF pc[t] = "process" THEN "feature"
                                                        ELSE "push"]
        /\ UNCHANGED left
     \/ /\ state[qry[t]] # "DATACOLL"
        /\ ImageDone(t)
  /\ UNCHANGED <<feats, process_vars>>

\* The feature is computed or, of an image of the dataset, looked up.  A thread may
\* wait for a network for ever: NetPool has the details.
ComputeFeat(t) ==
  /\ Goto(t, "feature", "recheck")
  /\ UNCHANGED <<left, feats, process_vars>>

\* An exception of another class, also one of the removal of an invalid image, or a
\* CHECK of the lookup or of the size of the feature: nobody handles it.
FeatFails(t) ==
  /\ pc[t] = "feature" /\ "image" \in Faults
  /\ Terminate(t, "image")
  /\ UNCHANGED <<query_vars, state, data_vars, download_vars, thread_vars,
                 report_vars, requests>>

\* InvalidImageError: the file is removed.
InvalidImage(t) ==
  /\ pc[t] = "feature"
  /\ ImageDone(t)
  /\ UNCHANGED <<feats, process_vars>>

PushFeat(t) ==
  /\ pc[t] = "push"
  /\ feats' = [feats EXCEPT ![qry[t]] = @ + 1]
  /\ ImageDone(t)
  /\ UNCHANGED process_vars

\* addTrsFromFile_ looks the query up in its own thread.
GetQueryIfoForFile(t) ==
  /\ pc[t] = "file"
  /\ IF qry[t] \in queries
       THEN pc' = [pc EXCEPT ![t] = "process"] /\ UNCHANGED terminated
       ELSE Terminate(t, "lookup")
  /\ UNCHANGED <<query_vars, state, data_vars, download_vars, thread_vars,
                 report_vars, requests>>

-----------------------------------------------------------------------------
(* The post-processing thread: ImageDownloader::run_postprocess_ and          *)
(* BaseServerCallback.  ImageDownloader.tla models the counting in detail.    *)

\* An image arrives: it was downloaded and is processed, or it was not.
TakeImage(b) ==
  /\ pc[Post] = "idle" /\ arriving[b] > 0
  /\ arriving' = [arriving EXCEPT ![b] = @ - 1]
  /\ qry' = [qry EXCEPT ![Post] = owner[b]]
  /\ batch' = [batch EXCEPT ![Post] = b]
  /\ \/ Goto(Post, "idle", "process")
     \/ Goto(Post, "idle", "count")
  /\ UNCHANGED <<query_vars, state, data_vars, owner, image_count, value, overlap,
                 job, left, read, todo, report_vars, terminated, requests>>

Queueing(b) == pc[Serve] \in {"queue", "add"} /\ batch[Serve] = b

\* image_count_[callback_hash] -= 1 is a read and a write, as += 1 is.
ReadToSubtract ==
  LET b == batch[Post] IN
  /\ Goto(Post, "count", "subtract")
  /\ value' = [value EXCEPT ![Post] = image_count[b]]
  /\ overlap' = [overlap EXCEPT ![b] = @ \/ Queueing(b)]
  /\ UNCHANGED <<query_vars, state, data_vars, owner, image_count, arriving,
                 thread_vars, report_vars, terminated, requests>>

WriteSubtracted ==
  /\ Goto(Post, "subtract", "remaining")
  /\ image_count' = [image_count EXCEPT ![batch[Post]] = value[Post] - 1]
  /\ UNCHANGED <<query_vars, state, data_vars, owner, arriving, value, overlap,
                 thread_vars, report_vars, terminated, requests>>

\* The count is read once more.  CHECK_GE(images_remaining, 0) ends the process.
TestRemaining ==
  LET images_remaining == image_count[batch[Post]] IN
  /\ pc[Post] = "remaining"
  /\ \/ images_remaining < 0 /\ Terminate(Post, "count")
     \/ /\ images_remaining >= 0
        /\ Goto(Post, "remaining", IF images_remaining = 0 THEN "callback" ELSE "idle")
        /\ UNCHANGED terminated
  /\ UNCHANGED <<query_vars, state, data_vars, download_vars, thread_vars,
                 report_vars, requests>>

\* Fault: the callback does not test the state.
TestDataCollDropped ==
  /\ Goto(Post, "callback", "complete")
  /\ UNCHANGED <<query_vars, state, data_vars, download_vars, thread_vars,
                 report_vars, terminated, requests>>

TestDataColl ==
  /\ Goto(Post, "callback", IF state[qry[Post]] = "DATACOLL" THEN "complete"
                                                       ELSE "announce_all")
  /\ UNCHANGED <<query_vars, state, data_vars, download_vars, thread_vars,
                 report_vars, terminated, requests>>

SetDataCollComplete ==
  /\ Goto(Post, "complete", "announce_all")
  /\ state' = [state EXCEPT ![qry[Post]] = "DATACOLL_COMPLETE"]
  /\ UNCHANGED <<query_vars, data_vars, download_vars, thread_vars,
                 report_vars, terminated, requests>>

AnnounceAllImages ==
  /\ Goto(Post, "announce_all", "announce_complete")
  /\ all_images' = [all_images EXCEPT ![qry[Post]] = TRUE]
  /\ UNCHANGED <<query_vars, state, data_vars, download_vars, thread_vars,
                 posted, reported, terminated, requests>>

-----------------------------------------------------------------------------
(* The serve thread.  A request that is refused, because its query is unknown *)
(* or its arguments are empty, changes nothing and is not modelled.           *)

Call(request) ==
  /\ request \in Requests
  /\ pc[Serve] = "idle"
  /\ requests < MaxRequests
  /\ requests' = requests + 1

\* Thread t starts on a task for query q.
Start(t, place, task, q) ==
  /\ pc[t] = "idle"
  /\ pc' = [pc EXCEPT ![t] = place]
  /\ job' = [job EXCEPT ![t] = task]
  /\ qry' = [qry EXCEPT ![t] = q]

\* The change of state is announced before the reply with the id is sent.
StartQuery(q) ==
  /\ pc[Serve] = "idle" /\ q \notin created
  /\ created' = created \cup {q}
  /\ queries' = queries \cup {q}
  /\ posted' = [posted EXCEPT ![q] = Append(@, state[q])]
  /\ UNCHANGED <<tagged, state, data_vars, download_vars, pc, thread_vars,
                 all_images, reported, terminated, requests>>

SetTag(q, empty) ==
  /\ Call("set_tag") /\ q \in queries
  /\ tagged' = [tagged EXCEPT ![q] = ~empty]
  /\ UNCHANGED <<queries, created, state, data_vars, download_vars, pc,
                 thread_vars, report_vars, terminated>>

\* A query past data collection ignores the urls.
AddTrs(q, b, n) ==
  /\ Call("add_trs") /\ q \in queries
  /\ tagged[q] /\ state[q] = "DATACOLL"
  /\ owner[b] = None
  /\ owner' = [owner EXCEPT ![b] = q]
  /\ image_count' = [image_count EXCEPT ![b] = 0]
  /\ Start(Serve, "queue", None, q)
  /\ left' = [left EXCEPT ![Serve] = n]
  /\ batch' = [batch EXCEPT ![Serve] = b]
  /\ UNCHANGED <<query_vars, state, data_vars, arriving, value, overlap, read,
                 todo, report_vars, terminated>>

\* The loop of downloadUrls goes on to the next url.
NextUrl(from) ==
  /\ Goto(Serve, from, IF left[Serve] > 1 THEN "queue" ELSE "idle")
  /\ left' = [left EXCEPT ![Serve] = @ - 1]
  /\ UNCHANGED <<query_vars, state, data_vars, owner, value, overlap, job, qry,
                 batch, read, todo, report_vars, terminated, requests>>

\* A url of https is skipped.
SkipHttps == NextUrl("queue") /\ UNCHANGED <<image_count, arriving>>

\* create_directories throws if it cannot make the folder of the images.
FolderFails ==
  /\ pc[Serve] = "queue" /\ "folder" \in Faults
  /\ Terminate(Serve, "folder")
  /\ UNCHANGED <<query_vars, state, data_vars, download_vars, thread_vars,
                 report_vars, requests>>

\* image_count_[callback_hash] += 1
ReadToAdd ==
  /\ Goto(Serve, "queue", "add")
  /\ value' = [value EXCEPT ![Serve] = image_count[batch[Serve]]]
  /\ UNCHANGED <<query_vars, state, data_vars, owner, image_count, arriving, overlap,
                 thread_vars, report_vars, terminated, requests>>

\* The push on the launch queue follows: what another thread does between the two it
\* may as well do after them.
QueueUrl ==
  LET b == batch[Serve] IN
  /\ NextUrl("add")
  /\ image_count' = [image_count EXCEPT ![b] = value[Serve] + 1]
  /\ arriving' = [arriving EXCEPT ![b] = @ + 1]

\* Fault: train does not test pos_paths.
DetachUntested(w, request, task, q) ==
  /\ Call(request) /\ q \in queries
  /\ Start(w, "get", task, q)
  /\ UNCHANGED <<query_vars, state, data_vars, download_vars, left, batch,
                 read, todo, report_vars, terminated>>

\* train and rank with block = false start a detached thread.
Detach(w, request, task, q) ==
  /\ Call(request) /\ q \in queries
  /\ task = "train" => feats[q] > 0
  /\ Start(w, "get", task, q)
  /\ UNCHANGED <<query_vars, state, data_vars, download_vars, left, batch,
                 read, todo, report_vars, terminated>>

\* With block = true the serve thread does it.  Nobody else erases queries, so
\* that the second lookup of the query cannot fail.
Block(request, task, q, rest) ==
  /\ Call(request) /\ q \in queries
  /\ task = "train" => feats[q] > 0
  /\ Start(Serve, "check", task, q)
  /\ todo' = rest
  /\ UNCHANGED <<query_vars, state, data_vars, download_vars, left, batch,
                 read, report_vars, terminated>>

\* The next call of trainAndRank.
ServeNext ==
  /\ pc[Serve] = "next"
  /\ pc' = [pc EXCEPT ![Serve] = IF Head(todo) = "rank" THEN "check" ELSE "fetch"]
  /\ job' = [job EXCEPT ![Serve] = IF Head(todo) = "rank" THEN "rank" ELSE None]
  /\ todo' = Tail(todo)
  /\ UNCHANGED <<query_vars, state, data_vars, download_vars, qry, left, batch,
                 read, report_vars, terminated, requests>>

GetRanking(q) ==
  /\ Call("get_ranking") /\ q \in queries
  /\ Start(Serve, "fetch", None, q)
  /\ UNCHANGED <<query_vars, state, data_vars, download_vars, left, batch,
                 read, todo, report_vars, terminated>>

\* Fault: the state is not tested.
FetchRankingUntested ==
  LET q == qry[Serve] IN
  /\ pc[Serve] = "fetch"
  /\ CASE "scores" \in ranking[q] ->
              /\ Goto(Serve, "fetch", "idle")
              /\ UNCHANGED <<todo, report_vars, terminated>>
       [] "scores" \notin ranking[q] ->
              Terminate(Serve, "scores") /\ UNCHANGED <<todo, report_vars>>
  /\ UNCHANGED <<query_vars, state, data_vars, download_vars, job, qry, left,
                 batch, read, requests>>

\* Fault: the serve thread waits for the ranking.
FetchRankingWaits ==
  LET q == qry[Serve] IN
  /\ pc[Serve] = "fetch"
  /\ state[q] = "RANKED"
  /\ CASE "scores" \in ranking[q] ->
              /\ Goto(Serve, "fetch", "idle")
              /\ UNCHANGED <<todo, report_vars, terminated>>
       [] "scores" \notin ranking[q] ->
              Terminate(Serve, "scores") /\ UNCHANGED <<todo, report_vars>>
  /\ UNCHANGED <<query_vars, state, data_vars, download_vars, job, qry, left,
                 batch, read, requests>>

\* getRanking: WrongQueryStatusError, or the CHECK that there are scores.  Then
\* getRankingProto_ throws std::range_error, which no handler catches, for a page
\* behind the last one.
FetchRanking ==
  LET q == qry[Serve] IN
  /\ pc[Serve] = "fetch"
  /\ \/ /\ state[q] # "RANKED"
        /\ Throw(Serve)
        /\ UNCHANGED terminated
     \/ /\ state[q] = "RANKED"
        /\ \/ "scores" \notin ranking[q] /\ Terminate(Serve, "scores")
           \/ /\ "scores" \in ranking[q] /\ "behind_last" \in RetrievePages
              /\ Terminate(Serve, "page")
        /\ UNCHANGED <<todo, report_vars>>
     \/ /\ state[q] = "RANKED"
        /\ "scores" \in ranking[q] /\ "in_range" \in RetrievePages
        /\ Goto(Serve, "fetch", "idle")
        /\ UNCHANGED <<todo, report_vars, terminated>>
  /\ UNCHANGED <<query_vars, state, data_vars, download_vars, job, qry, left,
                 batch, read, requests>>

FreeQuery(q) ==
  /\ Call("free_query") /\ q \in queries
  /\ queries' = queries \ {q}
  /\ UNCHANGED <<created, tagged, state, data_vars, download_vars, pc,
                 thread_vars, report_vars, terminated>>

\* addTrsFromFile, by thread t: detached, or the serve thread itself.
AddTrsFromFile(t, request, q, n) ==
  /\ Call(request) /\ q \in queries
  /\ state[q] = "DATACOLL"
  /\ Start(t, "file", None, q)
  /\ left' = [left EXCEPT ![t] = n]
  /\ UNCHANGED <<query_vars, state, data_vars, download_vars, batch, read,
                 todo, report_vars, terminated>>

\* writeModelToProto checks that the model has a column (io.cc:218), and that it was
\* written to the path of the client (io.cc:287).
SaveClassifier(q) ==
  /\ Call("save_classifier") /\ q \in queries
  /\ state[q] \in {"TRAINED", "RANKING", "RANKED"}
  /\ \/ model[q] /\ UNCHANGED <<pc, terminated>>
     \/ model[q] /\ "unwritable" \in Faults /\ Terminate(Serve, "file")
     \/ ~model[q] /\ Terminate(Serve, "model")
  /\ UNCHANGED <<query_vars, state, data_vars, download_vars, thread_vars,
                 report_vars>>

-----------------------------------------------------------------------------
\* dispatch_ runs the request that was received, for query q.
Dispatch(q) ==
  \/ StartQuery(q)
  \/ \E empty \in BOOLEAN : SetTag(q, empty)
  \/ \E b \in Batches, n \in 1..MaxUrls : AddTrs(q, b, n)
  \/ \E w \in Workers : \/ Detach(w, "train", "train", q)
                        \/ Detach(w, "rank", "rank", q)
  \/ Block("train_and_wait", "train", q, <<>>)
  \/ Block("rank_and_wait", "rank", q, <<>>)
  \/ Block("load_classifier", "load", q, <<>>)
  \/ Block("train_rank_get_ranking", "train", q, <<"rank", "get_ranking">>)
  \/ GetRanking(q)
  \/ FreeQuery(q)
  \/ \E n \in 1..MaxUrls :
       \/ AddTrsFromFile(Serve, "add_trs_from_file_and_wait", q, n)
       \/ \E w \in Workers : AddTrsFromFile(w, "add_trs_from_file", q, n)
  \/ SaveClassifier(q)

Accept == \E q \in Queries : Dispatch(q)

Step(t) ==
  \/ GetQueryIfo(t) \/ CheckState(t) \/ EnterState(t)
  \/ ReadState(t) \/ PostStateChange(t)
  \/ TrainModel(t) \/ LoadModel(t) \/ ScoreDataset(t) \/ SortScores(t)
  \/ ComputeFails(t) \/ LeaveState(t)
  \/ GetQueryIfoForFile(t) \/ TestCollecting(t) \/ ComputeFeat(t)
  \/ FeatFails(t) \/ InvalidImage(t) \/ PushFeat(t)

ServeStep == \/ SkipHttps \/ FolderFails \/ ReadToAdd \/ QueueUrl
             \/ ServeNext \/ FetchRanking
PostStep  == \/ ReadToSubtract \/ WriteSubtracted \/ TestRemaining
             \/ TestDataColl \/ SetDataCollComplete \/ AnnounceAllImages

Work == (\E t \in Threads : Step(t)) \/ ServeStep \/ PostStep

Next == Accept \/ (\E b \in Batches : TakeImage(b)) \/ Work

Spec == Init /\ [][Next]_vars

\* The serve thread keeps running, except that it may wait for ever for a network.  What
\* the other threads do is open, and no client has to send a request.
FairSpec ==
  /\ Spec
  /\ WF_vars(pc[Serve] # "feature" /\ Step(Serve))
  /\ WF_vars(ServeStep)

-----------------------------------------------------------------------------
(* Properties *)

\* base_server.cc:281, CHECK(!ranking.scores.empty()), and what the reply needs:
\* whoever finds a query in state RANKED finds a complete ranking in it, even if
\* other threads train and rank the same query.
RankedHasRanking ==
  \A q \in Queries : state[q] = "RANKED" => ranking[q] = {"scores", "sort_idxs"}

\* io.cc:218, CHECK_EQ(model.cols, 1): a query that claims to be trained has a
\* model to rank with and to save.
TrainedHasModel ==
  \A q \in Queries : state[q] \in {"TRAINED", "RANKING", "RANKED"} => model[q]

\* train tests pos_paths long before train_ uses pos_feats, in another thread:
\* when it does, there is something to train on.
TrainingHasFeatures ==
  \A t \in Threads : pc[t] = "compute" /\ job[t] = "train" => feats[qry[t]] > 0

\* Of what the code asserts on pain of the end of the process: the CHECKs of the
\* scores and of the model (base_server.cc:281, io.cc:218) never fail; a lookup that no
\* handler covers only fails in a detached thread whose query was freed after it was
\* started; and CHECK_GE(images_remaining, 0) (image_downloader.cc:153) only fails for a
\* batch of which an image was counted down while others were queued.
OnlyRacesFailAssertions ==
  \A end \in terminated :
    /\ end.why \notin {"scores", "model"}
    /\ end.why = "lookup" =>
         end.thread \in Workers /\ qry[end.thread] \notin queries
    /\ end.why = "count" => overlap[batch[Post]]

\* A query in TRAINING or RANKING is being worked on, or its failure was
\* reported: no client waits for a state change without hearing of an error, as
\* long as the server runs.
NoSilentStall ==
  \A q \in Queries :
    state[q] \in {"TRAINING", "RANKING"} /\ terminated = {} =>
      \/ reported[q]
      \/ \E t \in Threads :
           qry[t] = q /\ pc[t] \in {"announce", "post", "compute", "sort", "finish"}

\* The serve thread replies to every request, whatever the other threads wait for,
\* unless it waits for ever for a network itself.
Replies ==
  []<>(pc[Serve] # "feature") =>
    (pc[Serve] # "idle" ~> pc[Serve] = "idle" \/ terminated # {})

\* test_client.py:65, "training and ranking function operates in blocking
\* manner, stopping processing of all outstanding training images": the features
\* of a query that is past data collection do not change.
TrainingSetFrozen ==
  [][\A q \in Queries : feats'[q] # feats[q] => state[q] = "DATACOLL"]_vars

\* base_server.cc:607, "Cannot train unles state = QS_DATACOLL or
\* QS_DATACOLL_COMPLETE": train_ enters TRAINING from no other state.
TrainsFromDataColl ==
  [][\A q \in Queries : state'[q] = "TRAINING" =>
       state[q] \in {"DATACOLL", "DATACOLL_COMPLETE", "TRAINING"}]_vars

\* test_client.py:35, "these are sent when: a query changes state": two
\* notifications of a query in a row never name the same state.
NotifiedOfChanges ==
  \A q \in Queries : \A i \in 1..(Len(posted[q]) - 1) :
    posted[q][i] # posted[q][i + 1]
=============================================================================
