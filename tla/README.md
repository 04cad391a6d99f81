# A TLA+ model of cpuvisor-srv

cpuvisor-srv is a server for visual search on the fly. A client starts a query,
adds training images (urls, which the server downloads, or paths), and has a
linear classifier trained on their CNN features, with which the server ranks a
dataset of images whose features it keeps in memory. Paths are relative to the
root of the repository, whose C++ code is under `src/src/`.

Contents: [the system](#the-system), [modules](#modules), [runs](#runs),
[fairness](#fairness), [proofs](#proofs),
[disagreements](#where-the-code-disagrees-with-what-it-says),
[what is left out](#what-is-not-modelled), [plan](#plan).

## The system

### Components, their state and their operations

| component | source | state | operations |
|---|---|---|---|
| Network pool | `directencode/netpool/`, `caffe_encoder.cc` | `nets_`; for each network `ready_`, `compute_mutex_`; `ready_net_mutex_` and a condition variable for all | `CaffeEncoder::compute`, `getReadyNet`, `CaffeNetInst::compute` |
| Queries | `server/base_server.cc`, `query_data.h` | `queries_`; for each `QueryIfo` its state, tag, features, model and ranking | `startQuery`, `setTag`, `addTrs`, `addTrsFromFile`, `train`, `rank`, `trainAndRank`, `getRanking`, `freeQuery`, `loadClassifier`, `saveClassifier`; `BaseServerPostProcessor::process`, `BaseServerCallback` |
| Image downloader | `server/util/image_downloader.{cc,h}` | launch and post-processing queues, `image_count_` of each callback | `downloadUrls`, 30 x `run_launch_`, `body_handler`, `run_postprocess_` |
| Dataset index | `base_server.cc`, `server/util/{preproc,io}.cc` | `dset_feats_`, `dset_paths_`, `dset_paths_index_`, `dset_update_mutex_`; the feature file, its backup and its temporary files | the constructor, `addDsetImagesToIndex`, `rank_`, `computeFeat_` |
| Queues | `server/util/concurrent_queue{,_single_sub}.h` | the queue, its mutex and condition variable, `sub_count_` | `push`, `waitAndPop`, `tryPop` |
| Notifications | `server/util/status_notifier.cc`, `zmq_server.cc`, `visor-notifier.coffee`, `visor_notifier.py` | five queues with one reader each, `notify_socket_`, the messages kept for each subscriber | `post_*_`, `wait*_`, the four monitors of `ZmqServer`, the subscribers |
| Requests | `server/zmq_server.cc` | the REP socket | `serve_`, `dispatch_`, `getRankingPage_` |
| Clients | `src/webservice/`, `src/pyclient/`, `src/test_client.py` | the query they own, what they show, the timeout | requests of a page, which overlap and follow notifications; requests of a script, one at a time |
| Node web server | `src/webservice-node/` | one REQ socket with its messages and handlers | the routes of `apps/api/index.coffee`, `VisorClient`, `GoogleSearcher` |
| Preprocessing | `cpuvisor_preproc*.cc`, `cpuvisor_combine_chunks.cc` | the driver's `pids` and `active_workers`, its children, the SGE jobs, the files of the chunks and their index | compute a range, start a job for each range, combine |
| Numerical code | `directencode/caffe_encoder_utils.cc`, `classification/svm/`, `feat_util.cc` | none that is shared | encode, train, rank |

### How they interact

Three kinds of thread work on a query:

* the **serve thread** of `ZmqServer` receives a request, runs it to its end and
  replies. It erases queries, queues urls, and trains or ranks by itself if the
  request says `block`;
* **detached threads**, one for each `train`, `rank` or `addTrsFromFile` that
  does not block. They keep a `shared_ptr` to the query, so the data outlives
  `freeQuery`, but the *lookup* at their start does not;
* the **post-processing thread** of `ImageDownloader` takes images from a queue
  that 30 launch threads and the HTTP client fill, adds their features to the
  query, counts them, and runs the callback of their batch.

`QueryIfo::state` is a plain field and no lock protects it. All threads that
compute features compete for the networks of the pool. Notifications go through
`ConcurrentQueueSingleSub` to monitor threads, which publish them on one socket to
the web servers. These pass them on to all pages; a page reacts to those of its query.
`addDsetImagesToIndex` runs in the serve thread under the exclusive side of
`dset_update_mutex_`; `rank_` takes the shared side; `computeFeat_` takes none.

### What is hard, and what correctness means

| component | hard behaviour | what makes it correct |
|---|---|---|
| Network pool | flags change without the mutex of the scan; a post may precede the wait; exceptions | one thread for each network, no network leaks, nobody waits for ever |
| Queries | test and set of the state by three kinds of thread; errors that are only logged; lookups of freed queries | the data a state promises are there; a stalled query has reported an error; the state of a query that is used as intended only moves forward |
| Image downloader | counting down while counting up; failing and filtered urls | each image is counted once; the callback comes once, after the last image |
| Dataset index | crashes between writes and renames; readers during growth; failed renames leave memory and file different | consistent memory; a committed update is never lost |
| Queues | notification after the mutex was released | no lost wakeup; each item delivered once and in order |
| Requests | one thread serves everybody; what it does not handle ends the process | every request gets a reply, as long as no network is waited for without end; the assertions of the code fail only by the races that are named |
| Notifications | four threads in one socket, which ZeroMQ forbids; monitors that start before the socket is there; refused readers; late, slow and dying subscribers | until sends overlap each kind arrives in order and none twice; everything arrives if nothing goes wrong; a monitor is never refused |
| Clients | requests that overlap; notifications that repeat; a timeout that races with the end of the downloads; users who leave | they get a ranking or an error; a client that is not hasty sees the intended life of a query, and its threads never find the query gone |
| Node web server | handlers of overlapping requests are all called with the next reply | nobody is answered twice or by a later reply; own replies as long as messages do not overlap |
| Preprocessing | failing jobs, killed children, jobs that outlive their driver, a second run | the limit of jobs is kept and the driver ends; an index that can be read is a prefix of the list, and after a run in which nothing fails all of it, unless an earlier run tore a file |

`PROJECT.json` lists the hazards one by one, each with its line.

## Modules

Every module names the source of its definitions in its header; `PROJECT.json`
maps each definition to its lines. A definition marked `Fault` is used by no
action: it is what a plausible bug would make of the definition that follows it,
and shows that a property can be broken.

### `NetPool`, `NetAllocator`, `NetPoolProofs`

`NetPool` is `CaffeNetPool` and `CaffeNetInst::compute`. `pc[t]` is the place of
a thread, `idx[t]` the `i` of its scan, `ready`, `ready_net_mutex` and
`compute_mutex` are the fields. A scan tests one network in each step, because
`ready_` is written without the mutex of the scan. `Publish` (`ready_ = true`)
and `NotifyAll` are two steps, and `Catch` is the handler that does not notify.
`NetAllocator` says what the pool is for: a thread acquires a network that no
other has, and releases it. `Held` is the refinement mapping.

### `QueryServer`, `QueryClient`, `QueryLifecycle`, `QueryProofs`

`QueryServer` has one action for the part of each request that runs in
`dispatch_` (`Dispatch` is their disjunction), and one for each step of `train_`, `rank_`, `loadClassifier`,
`process`, `addTrsFromFile_`, the callback and `post_state_change_`. The steps are
as small as the reads and writes of shared fields: `CheckState`, `EnterState`,
`ReadState` (the state is read again for its announcement) and
`PostStateChange` are different actions. The same actions are used by a detached
thread and by the serve thread; they differ in what an exception does (`Throw`) and in
where they go when they are done. Features are counted, a model is present or
not, a ranking is the set of its parts that are filled.

An exception that no handler catches and a failing `CHECK` end the process
(`Terminate`); `terminated` records the thread and the reason:

| reason | thread | what ends the process |
|---|---|---|
| `lookup` | detached | `getQueryIfo_` outside the `try` block, of a query that was freed |
| `scores`, `model` | serve | `CHECK(!ranking.scores.empty())`, `CHECK_EQ(model.cols, 1)`; `OnlyRacesFailAssertions` says that they never fail, if no classifier file is corrupt |
| `count` | post-processing | `CHECK_GE(images_remaining, 0)` |
| `page` | serve | `std::range_error` for a page behind the last one |
| `file` | serve | a classifier file that is missing (`io.cc:277`) or cannot be written (`io.cc:287`) |
| `image` | any that computes features | an exception other than `InvalidImageError`, one of `fs::remove`, a `CHECK` of the lookup or of the size of the feature |
| `folder` | serve | `create_directories` of the downloader |

The last four depend on requests and on the world outside (`RetrievePages`,
`ModelFiles`, `Faults`); the runs have them all, with a client that stays within its
ranking in the two runs with clients.

A download is abstracted to an image that arrives or does not, and `ImageDownloader`
has the details; but `image_count_` is read and written in different steps here too
(`ReadToAdd`, `QueueUrl`; `ReadToSubtract`, `WriteSubtracted`), `value[t]` being what
thread `t` has read, since a lost update ends the process or calls the callback
early. `overlap[b]` is a history variable: an image of `b` was counted down while
others were still queued. `ComputeFeat` may wait for a network for ever.

A request that is refused (an unknown query, a wrong state in `addTrs`, an empty
tag) changes nothing and has no action.

`QueryClient` adds one client for each query: the page of `controllers.js` or a
script like `test_client.py`. `client[q]` is where it is. Of a page,
`shown[q]` is `$scope.state`, `timer[q]` its `$timeout`, and `sent[q]` counts the requests
that are on their way: they overlap, and any of them may arrive first. A page
reacts to every notification of a state (`Reaction`), in the step of the server that posts it
(`Notice`). That leaves nothing out: what delays a notification only delays the request that
follows it, and the request may be delayed anyway. In the same way a user leaves by `FreeQuery` in one step,
because free_query may take any time. A script sends the next request when it has the reply to
the last one, so its requests need no `sent`.

A page is `Hurried` if its timeout made it train, or if a state was announced to it
twice. Both happen, and both make it repeat a request: two trainings of one query race, one of them
fails, the page shows an error, its user leaves, and the other training looks up a query
that was freed, which ends the process. The properties say what holds without them.
Whatever else may end the process, a lost update of the count for instance, may do so for
any client.

`QueryLifecycle` is what the states of a query are meant to do: six states, each
followed by the next one, except that a query that was hurried may go back, but never to collecting
examples.

### `ImageDownloader`, `ImageDownloaderProofs`

`downloadUrls` in the serve thread, the launch threads, the end of a request and
`run_postprocess_`. `image_count_[hash] += 1` and `-= 1` run in different threads
without a lock and are a read and a write. The launch queue is a set, since 30
threads take from it and requests end in any order; the post-processing queue
has one reader and is a sequence. `overlap[b]` is a history variable: an image of `b`
was counted down before the last one was queued. The properties that hold say
what holds without such an overlap.

### `ConcurrentQueue`, `ConcurrentQueueProofs`

`push` releases the mutex before `notify_one`, so `Enqueue` and `NotifyOne` are
two actions. `Sleep` releases the mutex and waits in one step, as a condition variable
does, and `SpuriousWakeup` is what one may do.

### `Notifications`, `NotificationLog`, `MCNotifications`, `NotificationsProofs`

A notification is its number in `log`, which has the kinds of all that were
posted. `queue[k]` and `sub_count[k]` are a `ConcurrentQueueSingleSub`, in which a push or
a pop is one step (`ConcurrentQueue` has the details). A reader `r` subscribes, pops and
returns in three steps (`pc[r]`), with its notification in `held[r]`. Each monitor is the only
reader of its queue; the queue of index updates has none, but
`wait_index_updated` is public, so that a program around the server may read it (`Guests`), with several
threads. `TestSocket` begins a send and `EndSend` ends it. Two sends that overlap are undefined
behaviour, and what comes after it is open: from then on (`overlapped`) an assertion of the library
may end the process (`EndClash`), and a subscriber may receive anything that was ever posted, again and in any order, or
be ended by a garbled message, or receive nothing any more (`ReceiveClashed`).
`pipe[s]` are the messages on their way, of which ZeroMQ keeps `HighWater` and drops
the others. `Receive` is the loop of a subscriber, that of node ends at an error
(`visor-notifier.coffee:42-43` throws for a type it does not know).

`NotificationLog` is what a web server is promised: of each kind it receives a
subsequence of what was posted, in order. The promise is `broken` by the first overlap, after which
it says nothing.

### `NodeClient`, `NodeClientProofs`

`req_socket` is `sent` and `replied`: messages are replied to in the order of their sending,
whatever sent them. `req_socket.once` adds to `handlers`, and the next reply (`Reply`) calls
all of them. `download_trs` sends a second message when its search is done (`Found`),
and `tagged` are those that did. The search is external: it may never end, because nobody
handles its timeout; if it fails, the handler calls back and then throws (`NotFound`). `rank` sets no
handler and never calls back, and the route `free` calls `rank`. `overlapped` is a history variable.

### `IndexUpdate`, `IndexUpdateProofs`

The dataset only grows at its end, so a number stands for a prefix of it: rows in
`feats`, entries in `paths`, images in each file. `Missing` (-1) is no file and `Partial`
(0) one whose end was not written, so that a file that holds more is a greater number.
`addDsetImagesToIndex` is one action for each row, file operation and
notification; `Crash` is possible everywhere, `Restart` reads the file, and
`Restore` is the operator who follows the error message and renames the backup.
Rankings take the lock as readers, lookups do not.

### `Slices`, `Preprocessing`, `PreprocessingProofs`

`Slices` has the arithmetic that cuts a list into chunks and a ranking into pages.
In `Preprocessing` the driver is `pc` with `next` (the `i` of its loop), `pids` (the
children whose `pids[i]` is not 0) and `active_workers`. A child is named by the run of its driver
and its chunk. `child[p]` is what the driver can learn by `wait`: since a child returns 0 whatever
became of its job, only a killed one has failed. `job[p]` is the job on the cluster, which goes
on when its child is killed (`KillChild`) or its driver ends (`Reap` of a killed child,
`ForkFails`). A job tests for its file, opens it (`Truncate`) and writes it in
three steps, so that a job of an earlier run can come between. A file is the
sequence of its images, `Missing` or `Torn`; its name is data of its own, so that name and
contents can disagree. `Readable` and `Contents` are `readFeatsFromProto`. Nobody
edits the list of images while a driver or a job runs (`AddImage`).

## Runs

| run | instance | shows |
|---|---|---|
| `netpool_safety` | 3 threads, 2 networks, 2 calls each, exceptions | `Exclusive`, `FlagAgrees`, `ImplementsAllocator` |
| `netpool_enough` | 2 threads, 2 networks, 3 calls | `NoWaiting`, `Served`: with as many networks as threads no thread waits |
| `netpool_lost_wakeup` | 2 threads, 1 network | counterexample to `WaiterIsWoken` |
| `query_all` | 1 query, every kind of request, 3 of them in any combination, 2 detached threads, 2 urls or paths, every fault outside | `OnlyRacesFailAssertions`, `RankedHasRanking`, `TrainedHasModel`, `TrainingHasFeatures`, `NoSilentStall`, `Replies` |
| `client_races` | 1 page or script with its query, 2 urls or paths, 2 detached threads | `OnlyHastyPagesLoseQueries`, `ImplementsLifecycle`, `ClientTrainingSetFrozen` |
| `client_served` | the same with 1 url or path | `ClientServed` |
| `downloader_batches` | 2 batches of 2 urls | `CountIsOutstanding`, `CallbackWhenQueuedFirst`, `EachImageOnce`, `CallbackAfterQueueing` |
| `index_crash` | 3 updates of at most 2 images, 2 rankers, 1 restart, 2 temporary names, files of at most 5 images can be read | `PathHasFeature`, `RankingIndicesValid`, `CommittedSurvives`, `UpdateEnds` |
| `queue_all` | 2 producers with 3 items, 3 consumers | `NoLostWakeup`, `Delivered` |
| `preprocessing_runs` | 4 or 5 images, 2 runs of the driver with chunks of 2 or 3, a combination with chunks of 2, 2 jobs at a time, 2 faults | `LimitRespected`, `MergeAfterChunks`, `IndexReadsPrefix`, `CleanRunCompletes`, `DriverEnds` |
| `notifications` | 2 monitors, the queue without one and 2 readers of it, a Python and a node subscriber, 3 notifications, 2 messages kept | `SocketStoredFirst`, `OneSubscriber`, `OnlyOverlapsTerminate`, `ImplementsLog`, `DeliveredIfUndisturbed` |
| `node_client` | 4 requests of 3 routes | `AnsweredOnce`, `OwnReplyUnlessOverlapped`, `NeverLaterReply`, `AnsweredAtLast` |

Why the bounds are enough:

* Three threads and two networks are the least with which a thread waits while
  two others give networks back; two calls let a thread come back while
  others still scan.
* Races on a query are between two requests: two detached threads, the serve
  thread and the post-processing thread are all there are. Three requests are two that race and one that
  starts or frees the query, or reads what they left.
* `query_all`, `client_races` and `client_served` have a `VIEW` that leaves out what no step looks at again: the
  history of announcements (but not how often each was made, if a property asks), and the task of a thread that is done;
  and one detached thread counts for another.
  Two states with the same view have the same steps, but for which detached thread takes them, and satisfy the same properties. So it is with
  `notifications`, whose view leaves out what was received once two sends have overlapped, when nothing is promised.
  The `MaxRequests` of the two runs with clients is never reached.
* Two urls are the least with which the count of a batch is read while it is changed, with which a callback comes
  early or the count becomes negative, and with which a download is left when the
  page times out. Whether a page waits for ever depends on one download that hangs; with more urls
  it only waits for more of the same.
* A second client would only delay the first: no step for one
  query writes a variable of another, and delays are in the model already.
* The four monitors differ in nothing but their message, and two are the least with which sends
  overlap. Three notifications are one that is dropped by a full pipe of two, or two of a kind
  with one of another between them.
* Four requests of the node web server are two `add_trs`, each with two messages, and two others that
  come between. `start_query` and `ranking` handle their replies as `train` does, and `free` is `rank`.
* The counts of a batch are disturbed by two images; a second batch
  shares the threads, and nothing is shared by three that is not shared by two.
* Three updates are one that fails, one that starts from what it left and one
  that finds both temporary names taken; the code tries a hundred names. With five
  images as the most a reader accepts, the index outgrows it in the third.
* Two runs of the driver are the least with which a job is left behind, and two
  faults leave one and then make it fail. Five images in chunks of two are three chunks, of
  which the last is short; with a limit of two the driver waits for either of the first
  two. Of the fourth and the fifth image one is at the end of a chunk.
* Three consumers are the least with which one is asleep while two compete for
  an item.

`CHECK_DEADLOCK FALSE` is set where threads stop after a bounded number of calls or
the process may stay down. In the queues nothing may stop: consumers
always wait for more and may wake up spuriously.

## Fairness

* `QueryServer` has weak fairness of the serve thread, but not of `ComputeFeat`: with fewer networks than threads
  that compute features, the lost wakeup of `NetPool` lets it wait for ever. `Replies` therefore only speaks of behaviours in which
  the serve thread is not at `feature` for good. Nothing is asked of detached threads, of the post-processing thread or of
  downloads: whatever they do, or never do, no request waits for them.
* In `NetPool` a thread that is inside the pool keeps running. Nothing blocks it but the mutexes and the
  condition variable that are modelled.
* No client has to send a request, and no download has to end, because the HTTP
  client is used without a timeout. `CallbackAfterQueueing` therefore
  assumes that requests are answered (`AllAnswered`).
* `ClientFairSpec` has weak fairness of all steps of the server together, and of all steps of
  clients together. This is less than the fairness of each thread and enough, since nothing
  in the server goes round for ever. Nothing asks that downloads end (`TakeImage`) or that users leave.
  A timeout is a step of its client: `$timeout` does not fail to come. With one client, only one thread
  computes features at a time, so that it does not wait for a network: `NoWaiting` of `NetPool`.
* `Notifications` has weak fairness of each monitor and each subscriber, which run in loops.
  Nobody has to post, no guest has to read, and a subscription may take any time.
  `DeliveredIfUndisturbed` names what else may go wrong.
* `NodeClient` has weak fairness of replies: it assumes `Replies` of `QueryServer` and a server that goes on. Searches may hang.
* `IndexUpdate` has strong fairness of `LockExclusive`: a `boost::shared_mutex` lets no
  new reader in while a writer waits, but which thread is first to wait is up to the
  scheduler. The serve thread keeps running except where it computes a feature (`compute`), which may wait for a network
  for ever; `UpdateEnds` is about behaviours in which it does not.
* `Preprocessing` has weak fairness of the driver and of each job: `qsub -sync y` comes
  back when the cluster has run the job. Nothing has to fail, and no driver has to be started.
* `WF(Pop(c))` in `ConcurrentQueue`: the launch threads, the post-processing thread and
  the monitors call `waitAndPop` in a loop. No fairness is asked of spurious wakeups.

## Proofs

The theorems are in the modules `*Proofs`, one beside each component (`QueryProofs` has those of the server
and of its clients), and hold for
every value of the constants that the component's assumption allows (`PoolAssumption`,
`ServerAssumption`, `DownloaderAssumption`, `QueueAssumption`, `IndexAssumption`, `NotificationAssumption`,
`NodeAssumption`, `PreprocAssumption`: the kinds of thread are disjoint, `None` is none of them, bounds are natural
numbers, a chunk and a list are not empty). The bounds of the
model (`MaxRequests`, `MaxPushes`, ...) are parameters like any other.
Each proof is a list of lemmas, one for each conjunct of an inductive
invariant, with one step for each action; the theorems put them together.

| module | theorem | further condition |
|---|---|---|
| `NetPoolProofs` | `TypeCorrect`, `PoolExclusive`, `PoolFlagAgrees`, `PoolUncontended`, `PoolImplementsAllocator` | |
| | `PoolNoWaiting` | there are finitely many threads, and a network for each |
| `QueryProofs` | `ServerTypeCorrect`, `ServerRankedHasRanking`, `ServerTrainingHasFeatures`, `ServerNoSilentStall` | |
| | `ServerTrainedHasModel`, `ServerOnlyRacesFailAssertions` | no corrupt file is passed to `load_classifier` |
| | `ClientsAreServed`, `ClientSetFrozen`, `ClientImplementsLifecycle`, `ClientOnlyHastyPagesLose` | |
| `ImageDownloaderProofs` | `TypeCorrect`, `ImagesOnce`, `CountsOutstanding`, `CallbackOnceAtEnd` | |
| `ConcurrentQueueProofs` | `QueueTypeCorrect`, `QueueTakeFindsItem`, `QueueNoLostWakeup` | |
| `IndexUpdateProofs` | `IndexTypeCorrect`, `IndexPathHasFeature`, `IndexRankingIndicesValid` | |
| | `IndexCommittedSurvives`, `IndexSuccessIsSaved` | closing a file reports its errors (`UncheckedClose = FALSE`) |
| `NotificationsProofs` | `NotificationsTypeCorrect`, `NotificationsSocketStoredFirst`, `NotificationsOneSubscriber`, `NotificationsOnlyOverlapsTerminate`, `NotificationsImplementLog` | there are finitely many monitors and guests |
| `NodeClientProofs` | `NodeTypeCorrect`, `NodeAnsweredOnce`, `NodeNeverLaterReply`, `NodeOwnReplyUnlessOverlapped` | |
| `PreprocessingProofs` | `SlicesPartition`, `OnlyLastSliceIsShort`, `PagesPartition` | the list is not empty and the size is not 0 |
| | `TypeCorrect`, `LimitKept`, `MergeComesLast`, `IndexIsPrefix`, `CleanRunIsComplete` | |

The conditions are needed: without them the properties are false, as the
section on disagreements says.

* **NetPool.** `Exclusive` alone is not inductive: a thread that has found a ready network
  takes it only because nobody else can between its test and `ready_ = false`.
  The invariant adds that the threads between these steps hold the mutex of the
  pool (`MutexInv`), that the `i` of a scan is the index of a network (`IndexInv`),
  that a thread inside `compute` holds the mutex of its network
  (`ComputeMutexInv`), and that a network is not ready exactly if some thread
  has it (`FlagAgrees`), which is also the refinement argument: `Held` changes
  when `ready_` does. For `NoWaiting`, a scan takes several steps, so that a network it found busy may be
  ready again when it ends. `ScanInv` says what it knows all the same: the networks behind it were each in
  the hands of another thread, and a thread that lets go of one cannot take one behind the scan while
  the scan has the mutex, so these threads are all different. A scan that found nothing would have met as
  many others as there are networks.
* **QueryServer.** The state of a query is no lock: two threads can pass the
  same test. What holds nevertheless rests on data that is never taken back. A
  thread that tested the state finds a model (`ModelInv`), the thread that sets
  `QS_RANKED` has filled the ranking itself (`RankingInv`), the features that
  `train` found are still there (`FeatInv`). `PlaceInv` says which thread can be at
  which place: the serve thread never looks a query up outside a handler, except in
  `add_trs_from_file`, where the query cannot be freed meanwhile because it would have to
  free it itself (`TerminateInv`). The `CHECK`s of the scores and of the model follow from `RankingInv` and
  `ModelInv`. For `CHECK_GE` of the count, `DownloadInv` says that the count of a batch without `overlap` is the
  number of its images that are on their way or in hand (`Counted`), and that a count which was read is still
  true, because the two threads that change it do not do so at once; so it is not negative when it is tested.
  Once the process has ended nothing moves (`DeadStays`), which leaves the
  step that ends it: `EndsFor` lists who may end it and why. `NoSilentStall` is inductive beside `PlaceInv`. For the
  types of the counters, a loop over urls has one left (`LoopInv`).
* **QueryClient.** The server leaves everything open, so what holds is due to how the clients use it. The proof
  does not look at the actions of the server one by one but at what a client can tell of a step (`Visible`): a thread passes
  on, throws, sets the state, reads it, posts it, goes on with the next call, or ends the process (`WorkDoes`). Such a step, like one of another
  client, leaves alone whatever belongs to a query that its thread does not work for (`Elsewhere`,
  `ClientElsewhere`), so that one query is enough to look at. `WhoInv` and `ServeInv` say which
  threads work for a page and which for a script. `CalmInv` is about queries whose client does not hurry. Of a page
  (`PageInv`): a request to train or to rank that is under way is the only one, and then no thread has that task yet
  (`SentInv`); at most one thread has a task, and the query is in the state which that thread expects (`TaskInv`);
  a state is announced while the query is in it or past it, and the page sends nothing before it is told to (`ToldInv`);
  a page that shows a ranking or an error has nothing under way (`ShownInv`). The page of a calm
  query therefore reacts to a state only while its query is still in it. Of a script (`ScriptInv`): the serve
  thread finds the query in the state in which the last call left it. For the refinement, each
  state that is set is then the next one (`CalmFollows`), a step that makes a query hurried leaves its state alone, and nobody sets
  `QS_DATACOLL` again. For `OnlyHastyPagesLoseQueries`, `HastyInv` adds that a thread
  which still has to look its query up finds it, or the page of that query is hasty: a calm page is left
  only where no thread can be at its start (`LeavesNoThread`).
* **ImageDownloader.** That no image is lost is the easier half: the places an image can be at exclude each
  other and the one the loop pushes is new (`QueuedInv`, `DistinctInv`, `DisjointInv`). The count is read in one step
  and written in another, so `CountIsOutstanding` needs that a value that was read is still the
  count (`ReadInv`). That is what `overlap` excludes: the serve thread writes the count of a batch only while it queues
  it, and the post thread works on a batch without `overlap` only when it is queued. `CallbackInv` then says that the callback
  which is about to be called is the first of its batch and finds no image outstanding.
* **Slices.** Division rounds down, so `Count` is the least number of slices that is enough
  (`CountBounds`); the element `k` is in the slice `k \div size` and, as products are
  monotonic, in no other. The floating point numbers of the code are exact up to
  2^24 images in a ranking and 2^53 in a list.
* **ConcurrentQueue.** `NoLostWakeup` compares numbers: items against the
  producers that are about to notify and the consumers that are awake. The proof
  counts these sets with the theorems on cardinality, and needs `MutexInv`: a
  consumer that saw an empty queue still has the mutex when it goes to sleep.
* **IndexUpdate.** In memory, rows are appended before paths and only by the thread that
  has the lock (`GrowthInv`), and a ranking that is made holds the lock as a
  reader (`ReaderInv`). On disk, `DiskInv` says for each step of the save where the last
  complete file is: under its name, or under the backup's. That the first free
  temporary name exists uses that the naturals are well-founded.
* **Preprocessing.** `active_workers` is the number of `pids` until all chunks are forked (`WorkerInv`), and `pids` are the
  children that were not waited for (`ReapInv`); a child that was waited for has ended with its job unless it was
  killed, which is where `LOG(FATAL)` ends the driver. For the index, `FileInv` says that a file is never missing again
  and is torn or right, although jobs of several runs write it with whatever sizes of chunks: its name says which part of the list it
  is. `ScanInv` follows a merge that reads the chunks one after the other. That the chunks in a row
  are the list is a fact about flattening sequences, whose proof takes the first place where they would differ, since induction
  is out of reach. For `CleanRunCompletes`, `DoneInv` has what the last jobs leave, and `TearInv` says of every torn file
  that a job which opened it died or is still writing: in a run without a failed job it can only be one of an earlier
  run, whose file this run skipped as existing (`TornBefore`).
* **Notifications.** `OneSubscriber` counts the readers of a queue, by the
  theorems on cardinality. A monitor is alone in its queue, so `sub_count` is 0 whenever it subscribes
  (`PcInv`), which is why only an overlap ends the process (`OverlapInv`). Nothing is posted before
  the socket is stored (`SocketInv`). For the refinement, `FlowInv` follows a kind of notification on its way:
  what a subscriber has received is older than what is in its pipe, that is older than what the monitor
  holds, and that is older than what is in the queue. Each step moves a notification one place on, or drops it,
  and keeps this order; so what is received next is later than all of its kind before, for
  any number of monitors, guests and subscribers. That is so until two sends overlap; after
  that `ReceiveAny` of the abstract specification allows what `ReceiveClashed` does.
* **NodeClient.** `AnsweredOnce` needs that a request that waits or is searched for has no answer, and is in one of
  the two sets (`PendingInv`, `OpenInv`). The reply that arrives has the number `replied + 1`, and every handler belongs to a
  request with a message that was not replied to; so it is answered by its own message or an earlier one (`AnswerInv`).
  Without overlaps at most one message is under way and its sender is the only one with a handler
  (`LockStepInv`), a `rank` being under way without one.

Model-checked only: the liveness properties (`Served`, `Replies`, `ClientServed`,
`CallbackAfterQueueing`, `UpdateEnds`, `DriverEnds`, `Delivered`, `DeliveredIfUndisturbed`, `AnsweredAtLast`),
since TLAPS does not reason about fairness here. Every safety property of the runs that hold, and each of the three refinements, is
proved. Proved and not in a run: the type invariants,
`TakeFindsItem` of `ConcurrentQueue` and `SuccessIsSaved` of `IndexUpdate`.

## Where the code disagrees with what it says

One run ends with a counterexample, which `PROJECT.json` quotes under `findings`:
`netpool_lost_wakeup`. A network becomes ready and is posted after a thread has
scanned it and before the thread waits. With fewer networks than threads it waits
for ever if no other thread uses the pool.

The modules state more that the code or its tests say and that does not hold. No run
is kept for these; each is found in a few seconds by making the property the
only one of a configuration with the instance given.

| property | module and instance | what happens |
|---|---|---|
| `ReadyIsPosted` | `NetPool`, as `netpool_lost_wakeup` with `MayThrow = TRUE` | the handler of an exception makes a network ready and posts nothing |
| `TrainingSetFrozen` | `QueryServer`, 2 requests of `add_trs` and `train` | `process` tests the state and adds the feature in two steps, so that a feature is added after `train_` has set `QS_TRAINING` |
| `TrainsFromDataColl` | `QueryServer`, 3 requests of `add_trs_from_file_and_wait` and `train` | two training threads pass the test of the state together |
| `NotifiedOfChanges` | `QueryServer`, 2 requests of `add_trs` and `train` | one state is announced twice in a row |
| `TrainedHasModel` | `QueryServer`, `load_classifier` with `ModelFiles = {"corrupt"}` | the result of reading the file is ignored and the query is `TRAINED` without a model |
| `AllImagesProcessed` | `ImageDownloader`, 1 batch of 2 urls | the callback of a batch runs in the middle of `downloadUrls` because the urls queued so far were fetched (`test_client.py:38` says it comes when all images are processed) |
| `ImagesRemainingNotNegative` | `ImageDownloader`, 1 batch of 2 urls | an increment is lost, the count becomes negative and a `CHECK` ends the process |
| `CallbackEvenIfFiltered` | `ImageDownloader`, `FairSpec`, 1 batch of 2 urls | the callback is only looked at after an image, and there is none |
| `ErrorsNotified` | `IndexUpdate`, 1 update | an image that cannot be read throws a class of errors that nobody catches |
| `LookupFindsPath` | `IndexUpdate`, 1 update | a path is read while the vector of paths grows |
| `WrittenIsComplete` | `IndexUpdate`, `UncheckedClose = TRUE` | the stream is tested before its last block is written |
| `FailureNoticed` | `Preprocessing`, as `preprocessing_runs` | a child returns 0 although its job failed, and the driver exits with 0 |
| `DoneIsComplete` | `Preprocessing`, as `preprocessing_runs` | a file that was torn is skipped as one that exists, in every later run |
| `FileIsReadable` | `IndexUpdate`, `MaxReadable = 3` | the file is written whatever its size and refused at the next start |
| `OneSender` | `Notifications`, as `notifications` | two monitors send on the PUB socket at once, which ZeroMQ forbids |
| `OrderAcrossKinds` | `Notifications`, as `notifications` | of two notifications of different kinds the later one is sent first |
| `ErrorsReachPages` | `Notifications`, as `notifications` | the process of the node web server ends when it is sent an error, although `controllers.js:99-101` shows errors |
| `IndexUpdatesTaken` | `Notifications`, as `notifications` | no monitor reads the queue of index updates, which only grows |
| `EveryRouteAnswers` | `NodeClient`, as `node_client` | `rank` never calls back, and `free` calls `rank` instead of `free_query`, so that neither is answered and no query is freed |
| `OwnQuery` | `NodeClient` with `start_query` in `Routes` | two overlapping `start_query` are answered with the same id |

That a request ends the process for all clients is no property of its own: the runs contain it, with the reasons of the
table in [`QueryServer`](#queryserver-queryclient-querylifecycle-queryproofs). A page behind the last one (`zmq_server.cc:362`), a
classifier file that does not exist and a path that cannot be written do so by one request.

A page also gets no word of an error in the reply to `get_ranking`: `controllers.js:83-88` takes it for a
ranking, fails and shows nothing. `Seen` has that: the page stays as it was, and only the notification of
a state or of an error can help it.

## What is not modelled

* **Numbers.** Features, scores and models have no values. Training and ranking
  may throw, and are otherwise one step for each field they fill.
* **Data races as undefined behaviour.** `image_count_`, the state of a query and
  the vector of paths are modelled with the interleavings of their reads and writes;
  that a `std::map` may break when two threads change it is not.
* **Other ends of the process.** An exception in a launch thread, of a url that the HTTP client cannot parse for
  instance, a thread that cannot be started, no memory, a signal. An interruption of a thread inside `waitAndPop`, which would leave its queue
  counted as read: threads are only interrupted when the server is destroyed.
* **`queries_`** is looked up and changed in one step.
* **Annotations**, `returnClassifiersScoresForImages`, the tools, logging, and the wording of
  messages: they change no state of the server.
* **Closing a file** is assumed to write its end in `index_crash` (`UncheckedClose`).
* **Preprocessing.** `--nolaunch`, images per process, and that an index which was extended by
  `addDsetImagesToIndex` is overwritten by the next combination.
* **ZeroMQ.** Reconnects, a server that is restarted under its clients, and messages that are lost on the
  way other than by a full pipe or a late subscription.
* **Clients.** `loadMore` of the page, and the paging, annotations and classifiers of the legacy wrapper.
  A page gets the id of its query before its timeout (20 s). Failed searches end the node web server
  and are in `NodeClient`; `QueryClient` has no failing web server.
* **Image encoding, the SVM, the command line tools**: numbers or single requests, without state of their own.

## Plan

Done: the network pool, queries, the downloader, the queues, the index, the
preprocessing, the arithmetic of chunks and pages, the notifications with
their monitors and subscribers, pages and scripts as clients, and the node web server. Left:

1. The clients that page: `loadMore` of the web client, whose overlapping clicks ask for
   one page twice, and `get_ranking_subset` of the legacy wrapper, which never asks
   for the second.
2. A restart of the server under its clients, whose queries are gone then.
