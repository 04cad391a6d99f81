---------------------------- MODULE QueryClient ----------------------------
(***************************************************************************)
(* QueryServer with its clients, one for each query.  A client is the page *)
(* of the web application (webservice/static/app/js/controllers.js), which *)
(* sends requests that overlap, goes on when it is notified and trains     *)
(* after a timeout; or a script that sends one request at a time and waits *)
(* for its reply (test_client.py, visor_legacy_wrap.py).                   *)
(* A page gets the id of its query before its timeout.  What the user does *)
(* is open: to leave a page while nothing is shown is to abandon it.       *)
(***************************************************************************)
EXTENDS QueryServer, FiniteSets, SequencesExt

VARIABLES
  client, \* client[q]: where the client of query q is
  shown,  \* shown[q]: $scope.state of the page
  timer,  \* timer[q]: the timeout of the page, "trained" if it sent a request
  sent    \* sent[q][k]: the requests k of the page that were not yet served

page_vars   == <<shown, timer, sent>>
client_vars == <<vars, client, page_vars>>

PageStates   == {"open", "ranking", "error", "left", "abandoned"}
PageRequests == {"add_trs", "train", "rank", "get_ranking"}

ClientInit ==
  /\ Init
  /\ client = [q \in Queries |-> "start"]
  /\ shown = [q \in Queries |-> "DATACOLL"]
  /\ timer = [q \in Queries |-> "armed"]
  /\ sent = [q \in Queries |-> [k \in PageRequests |-> 0]]

Then(q, from, to) == client[q] = from /\ client' = [client EXCEPT ![q] = to]

-----------------------------------------------------------------------------
(* The page.  A request may take any time to reach the serve thread, and may  *)
(* overtake others.  The time that notifications take, and the one in which   *)
(* free_query is under way, are part of that.                                 *)

IsPage(q) == client[q] \in PageStates

\* The handlers of a page that the user has left still run, but a query that was
\* freed refuses what they send.
Listens(q) == client[q] \in {"open", "ranking", "error"}

Send(q, k) == sent' = [sent EXCEPT ![q][k] = @ + 1]

PageOpens(q) ==
  /\ Then(q, "start", "open")
  /\ StartQuery(q)
  /\ Send(q, "add_trs")
  /\ UNCHANGED <<shown, timer>>

\* What the page sends when it is notified of a state.
Reaction == [DATACOLL_COMPLETE |-> "train", TRAINED |-> "rank", RANKED |-> "get_ranking"]

\* Fault: the timeout is never set.
PageTimesOutIdly(q) ==
  /\ Listens(q) /\ timer[q] = "armed"
  /\ timer' = [timer EXCEPT ![q] = "off"]
  /\ UNCHANGED <<vars, client, shown, sent>>

\* $timeout: the page trains unless it was notified of that.
PageTimesOut(q) ==
  /\ Listens(q) /\ timer[q] = "armed"
  /\ \/ /\ shown[q] \in {"DATACOLL", "DATACOLL_COMPLETE"}
        /\ timer' = [timer EXCEPT ![q] = "trained"]
        /\ Send(q, "train")
     \/ /\ shown[q] \notin {"DATACOLL", "DATACOLL_COMPLETE"}
        /\ timer' = [timer EXCEPT ![q] = "off"]
        /\ UNCHANGED sent
  /\ UNCHANGED <<vars, client, shown>>

\* Urls for a query that is past data collection are skipped.
SkipTrs(q) ==
  /\ pc[Serve] = "idle" /\ q \in queries /\ state[q] # "DATACOLL"
  /\ UNCHANGED vars

\* The serve thread receives request k.
Receive(q, k) ==
  /\ Listens(q)
  /\ sent[q][k] > 0 /\ sent' = [sent EXCEPT ![q][k] = @ - 1]

\* One idle thread is as good as another.
NewThread == IF \E w \in Workers : pc[w] = "idle"
               THEN CHOOSE w \in Workers : pc[w] = "idle" ELSE None

\* Fault: the page shows the ranking as soon as it asked for it.
ServePageAndShow(q, k) ==
  /\ Receive(q, k)
  /\ \/ k = "add_trs" /\ \E b \in Batches : AddTrs(q, b, MaxUrls)
     \/ k = "train" /\ NewThread # None /\ Detach(NewThread, "train", "train", q)
     \/ k = "rank"  /\ NewThread # None /\ Detach(NewThread, "rank", "rank", q)
  /\ client' = [client EXCEPT ![q] = IF k = "rank" THEN "ranking" ELSE @]
  /\ UNCHANGED <<shown, timer>>

\* A request for fewer urls is one in which some are https, which are skipped.
ServePage(q, k) ==
  /\ Receive(q, k)
  /\ \/ k = "add_trs" /\ \/ \E b \in Batches : AddTrs(q, b, MaxUrls)
                         \/ SkipTrs(q)
     \/ k = "train" /\ NewThread # None /\ Detach(NewThread, "train", "train", q)
     \/ k = "rank"  /\ NewThread # None /\ Detach(NewThread, "rank", "rank", q)
     \/ k = "get_ranking" /\ GetRanking(q)
  /\ UNCHANGED <<client, shown, timer>>

\* There is nothing to train on.
RefusePage(q) ==
  /\ Receive(q, "train")
  /\ pc[Serve] = "idle" /\ feats[q] = 0
  /\ shown' = [shown EXCEPT ![q] = "ERROR"]
  /\ client' = [client EXCEPT ![q] = "error"]
  /\ UNCHANGED <<vars, timer>>

\* The user goes elsewhere, or confirms the error.
UserLeaves(q) ==
  /\ \/ Then(q, "open", "abandoned")
     \/ Then(q, "ranking", "left")
     \/ Then(q, "error", "left")
  /\ FreeQuery(q)
  /\ UNCHANGED page_vars

PageStep(q) ==
  \/ PageOpens(q) \/ PageTimesOut(q) \/ RefusePage(q)
  \/ \E k \in PageRequests : ServePage(q, k)

-----------------------------------------------------------------------------
(* The script *)

ScriptStarts(q) ==
  /\ Then(q, "start", "add")
  /\ StartQuery(q)
  /\ UNCHANGED page_vars

\* It sleeps for a while after that, whatever happens to the downloads.
ScriptAddsUrls(q) ==
  /\ Then(q, "add", "train")
  /\ \E b \in Batches : AddTrs(q, b, MaxUrls)
  /\ timer' = [timer EXCEPT ![q] = "trained"]
  /\ UNCHANGED <<shown, sent>>

ScriptAddsFiles(q) ==
  /\ Then(q, "add", "train")
  /\ AddTrsFromFile(Serve, "add_trs_from_file_and_wait", q, MaxUrls)
  /\ UNCHANGED page_vars

ScriptTrains(q) ==
  /\ Then(q, "train", "wait")
  /\ Block("train_rank_get_ranking", "train", q, <<"rank", "get_ranking">>)
  /\ UNCHANGED page_vars

ScriptRefused(q) ==
  /\ Then(q, "train", "failed")
  /\ pc[Serve] = "idle" /\ feats[q] = 0
  /\ UNCHANGED <<vars, page_vars>>

ScriptFrees(q) ==
  /\ Then(q, "ranked", "done")
  /\ FreeQuery(q)
  /\ UNCHANGED page_vars

ScriptStep(q) ==
  \/ ScriptStarts(q) \/ ScriptAddsUrls(q) \/ ScriptAddsFiles(q)
  \/ ScriptTrains(q) \/ ScriptRefused(q) \/ ScriptFrees(q)

-----------------------------------------------------------------------------
(* What clients see of a step of the server *)

\* A detached thread ended with an exception, whose handler posts an error.
PostsError(q) ==
  \E w \in Workers : /\ qry[w] = q /\ pc[w] \in {"check", "compute"}
                     /\ pc'[w] = "idle"

PostsState(q) == Len(posted'[q]) > Len(posted[q])

RepliesRanking(q) == /\ qry[Serve] = q /\ pc[Serve] = "fetch"
                     /\ pc'[Serve] = "idle" /\ state[q] = "RANKED"

RepliesError(q) == /\ client[q] = "wait" /\ qry[Serve] = q /\ pc[Serve] # "idle"
                   /\ pc'[Serve] = "idle" /\ ~RepliesRanking(q)

\* Nobody looks at an error in the reply to get_ranking.
Seen(q) ==
  CASE client[q] \in {"open", "ranking"} /\ PostsError(q) -> "error"
    [] client[q] = "open" /\ RepliesRanking(q)            -> "ranking"
    [] client[q] = "wait" /\ RepliesRanking(q)            -> "ranked"
    [] RepliesError(q)                                    -> "failed"
    [] OTHER                                              -> client[q]

\* The handler of notifications.
Shows(q) ==
  CASE Listens(q) /\ PostsError(q) -> "ERROR"
    [] Listens(q) /\ PostsState(q) -> Last(posted'[q])
    [] OTHER                       -> shown[q]

Sends(q, k) == /\ Listens(q) /\ PostsState(q)
               /\ Last(posted'[q]) \in DOMAIN Reaction
               /\ Reaction[Last(posted'[q])] = k

Notice ==
  /\ client' = [q \in Queries |-> Seen(q)]
  /\ shown' = [q \in Queries |-> Shows(q)]
  /\ sent' = [q \in Queries |-> [k \in PageRequests |->
                 sent[q][k] + (IF Sends(q, k) THEN 1 ELSE 0)]]
  /\ UNCHANGED timer

ServerWorks == Work /\ Notice

ClientStep(q) == PageStep(q) \/ ScriptStep(q)

ClientNext ==
  \/ \E q \in Queries : ClientStep(q) \/ UserLeaves(q)
  \/ ServerWorks
  \/ (\E b \in Batches : TakeImage(b)) /\ Notice

ClientSpec == ClientInit /\ [][ClientNext]_client_vars

\* As long as a thread of the server can go on, one of them does; the same for
\* clients and their timeouts.  This is less than fairness of each, and enough since
\* nothing goes round for ever.  No thread waits for a network for ever: the one that
\* computes features for a client is the only one, and so there is one for each (NetPool).
\* Downloads may hang, and users may stay.
ClientFairSpec ==
  /\ ClientSpec
  /\ WF_vars(Work)
  /\ WF_client_vars(\E q \in Queries : ClientStep(q))

-----------------------------------------------------------------------------
(* Properties *)

\* The page was notified of a state more than once, and reacted each time.
Repeats(q) ==
  \E s \in DOMAIN Reaction :
    Cardinality({i \in DOMAIN posted[q] : posted[q][i] = s}) > 1

\* A client trained although examples may still arrive, or repeated a request.
Hurried == {q \in Queries : timer[q] = "trained" \/ Repeats(q)}

Lifecycle == INSTANCE QueryLifecycle WITH hurried <- Hurried

\* Unless a client trains before its downloads are complete, or reacts twice to a
\* state that is announced twice, the state of its query only moves forward, one
\* state after the other: a late callback never interferes.
ImplementsLifecycle == Lifecycle!Spec

\* Unless a client hurries like that, no feature is added once its query left data
\* collection, even if downloadUrls completed before all urls were queued.
ClientTrainingSetFrozen ==
  [][\A q \in Queries \ Hurried' : feats'[q] # feats[q] => state[q] = "DATACOLL"]_client_vars

\* A thread looks up a query that is gone only if it works for a page whose requests
\* were repeated, by its timeout or by a second announcement, or whose user left while it
\* had nothing to show yet.  The threads of all others find their query.
OnlyHastyPagesLoseQueries ==
  \A end \in terminated :
    end.why = "lookup" =>
      LET q == qry[end.thread]
      IN  IsPage(q) /\ (client[q] = "abandoned" \/ q \in Hurried)

\* Every page comes to show a ranking or an error and every script gets a reply,
\* even if no download ever ends: that is what the timeout is for.
Waiting(q) == client[q] \in {"open", "add", "train", "wait"}
ClientServed == \A q \in Queries : []<>(~Waiting(q) \/ terminated # {})
=============================================================================
