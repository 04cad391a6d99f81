----------------------------- MODULE QueryProofs -----------------------------
(***************************************************************************)
(* The theorems about QueryServer and QueryClient.  What the state of a    *)
(* query promises, for every number of queries, of detached threads and of *)
(* requests, although the state is tested and set in different steps; and  *)
(* what becomes of the queries of pages and scripts, of those that hurry   *)
(* and of those that do not.                                               *)
(***************************************************************************)
EXTENDS QueryClient, FiniteSetTheorems, TLAPS

\* The variables that the invariants are about.
TypeInv ==
  /\ queries \subseteq Queries
  /\ state \in [Queries -> States]
  /\ feats \in [Queries -> Nat]
  /\ model \in [Queries -> BOOLEAN]
  /\ ranking \in [Queries -> SUBSET {"scores", "sort_idxs"}]
  /\ pc \in [Threads -> Labels]
  /\ job \in [Threads -> Jobs \cup {None}]
  /\ qry \in [Threads -> Queries \cup {None}]
  /\ reported \in [Queries -> BOOLEAN]
  /\ terminated \subseteq [thread : Threads, why : Reasons]
  /\ owner \in [Batches -> Queries \cup {None}]

Training == {"check", "set", "announce", "post", "compute", "sort", "finish"}
Images   == {"process", "feature", "recheck", "push"}
Busy(t)  == pc[t] \notin {"idle", "dead"}

\* Which thread does what, and that it has a query to do it with.
PlaceInv ==
  /\ \A t \in Threads \ {Post} : pc[t] \notin {"idle", "dead"} => qry[t] \in Queries
  /\ pc[Post] \in Images \cup {"idle", "count", "subtract", "remaining", "callback",
       "complete", "announce_all", "announce_complete", "post_complete", "dead"}
  /\ pc[Serve] # "get"
  /\ \A t \in Threads : pc[t] \in Training \cup {"get"} => job[t] \in Jobs
  /\ \A t \in Threads : pc[t] = "sort" => job[t] = "rank"

\* The server starts without queries and with idle threads.
LEMMA InitPlace == Init => TypeInv /\ PlaceInv
  BY ServerAssumption
     DEF Init, TypeInv, PlaceInv, Threads, Labels, Jobs, States, Training, Images

-----------------------------------------------------------------------------
(* What the steps with several outcomes do *)

\* The variables of TypeInv that most steps leave alone.
Others == <<queries, feats, model, ranking, job, qry, owner>>

\* The test at the start of train_, rank_ and loadClassifier passes or throws.
LEMMA CheckStateDoes ==
  ASSUME TypeInv, NEW t \in Threads, CheckState(t)
  PROVE  /\ pc[t] = "check"
         /\ \/ /\ pc' = [pc EXCEPT ![t] = "set"]
               /\ state[qry[t]] \in From[job[t]]
               /\ reported' = reported
            \/ /\ pc' = [pc EXCEPT ![t] = "idle"]
               /\ reported' = [reported EXCEPT ![qry[t]] = TRUE]
         /\ reported' \in [Queries -> BOOLEAN]
         /\ UNCHANGED <<Others, state, terminated>>
<1>1. reported' \in [Queries -> BOOLEAN]
  BY DEF CheckState, Throw, TypeInv, report_vars
<1>2. QED
  BY <1>1 DEF CheckState, Throw, Goto, Others, report_vars, query_vars, data_vars,
     download_vars

\* After an announcement a thread computes, or it is done.
LEMMA PostStateChangeDoes ==
  ASSUME TypeInv, NEW t \in Threads, PostStateChange(t)
  PROVE  /\ \/ pc[t] = "post" /\ pc' = [pc EXCEPT ![t] = "compute"]
            \/ /\ pc[t] = "post_done"
               /\ \/ pc' = [pc EXCEPT ![t] = "idle"]
                  \/ t = Serve /\ pc' = [pc EXCEPT ![t] = "next"]
            \/ pc[t] = "post_complete" /\ pc' = [pc EXCEPT ![t] = "idle"]
         /\ UNCHANGED <<Others, state, reported, terminated>>
  BY DEF PostStateChange, Done, Goto, Others, query_vars, data_vars,
     download_vars, thread_vars

\* The steps of BaseServerPostProcessor::process.
ImageStep(t) ==
  TestCollecting(t) \/ ComputeFeat(t) \/ InvalidImage(t) \/ PushFeat(t)

LEMMA ImageStepDoes ==
  ASSUME TypeInv, NEW t \in Threads, ImageStep(t)
  PROVE  /\ pc[t] \in Images
         /\ \/ \E p \in Images : pc' = [pc EXCEPT ![t] = p]
            \/ t = Post /\ pc' = [pc EXCEPT ![t] = "count"]
            \/ t # Post /\ pc' = [pc EXCEPT ![t] = "idle"]
            \/ t = Serve /\ pc' = [pc EXCEPT ![t] = "next"]
         /\ feats' \in [Queries -> Nat]
         /\ \A q \in Queries : feats'[q] >= feats[q]
         /\ UNCHANGED <<queries, model, ranking, job, qry, owner, state, reported,
                       terminated>>
<1> USE ServerAssumption DEF Images, TypeInv
<1>1. UNCHANGED <<queries, model, ranking, job, qry, owner, state, reported,
                 terminated>>
  BY DEF ImageStep, TestCollecting, ComputeFeat, InvalidImage, PushFeat, process_vars,
     query_vars, download_vars, report_vars
<1>2. feats' \in [Queries -> Nat] /\ \A q \in Queries : feats'[q] >= feats[q]
  <2>1. CASE PushFeat(t)
    <3>1. feats' = [feats EXCEPT ![qry[t]] = feats[qry[t]] + 1]
      BY <2>1 DEF PushFeat
    <3>2. ASSUME NEW q \in Queries PROVE feats'[q] \in Nat /\ feats'[q] >= feats[q]
      BY <3>1
    <3>3. QED
      BY <3>1, <3>2
  <2>2. CASE feats' = feats
    BY <2>2
  <2>3. QED
    BY <2>1, <2>2 DEF ImageStep, TestCollecting, ComputeFeat, InvalidImage
<1>3. ImageDone(t) =>
        \/ t = Post /\ pc' = [pc EXCEPT ![t] = "count"]
        \/ t # Post /\ pc' = [pc EXCEPT ![t] = "process"]
        \/ t # Post /\ pc' = [pc EXCEPT ![t] = "idle"]
        \/ t = Serve /\ pc' = [pc EXCEPT ![t] = "next"]
  BY DEF ImageDone, Done
<1>4. QED
  BY <1>1, <1>2, <1>3
     DEF ImageStep, TestCollecting, ComputeFeat, InvalidImage, PushFeat, Goto

\* get_ranking returns, throws, or ends the process: by a CHECK if the ranking is
\* empty, or for a page behind the last one.
LEMMA FetchRankingDoes ==
  ASSUME TypeInv, FetchRanking
  PROVE  /\ pc[Serve] = "fetch"
         /\ \/ /\ pc' = [pc EXCEPT ![Serve] = "idle"]
               /\ \/ reported' = reported
                  \/ reported' = [reported EXCEPT ![qry[Serve]] = TRUE]
               /\ terminated' = terminated
            \/ /\ state[qry[Serve]] = "RANKED"
               /\ \/ "scores" \notin ranking[qry[Serve]] /\ Terminate(Serve, "scores")
                  \/ Terminate(Serve, "page")
               /\ reported' = reported
         /\ reported' \in [Queries -> BOOLEAN]
         /\ UNCHANGED <<Others, state>>
<1>1. pc[Serve] = "fetch" /\ UNCHANGED <<Others, state>>
  BY DEF FetchRanking, Others, query_vars, data_vars, download_vars
<1>2. CASE state[qry[Serve]] # "RANKED"
  BY <1>1, <1>2 DEF FetchRanking, Throw, TypeInv
<1>3. CASE state[qry[Serve]] = "RANKED"
  BY <1>1, <1>3 DEF FetchRanking, Goto, report_vars, TypeInv
<1>4. QED
  BY <1>2, <1>3

-----------------------------------------------------------------------------
(* Types and places *)

\* Every step keeps the types of the variables that the invariants are about.
LEMMA TypeStep == TypeInv /\ PlaceInv /\ [Next]_vars => TypeInv'
<1> SUFFICES ASSUME TypeInv, PlaceInv, [Next]_vars
             PROVE TypeInv'
  OBVIOUS
<1> USE ServerAssumption
    DEF TypeInv, PlaceInv, Threads, Labels, Jobs, States, Training, Images, Goto,
        Start, Call, Throw, Terminate, query_vars, data_vars, download_vars,
        thread_vars, report_vars
<1> USE DEF Others
<1>1. ASSUME NEW q \in Queries,
             StartQuery(q) \/ GetRanking(q) \/ FreeQuery(q)
      PROVE TypeInv'
  BY <1>1 DEF StartQuery, GetRanking, FreeQuery
<1>2. ASSUME NEW q \in Queries,
             SaveClassifier(q)
      PROVE TypeInv'
  BY <1>2 DEF SaveClassifier, Reasons
<1>3. ASSUME NEW q \in Queries, NEW e \in BOOLEAN,
             SetTag(q, e)
      PROVE TypeInv'
  BY <1>3 DEF SetTag
<1>4. ASSUME NEW q \in Queries, NEW b \in Batches, NEW n \in 1..MaxUrls,
             AddTrs(q, b, n)
      PROVE TypeInv'
  BY <1>4 DEF AddTrs
<1>5. ASSUME NEW q \in Queries, NEW w \in Workers, NEW request,
             NEW task \in {"train", "rank"},
             Detach(w, request, task, q)
      PROVE TypeInv'
  BY <1>5 DEF Detach
<1>6. ASSUME NEW q \in Queries, NEW request, NEW task \in {"train", "rank", "load"},
             NEW rest \in {<<>>, <<"rank", "get_ranking">>},
             Block(request, task, q, rest)
      PROVE TypeInv'
  BY <1>6 DEF Block
<1>7. ASSUME NEW q \in Queries, NEW t \in Workers \cup {Serve}, NEW n \in 1..MaxUrls,
             NEW request,
             AddTrsFromFile(t, request, q, n)
      PROVE TypeInv'
  BY <1>7 DEF AddTrsFromFile
<1>8. ASSUME NEW b \in Batches,
             TakeImage(b)
      PROVE TypeInv'
  BY <1>8 DEF TakeImage
<1>9. ASSUME NEW t \in Threads,
             GetQueryIfo(t) \/ GetQueryIfoForFile(t) \/ FeatFails(t)
      PROVE TypeInv'
  BY <1>9 DEF GetQueryIfo, GetQueryIfoForFile, FeatFails, Reasons
<1>10. ASSUME NEW t \in Threads,
             CheckState(t)
      PROVE TypeInv'
  BY <1>10, CheckStateDoes
<1>11. ASSUME NEW t \in Threads,
             EnterState(t)
      PROVE TypeInv'
  BY <1>11 DEF EnterState, During
<1>12. ASSUME NEW t \in Threads,
             ReadState(t)
      PROVE TypeInv'
  BY <1>12 DEF ReadState
<1>13. ASSUME NEW t \in Threads,
             PostStateChange(t)
      PROVE TypeInv'
  BY <1>13, PostStateChangeDoes
<1>14. ASSUME NEW t \in Threads,
             TrainModel(t)
      PROVE TypeInv'
  BY <1>14 DEF TrainModel
<1>15. ASSUME NEW t \in Threads,
             LoadModel(t)
      PROVE TypeInv'
<2>1. model' \in [Queries -> BOOLEAN]
    BY <1>15 DEF LoadModel
  <2>2. QED
    BY <2>1, <1>15 DEF LoadModel, Reasons
<1>16. ASSUME NEW t \in Threads,
             ScoreDataset(t) \/ SortScores(t)
      PROVE TypeInv'
  BY <1>16 DEF ScoreDataset, SortScores
<1>17. ASSUME NEW t \in Threads,
             ComputeFails(t)
      PROVE TypeInv'
  BY <1>17 DEF ComputeFails
<1>18. ASSUME NEW t \in Threads,
             LeaveState(t)
      PROVE TypeInv'
  BY <1>18 DEF LeaveState, After
<1>19. ASSUME NEW t \in Threads,
             ImageStep(t)
      PROVE TypeInv'
  BY <1>19, ImageStepDoes
<1>20. CASE SkipHttps \/ FolderFails \/ ReadToAdd \/ QueueUrl
  BY <1>20 DEF SkipHttps, FolderFails, ReadToAdd, QueueUrl, NextUrl, Reasons
<1>21. CASE ServeNext
  BY <1>21 DEF ServeNext
<1>22. CASE FetchRanking
  BY <1>22, FetchRankingDoes DEF Reasons
<1>23. CASE ReadToSubtract \/ WriteSubtracted \/ TestRemaining
  BY <1>23 DEF ReadToSubtract, WriteSubtracted, TestRemaining, Reasons
<1>24. CASE TestDataColl \/ SetDataCollComplete \/ AnnounceAllImages
  BY <1>24 DEF TestDataColl, SetDataCollComplete, AnnounceAllImages
<1>25. CASE UNCHANGED vars
  BY <1>25 DEF vars
<1>26. QED
  <2> HIDE DEF TypeInv, PlaceInv, Goto, Start, Call, Throw, Terminate, TypeInv
  <2>1. ASSUME NEW q \in Queries, Dispatch(q) PROVE TypeInv'
    BY <2>1, <1>1, <1>2, <1>3, <1>4, <1>5, <1>6, <1>7 DEF Dispatch
  <2>2. ASSUME NEW t \in Threads, Step(t) PROVE TypeInv'
    BY <2>2, <1>9, <1>10, <1>11, <1>12, <1>13, <1>14, <1>15, <1>16,
       <1>17, <1>18, <1>19 DEF Step, ImageStep
  <2>3. CASE ServeStep
    BY <2>3, <1>20, <1>21, <1>22 DEF ServeStep
  <2>4. CASE PostStep
    BY <2>4, <1>23, <1>24 DEF PostStep
  <2>5. QED
    BY <2>1, <2>2, <2>3, <2>4, <1>8, <1>25
       DEF Next, Work, Accept

\* Only Detach starts at "get", and the post-processing thread neither trains nor
\* ranks.
LEMMA PlaceStep == TypeInv /\ PlaceInv /\ [Next]_vars => PlaceInv'
<1> SUFFICES ASSUME TypeInv, PlaceInv, [Next]_vars
             PROVE PlaceInv'
  OBVIOUS
<1> USE ServerAssumption
    DEF TypeInv, PlaceInv, Threads, Labels, Jobs, States, Training, Images, Goto,
        Start, Call, Throw, Terminate, query_vars, data_vars, download_vars,
        thread_vars, report_vars
<1> USE DEF Others
<1>1. ASSUME NEW q \in Queries,
             StartQuery(q) \/ GetRanking(q) \/ FreeQuery(q)
      PROVE PlaceInv'
  BY <1>1 DEF StartQuery, GetRanking, FreeQuery
<1>2. ASSUME NEW q \in Queries,
             SaveClassifier(q)
      PROVE PlaceInv'
  BY <1>2 DEF SaveClassifier
<1>3. ASSUME NEW q \in Queries, NEW e \in BOOLEAN,
             SetTag(q, e)
      PROVE PlaceInv'
  BY <1>3 DEF SetTag
<1>4. ASSUME NEW q \in Queries, NEW b \in Batches, NEW n \in 1..MaxUrls,
             AddTrs(q, b, n)
      PROVE PlaceInv'
  BY <1>4 DEF AddTrs
<1>5. ASSUME NEW q \in Queries, NEW w \in Workers, NEW request,
             NEW task \in {"train", "rank"},
             Detach(w, request, task, q)
      PROVE PlaceInv'
  BY <1>5 DEF Detach
<1>6. ASSUME NEW q \in Queries, NEW request, NEW task \in {"train", "rank", "load"},
             NEW rest \in {<<>>, <<"rank", "get_ranking">>},
             Block(request, task, q, rest)
      PROVE PlaceInv'
  BY <1>6 DEF Block
<1>7. ASSUME NEW q \in Queries, NEW t \in Workers \cup {Serve}, NEW n \in 1..MaxUrls,
             NEW request,
             AddTrsFromFile(t, request, q, n)
      PROVE PlaceInv'
  BY <1>7 DEF AddTrsFromFile
<1>8. ASSUME NEW b \in Batches,
             TakeImage(b)
      PROVE PlaceInv'
  BY <1>8 DEF TakeImage
<1>9. ASSUME NEW t \in Threads,
             GetQueryIfo(t) \/ GetQueryIfoForFile(t) \/ FeatFails(t)
      PROVE PlaceInv'
  BY <1>9 DEF GetQueryIfo, GetQueryIfoForFile, FeatFails
<1>10. ASSUME NEW t \in Threads,
             CheckState(t)
      PROVE PlaceInv'
  BY <1>10, CheckStateDoes
<1>11. ASSUME NEW t \in Threads,
             EnterState(t)
      PROVE PlaceInv'
  BY <1>11 DEF EnterState, During
<1>12. ASSUME NEW t \in Threads,
             ReadState(t)
      PROVE PlaceInv'
  BY <1>12 DEF ReadState
<1>13. ASSUME NEW t \in Threads,
             PostStateChange(t)
      PROVE PlaceInv'
  BY <1>13, PostStateChangeDoes
<1>14. ASSUME NEW t \in Threads,
             TrainModel(t)
      PROVE PlaceInv'
  BY <1>14 DEF TrainModel
<1>15. ASSUME NEW t \in Threads,
             LoadModel(t)
      PROVE PlaceInv'
  BY <1>15 DEF LoadModel
<1>16. ASSUME NEW t \in Threads,
             ScoreDataset(t) \/ SortScores(t)
      PROVE PlaceInv'
  BY <1>16 DEF ScoreDataset, SortScores
<1>17. ASSUME NEW t \in Threads,
             ComputeFails(t)
      PROVE PlaceInv'
  BY <1>17 DEF ComputeFails
<1>18. ASSUME NEW t \in Threads,
             LeaveState(t)
      PROVE PlaceInv'
  BY <1>18 DEF LeaveState, After
<1>19. ASSUME NEW t \in Threads,
             ImageStep(t)
      PROVE PlaceInv'
  BY <1>19, ImageStepDoes
<1>20. CASE SkipHttps \/ FolderFails \/ ReadToAdd \/ QueueUrl
  BY <1>20 DEF SkipHttps, FolderFails, ReadToAdd, QueueUrl, NextUrl
<1>21. CASE ServeNext
  BY <1>21 DEF ServeNext
<1>22. CASE FetchRanking
  BY <1>22, FetchRankingDoes
<1>23. CASE ReadToSubtract \/ WriteSubtracted \/ TestRemaining
  BY <1>23 DEF ReadToSubtract, WriteSubtracted, TestRemaining
<1>24. CASE TestDataColl \/ SetDataCollComplete \/ AnnounceAllImages
  BY <1>24 DEF TestDataColl, SetDataCollComplete, AnnounceAllImages
<1>25. CASE UNCHANGED vars
  BY <1>25 DEF vars
<1>26. QED
  <2> HIDE DEF TypeInv, PlaceInv, Goto, Start, Call, Throw, Terminate, PlaceInv
  <2>1. ASSUME NEW q \in Queries, Dispatch(q) PROVE PlaceInv'
    BY <2>1, <1>1, <1>2, <1>3, <1>4, <1>5, <1>6, <1>7 DEF Dispatch
  <2>2. ASSUME NEW t \in Threads, Step(t) PROVE PlaceInv'
    BY <2>2, <1>9, <1>10, <1>11, <1>12, <1>13, <1>14, <1>15, <1>16,
       <1>17, <1>18, <1>19 DEF Step, ImageStep
  <2>3. CASE ServeStep
    BY <2>3, <1>20, <1>21, <1>22 DEF ServeStep
  <2>4. CASE PostStep
    BY <2>4, <1>23, <1>24 DEF PostStep
  <2>5. QED
    BY <2>1, <2>2, <2>3, <2>4, <1>8, <1>25
       DEF Next, Work, Accept

-----------------------------------------------------------------------------
(* What threads rely on after their tests: models, rankings and features are *)
(* made once and never taken back                                            *)

\* A thread that tested the state of a query finds its model.
ModelInv ==
  /\ TrainedHasModel
  /\ \A t \in Threads : pc[t] \in {"finish", "sort"} => model[qry[t]]
  /\ \A t \in Threads :
       pc[t] \in Training \ {"check"} /\ job[t] = "rank" => model[qry[t]]

\* The ranking is filled by the time that the thread that fills it leaves RANKING.
RankingInv ==
  /\ RankedHasRanking
  /\ \A t \in Threads : pc[t] = "sort" => "scores" \in ranking[qry[t]]
  /\ \A t \in Threads :
       pc[t] = "finish" /\ job[t] = "rank" => ranking[qry[t]] = {"scores", "sort_idxs"}

\* The features that train tested.
FeatInv ==
  \A t \in Threads :
    pc[t] \in {"get", "check", "set", "announce", "post", "compute"} /\ job[t] = "train"
      => feats[qry[t]] > 0

\* A model that a test of the state has promised is there, and it stays.
LEMMA ModelStep ==
  ASSUME "corrupt" \notin ModelFiles
  PROVE  TypeInv /\ PlaceInv /\ ModelInv /\ [Next]_vars => ModelInv'
<1> SUFFICES ASSUME TypeInv, PlaceInv, ModelInv, [Next]_vars
             PROVE ModelInv'
  OBVIOUS
<1> USE ServerAssumption
    DEF TypeInv, PlaceInv, Threads, Labels, Jobs, States, Training, Images, Goto,
        Start, Call, Throw, Terminate, query_vars, data_vars, download_vars,
        thread_vars, report_vars
<1> USE DEF Others, ModelInv, TrainedHasModel
<1>1. ASSUME NEW q \in Queries,
             StartQuery(q) \/ GetRanking(q) \/ FreeQuery(q)
      PROVE ModelInv'
  BY <1>1 DEF StartQuery, GetRanking, FreeQuery
<1>2. ASSUME NEW q \in Queries,
             SaveClassifier(q)
      PROVE ModelInv'
  BY <1>2 DEF SaveClassifier
<1>3. ASSUME NEW q \in Queries, NEW e \in BOOLEAN,
             SetTag(q, e)
      PROVE ModelInv'
  BY <1>3 DEF SetTag
<1>4. ASSUME NEW q \in Queries, NEW b \in Batches, NEW n \in 1..MaxUrls,
             AddTrs(q, b, n)
      PROVE ModelInv'
  BY <1>4 DEF AddTrs
<1>5. ASSUME NEW q \in Queries, NEW w \in Workers, NEW request,
             NEW task \in {"train", "rank"},
             Detach(w, request, task, q)
      PROVE ModelInv'
  BY <1>5 DEF Detach
<1>6. ASSUME NEW q \in Queries, NEW request, NEW task \in {"train", "rank", "load"},
             NEW rest \in {<<>>, <<"rank", "get_ranking">>},
             Block(request, task, q, rest)
      PROVE ModelInv'
  BY <1>6 DEF Block
<1>7. ASSUME NEW q \in Queries, NEW t \in Workers \cup {Serve}, NEW n \in 1..MaxUrls,
             NEW request,
             AddTrsFromFile(t, request, q, n)
      PROVE ModelInv'
  BY <1>7 DEF AddTrsFromFile
<1>8. ASSUME NEW b \in Batches,
             TakeImage(b)
      PROVE ModelInv'
  BY <1>8 DEF TakeImage
<1>9. ASSUME NEW t \in Threads,
             GetQueryIfo(t) \/ GetQueryIfoForFile(t) \/ FeatFails(t)
      PROVE ModelInv'
  BY <1>9 DEF GetQueryIfo, GetQueryIfoForFile, FeatFails
<1>10. ASSUME NEW t \in Threads,
             CheckState(t)
      PROVE ModelInv'
  <2>1. job[t] = "rank" /\ state[qry[t]] \in From[job[t]] => model[qry[t]]
    BY <1>10, CheckStateDoes DEF From
  <2>2. QED
    BY <2>1, <1>10, CheckStateDoes
<1>11. ASSUME NEW t \in Threads,
             EnterState(t)
      PROVE ModelInv'
  BY <1>11 DEF EnterState, During
<1>12. ASSUME NEW t \in Threads,
             ReadState(t)
      PROVE ModelInv'
  BY <1>12 DEF ReadState
<1>13. ASSUME NEW t \in Threads,
             PostStateChange(t)
      PROVE ModelInv'
  BY <1>13, PostStateChangeDoes
<1>14. ASSUME NEW t \in Threads,
             TrainModel(t)
      PROVE ModelInv'
  BY <1>14 DEF TrainModel
<1>15. ASSUME NEW t \in Threads,
             LoadModel(t)
      PROVE ModelInv'
  <2>1. CASE pc' = [u \in Threads |-> "dead"] /\ UNCHANGED <<model, state>>
    BY <2>1
  <2>2. ASSUME NEW file \in ModelFiles \ {"missing"},
               model' = [model EXCEPT ![qry[t]] = model[qry[t]] \/ file = "valid"]
        PROVE  model' = [model EXCEPT ![qry[t]] = TRUE]
    BY <2>2
  <2>3. CASE /\ model' = [model EXCEPT ![qry[t]] = TRUE]
             /\ pc' = [pc EXCEPT ![t] = "finish"]
    BY <2>3, <1>15 DEF LoadModel
  <2>4. QED
    BY <2>1, <2>2, <2>3, <1>15 DEF LoadModel
<1>16. ASSUME NEW t \in Threads,
             ScoreDataset(t) \/ SortScores(t)
      PROVE ModelInv'
  BY <1>16 DEF ScoreDataset, SortScores
<1>17. ASSUME NEW t \in Threads,
             ComputeFails(t)
      PROVE ModelInv'
  BY <1>17 DEF ComputeFails
<1>18. ASSUME NEW t \in Threads,
             LeaveState(t)
      PROVE ModelInv'
  BY <1>18 DEF LeaveState, After
<1>19. ASSUME NEW t \in Threads,
             ImageStep(t)
      PROVE ModelInv'
  BY <1>19, ImageStepDoes
<1>20. CASE SkipHttps \/ FolderFails \/ ReadToAdd \/ QueueUrl
  BY <1>20 DEF SkipHttps, FolderFails, ReadToAdd, QueueUrl, NextUrl
<1>21. CASE ServeNext
  BY <1>21 DEF ServeNext
<1>22. CASE FetchRanking
  BY <1>22, FetchRankingDoes
<1>23. CASE ReadToSubtract \/ WriteSubtracted \/ TestRemaining
  BY <1>23 DEF ReadToSubtract, WriteSubtracted, TestRemaining
<1>24. CASE TestDataColl \/ SetDataCollComplete \/ AnnounceAllImages
  BY <1>24 DEF TestDataColl, SetDataCollComplete, AnnounceAllImages
<1>25. CASE UNCHANGED vars
  BY <1>25 DEF vars
<1>26. QED
  <2> HIDE DEF TypeInv, PlaceInv, Goto, Start, Call, Throw, Terminate, ModelInv
  <2>1. ASSUME NEW q \in Queries, Dispatch(q) PROVE ModelInv'
    BY <2>1, <1>1, <1>2, <1>3, <1>4, <1>5, <1>6, <1>7 DEF Dispatch
  <2>2. ASSUME NEW t \in Threads, Step(t) PROVE ModelInv'
    BY <2>2, <1>9, <1>10, <1>11, <1>12, <1>13, <1>14, <1>15, <1>16,
       <1>17, <1>18, <1>19 DEF Step, ImageStep
  <2>3. CASE ServeStep
    BY <2>3, <1>20, <1>21, <1>22 DEF ServeStep
  <2>4. CASE PostStep
    BY <2>4, <1>23, <1>24 DEF PostStep
  <2>5. QED
    BY <2>1, <2>2, <2>3, <2>4, <1>8, <1>25
       DEF Next, Work, Accept

\* The state RANKED is set by a thread that has filled the ranking itself.
LEMMA RankingStep ==
  TypeInv /\ PlaceInv /\ RankingInv /\ [Next]_vars => RankingInv'
<1> SUFFICES ASSUME TypeInv, PlaceInv, RankingInv, [Next]_vars
             PROVE RankingInv'
  OBVIOUS
<1> USE ServerAssumption
    DEF TypeInv, PlaceInv, Threads, Labels, Jobs, States, Training, Images, Goto,
        Start, Call, Throw, Terminate, query_vars, data_vars, download_vars,
        thread_vars, report_vars
<1> USE DEF Others, RankingInv, RankedHasRanking
<1>1. ASSUME NEW q \in Queries,
             StartQuery(q) \/ GetRanking(q) \/ FreeQuery(q)
      PROVE RankingInv'
  BY <1>1 DEF StartQuery, GetRanking, FreeQuery
<1>2. ASSUME NEW q \in Queries,
             SaveClassifier(q)
      PROVE RankingInv'
  BY <1>2 DEF SaveClassifier
<1>3. ASSUME NEW q \in Queries, NEW e \in BOOLEAN,
             SetTag(q, e)
      PROVE RankingInv'
  BY <1>3 DEF SetTag
<1>4. ASSUME NEW q \in Queries, NEW b \in Batches, NEW n \in 1..MaxUrls,
             AddTrs(q, b, n)
      PROVE RankingInv'
  BY <1>4 DEF AddTrs
<1>5. ASSUME NEW q \in Queries, NEW w \in Workers, NEW request,
             NEW task \in {"train", "rank"},
             Detach(w, request, task, q)
      PROVE RankingInv'
  BY <1>5 DEF Detach
<1>6. ASSUME NEW q \in Queries, NEW request, NEW task \in {"train", "rank", "load"},
             NEW rest \in {<<>>, <<"rank", "get_ranking">>},
             Block(request, task, q, rest)
      PROVE RankingInv'
  BY <1>6 DEF Block
<1>7. ASSUME NEW q \in Queries, NEW t \in Workers \cup {Serve}, NEW n \in 1..MaxUrls,
             NEW request,
             AddTrsFromFile(t, request, q, n)
      PROVE RankingInv'
  BY <1>7 DEF AddTrsFromFile
<1>8. ASSUME NEW b \in Batches,
             TakeImage(b)
      PROVE RankingInv'
  BY <1>8 DEF TakeImage
<1>9. ASSUME NEW t \in Threads,
             GetQueryIfo(t) \/ GetQueryIfoForFile(t) \/ FeatFails(t)
      PROVE RankingInv'
  BY <1>9 DEF GetQueryIfo, GetQueryIfoForFile, FeatFails
<1>10. ASSUME NEW t \in Threads,
             CheckState(t)
      PROVE RankingInv'
  BY <1>10, CheckStateDoes
<1>11. ASSUME NEW t \in Threads,
             EnterState(t)
      PROVE RankingInv'
  BY <1>11 DEF EnterState, During
<1>12. ASSUME NEW t \in Threads,
             ReadState(t)
      PROVE RankingInv'
  BY <1>12 DEF ReadState
<1>13. ASSUME NEW t \in Threads,
             PostStateChange(t)
      PROVE RankingInv'
  BY <1>13, PostStateChangeDoes
<1>14. ASSUME NEW t \in Threads,
             TrainModel(t)
      PROVE RankingInv'
  BY <1>14 DEF TrainModel
<1>15. ASSUME NEW t \in Threads,
             LoadModel(t)
      PROVE RankingInv'
  BY <1>15 DEF LoadModel
<1>16. ASSUME NEW t \in Threads,
             ScoreDataset(t) \/ SortScores(t)
      PROVE RankingInv'
  BY <1>16 DEF ScoreDataset, SortScores
<1>17. ASSUME NEW t \in Threads,
             ComputeFails(t)
      PROVE RankingInv'
  BY <1>17 DEF ComputeFails
<1>18. ASSUME NEW t \in Threads,
             LeaveState(t)
      PROVE RankingInv'
  BY <1>18 DEF LeaveState, After
<1>19. ASSUME NEW t \in Threads,
             ImageStep(t)
      PROVE RankingInv'
  BY <1>19, ImageStepDoes
<1>20. CASE SkipHttps \/ FolderFails \/ ReadToAdd \/ QueueUrl
  BY <1>20 DEF SkipHttps, FolderFails, ReadToAdd, QueueUrl, NextUrl
<1>21. CASE ServeNext
  BY <1>21 DEF ServeNext
<1>22. CASE FetchRanking
  BY <1>22, FetchRankingDoes
<1>23. CASE ReadToSubtract \/ WriteSubtracted \/ TestRemaining
  BY <1>23 DEF ReadToSubtract, WriteSubtracted, TestRemaining
<1>24. CASE TestDataColl \/ SetDataCollComplete \/ AnnounceAllImages
  BY <1>24 DEF TestDataColl, SetDataCollComplete, AnnounceAllImages
<1>25. CASE UNCHANGED vars
  BY <1>25 DEF vars
<1>26. QED
  <2> HIDE DEF TypeInv, PlaceInv, Goto, Start, Call, Throw, Terminate, RankingInv
  <2>1. ASSUME NEW q \in Queries, Dispatch(q) PROVE RankingInv'
    BY <2>1, <1>1, <1>2, <1>3, <1>4, <1>5, <1>6, <1>7 DEF Dispatch
  <2>2. ASSUME NEW t \in Threads, Step(t) PROVE RankingInv'
    BY <2>2, <1>9, <1>10, <1>11, <1>12, <1>13, <1>14, <1>15, <1>16,
       <1>17, <1>18, <1>19 DEF Step, ImageStep
  <2>3. CASE ServeStep
    BY <2>3, <1>20, <1>21, <1>22 DEF ServeStep
  <2>4. CASE PostStep
    BY <2>4, <1>23, <1>24 DEF PostStep
  <2>5. QED
    BY <2>1, <2>2, <2>3, <2>4, <1>8, <1>25
       DEF Next, Work, Accept

\* The features that train found are still there when train_ uses them.
LEMMA FeatStep == TypeInv /\ PlaceInv /\ FeatInv /\ [Next]_vars => FeatInv'
<1> SUFFICES ASSUME TypeInv, PlaceInv, FeatInv, [Next]_vars
             PROVE FeatInv'
  OBVIOUS
<1> USE ServerAssumption
    DEF TypeInv, PlaceInv, Threads, Labels, Jobs, States, Training, Images, Goto,
        Start, Call, Throw, Terminate, query_vars, data_vars, download_vars,
        thread_vars, report_vars
<1> USE DEF Others, FeatInv
<1>1. ASSUME NEW q \in Queries,
             StartQuery(q) \/ GetRanking(q) \/ FreeQuery(q)
      PROVE FeatInv'
  BY <1>1 DEF StartQuery, GetRanking, FreeQuery
<1>2. ASSUME NEW q \in Queries,
             SaveClassifier(q)
      PROVE FeatInv'
  BY <1>2 DEF SaveClassifier
<1>3. ASSUME NEW q \in Queries, NEW e \in BOOLEAN,
             SetTag(q, e)
      PROVE FeatInv'
  BY <1>3 DEF SetTag
<1>4. ASSUME NEW q \in Queries, NEW b \in Batches, NEW n \in 1..MaxUrls,
             AddTrs(q, b, n)
      PROVE FeatInv'
  BY <1>4 DEF AddTrs
<1>5. ASSUME NEW q \in Queries, NEW w \in Workers, NEW request,
             NEW task \in {"train", "rank"},
             Detach(w, request, task, q)
      PROVE FeatInv'
  BY <1>5 DEF Detach
<1>6. ASSUME NEW q \in Queries, NEW request, NEW task \in {"train", "rank", "load"},
             NEW rest \in {<<>>, <<"rank", "get_ranking">>},
             Block(request, task, q, rest)
      PROVE FeatInv'
  BY <1>6 DEF Block
<1>7. ASSUME NEW q \in Queries, NEW t \in Workers \cup {Serve}, NEW n \in 1..MaxUrls,
             NEW request,
             AddTrsFromFile(t, request, q, n)
      PROVE FeatInv'
  BY <1>7 DEF AddTrsFromFile
<1>8. ASSUME NEW b \in Batches,
             TakeImage(b)
      PROVE FeatInv'
  BY <1>8 DEF TakeImage
<1>9. ASSUME NEW t \in Threads,
             GetQueryIfo(t) \/ GetQueryIfoForFile(t) \/ FeatFails(t)
      PROVE FeatInv'
  BY <1>9 DEF GetQueryIfo, GetQueryIfoForFile, FeatFails
<1>10. ASSUME NEW t \in Threads,
             CheckState(t)
      PROVE FeatInv'
  BY <1>10, CheckStateDoes
<1>11. ASSUME NEW t \in Threads,
             EnterState(t)
      PROVE FeatInv'
  BY <1>11 DEF EnterState, During
<1>12. ASSUME NEW t \in Threads,
             ReadState(t)
      PROVE FeatInv'
  BY <1>12 DEF ReadState
<1>13. ASSUME NEW t \in Threads,
             PostStateChange(t)
      PROVE FeatInv'
  BY <1>13, PostStateChangeDoes
<1>14. ASSUME NEW t \in Threads,
             TrainModel(t)
      PROVE FeatInv'
  BY <1>14 DEF TrainModel
<1>15. ASSUME NEW t \in Threads,
             LoadModel(t)
      PROVE FeatInv'
  BY <1>15 DEF LoadModel
<1>16. ASSUME NEW t \in Threads,
             ScoreDataset(t) \/ SortScores(t)
      PROVE FeatInv'
  BY <1>16 DEF ScoreDataset, SortScores
<1>17. ASSUME NEW t \in Threads,
             ComputeFails(t)
      PROVE FeatInv'
  BY <1>17 DEF ComputeFails
<1>18. ASSUME NEW t \in Threads,
             LeaveState(t)
      PROVE FeatInv'
  BY <1>18 DEF LeaveState, After
<1>19. ASSUME NEW t \in Threads,
             ImageStep(t)
      PROVE FeatInv'
  BY <1>19, ImageStepDoes
<1>20. CASE SkipHttps \/ FolderFails \/ ReadToAdd \/ QueueUrl
  BY <1>20 DEF SkipHttps, FolderFails, ReadToAdd, QueueUrl, NextUrl
<1>21. CASE ServeNext
  BY <1>21 DEF ServeNext
<1>22. CASE FetchRanking
  BY <1>22, FetchRankingDoes
<1>23. CASE ReadToSubtract \/ WriteSubtracted \/ TestRemaining
  BY <1>23 DEF ReadToSubtract, WriteSubtracted, TestRemaining
<1>24. CASE TestDataColl \/ SetDataCollComplete \/ AnnounceAllImages
  BY <1>24 DEF TestDataColl, SetDataCollComplete, AnnounceAllImages
<1>25. CASE UNCHANGED vars
  BY <1>25 DEF vars
<1>26. QED
  <2> HIDE DEF TypeInv, PlaceInv, Goto, Start, Call, Throw, Terminate, FeatInv
  <2>1. ASSUME NEW q \in Queries, Dispatch(q) PROVE FeatInv'
    BY <2>1, <1>1, <1>2, <1>3, <1>4, <1>5, <1>6, <1>7 DEF Dispatch
  <2>2. ASSUME NEW t \in Threads, Step(t) PROVE FeatInv'
    BY <2>2, <1>9, <1>10, <1>11, <1>12, <1>13, <1>14, <1>15, <1>16,
       <1>17, <1>18, <1>19 DEF Step, ImageStep
  <2>3. CASE ServeStep
    BY <2>3, <1>20, <1>21, <1>22 DEF ServeStep
  <2>4. CASE PostStep
    BY <2>4, <1>23, <1>24 DEF PostStep
  <2>5. QED
    BY <2>1, <2>2, <2>3, <2>4, <1>8, <1>25
       DEF Next, Work, Accept

\* The threads that work on a query go on with it.
BusyKept ==
  \A t \in Threads : pc[t] \in {"announce", "post", "compute", "sort", "finish"}
    => pc'[t] = pc[t] /\ qry'[t] = qry[t]

\* A step that changes no state and stops no work does not stall a query.
LEMMA StallFrame ==
  NoSilentStall /\ BusyKept /\ UNCHANGED <<state, reported, terminated>>
    => NoSilentStall'
  BY DEF NoSilentStall, BusyKept

\* When the process ends nobody waits any more.
LEMMA StallEnds == ASSUME NEW t, NEW why, Terminate(t, why) PROVE NoSilentStall'
  BY DEF NoSilentStall, Terminate

\* A thread that works on a query leaves TRAINING or RANKING, or reports an error.
LEMMA StallStep ==
  TypeInv /\ PlaceInv /\ NoSilentStall /\ [Next]_vars => NoSilentStall'
<1> SUFFICES ASSUME TypeInv, PlaceInv, NoSilentStall, [Next]_vars
             PROVE NoSilentStall'
  OBVIOUS
<1> USE ServerAssumption
    DEF TypeInv, PlaceInv, Threads, Labels, Jobs, States, Training, Images, Goto,
        Start, Call, Throw, Terminate, query_vars, data_vars, download_vars,
        thread_vars, report_vars
<1> USE DEF Others, NoSilentStall
<1>1. ASSUME NEW q \in Queries,
             StartQuery(q) \/ GetRanking(q) \/ FreeQuery(q)
      PROVE NoSilentStall'
  <2>1. UNCHANGED <<state, reported, terminated>>
    BY <1>1 DEF StartQuery, GetRanking, FreeQuery
  <2>2. BusyKept
    BY <1>1 DEF StartQuery, GetRanking, FreeQuery, BusyKept
  <2>3. QED
    BY <2>1, <2>2, StallFrame
<1>2. ASSUME NEW q \in Queries,
             SaveClassifier(q)
      PROVE NoSilentStall'
  <2>1. CASE UNCHANGED <<pc, terminated>>
    BY <1>2, <2>1, StallFrame DEF SaveClassifier, BusyKept
  <2>2. CASE Terminate(Serve, "file") \/ Terminate(Serve, "model")
    BY <2>2, StallEnds
  <2>3. QED
    BY <1>2, <2>1, <2>2 DEF SaveClassifier
<1>3. ASSUME NEW q \in Queries, NEW e \in BOOLEAN,
             SetTag(q, e)
      PROVE NoSilentStall'
  BY <1>3 DEF SetTag
<1>4. ASSUME NEW q \in Queries, NEW b \in Batches, NEW n \in 1..MaxUrls,
             AddTrs(q, b, n)
      PROVE NoSilentStall'
  BY <1>4 DEF AddTrs
<1>5. ASSUME NEW q \in Queries, NEW w \in Workers, NEW request,
             NEW task \in {"train", "rank"},
             Detach(w, request, task, q)
      PROVE NoSilentStall'
  BY <1>5 DEF Detach
<1>6. ASSUME NEW q \in Queries, NEW request, NEW task \in {"train", "rank", "load"},
             NEW rest \in {<<>>, <<"rank", "get_ranking">>},
             Block(request, task, q, rest)
      PROVE NoSilentStall'
  <2>1. UNCHANGED <<state, reported, terminated>>
    BY <1>6 DEF Block
  <2>2. BusyKept
    BY <1>6 DEF Block, BusyKept
  <2>3. QED
    BY <2>1, <2>2, StallFrame
<1>7. ASSUME NEW q \in Queries, NEW t \in Workers \cup {Serve}, NEW n \in 1..MaxUrls,
             NEW request,
             AddTrsFromFile(t, request, q, n)
      PROVE NoSilentStall'
  BY <1>7 DEF AddTrsFromFile
<1>8. ASSUME NEW b \in Batches,
             TakeImage(b)
      PROVE NoSilentStall'
  BY <1>8 DEF TakeImage
<1>9. ASSUME NEW t \in Threads,
             GetQueryIfo(t) \/ GetQueryIfoForFile(t) \/ FeatFails(t)
      PROVE NoSilentStall'
  <2>1. CASE \/ Terminate(t, "lookup") \/ FeatFails(t)
    BY <2>1, StallEnds DEF FeatFails
  <2>2. CASE \/ GetQueryIfo(t) /\ ~Terminate(t, "lookup")
             \/ GetQueryIfoForFile(t) /\ ~Terminate(t, "lookup")
    <3>1. UNCHANGED <<state, reported, terminated>> /\ BusyKept
      BY <2>2 DEF GetQueryIfo, GetQueryIfoForFile, BusyKept
    <3>2. QED
      BY <3>1, StallFrame
  <2>3. QED
    BY <1>9, <2>1, <2>2
<1>10. ASSUME NEW t \in Threads,
             CheckState(t)
      PROVE NoSilentStall'
  BY <1>10, CheckStateDoes
<1>11. ASSUME NEW t \in Threads,
             EnterState(t)
      PROVE NoSilentStall'
  BY <1>11 DEF EnterState, During
<1>12. ASSUME NEW t \in Threads,
             ReadState(t)
      PROVE NoSilentStall'
  BY <1>12 DEF ReadState
<1>13. ASSUME NEW t \in Threads,
             PostStateChange(t)
      PROVE NoSilentStall'
  BY <1>13, PostStateChangeDoes
<1>14. ASSUME NEW t \in Threads,
             TrainModel(t)
      PROVE NoSilentStall'
  BY <1>14 DEF TrainModel
<1>15. ASSUME NEW t \in Threads,
             LoadModel(t)
      PROVE NoSilentStall'
  <2>1. CASE Terminate(t, "file")
    BY <2>1, StallEnds
  <2>2. CASE ~Terminate(t, "file")
    BY <1>15, <2>2 DEF LoadModel
  <2>3. QED
    BY <2>1, <2>2
<1>16. ASSUME NEW t \in Threads,
             ScoreDataset(t) \/ SortScores(t)
      PROVE NoSilentStall'
  BY <1>16 DEF ScoreDataset, SortScores
<1>17. ASSUME NEW t \in Threads,
             ComputeFails(t)
      PROVE NoSilentStall'
  BY <1>17 DEF ComputeFails
<1>18. ASSUME NEW t \in Threads,
             LeaveState(t)
      PROVE NoSilentStall'
  BY <1>18 DEF LeaveState, After
<1>19. ASSUME NEW t \in Threads,
             ImageStep(t)
      PROVE NoSilentStall'
  BY <1>19, ImageStepDoes
<1>20. CASE SkipHttps \/ FolderFails \/ ReadToAdd \/ QueueUrl
  <2>1. CASE FolderFails
    BY <2>1, StallEnds DEF FolderFails
  <2>2. CASE SkipHttps \/ ReadToAdd \/ QueueUrl
    <3>1. UNCHANGED <<state, reported, terminated>>
      BY <2>2 DEF SkipHttps, ReadToAdd, QueueUrl, NextUrl
    <3>2. BusyKept
      BY <2>2 DEF SkipHttps, ReadToAdd, QueueUrl, NextUrl, BusyKept
    <3>3. QED
      BY <3>1, <3>2, StallFrame
  <2>3. QED
    BY <1>20, <2>1, <2>2
<1>21. CASE ServeNext
  <2>1. UNCHANGED <<state, reported, terminated>>
    BY <1>21 DEF ServeNext
  <2>2. BusyKept
    BY <1>21 DEF ServeNext, BusyKept
  <2>3. QED
    BY <2>1, <2>2, StallFrame
<1>22. CASE FetchRanking
  <2>1. CASE Terminate(Serve, "scores") \/ Terminate(Serve, "page")
    BY <2>1, StallEnds
  <2>2. CASE ~Terminate(Serve, "scores") /\ ~Terminate(Serve, "page")
    BY <1>22, <2>2, FetchRankingDoes
  <2>3. QED
    BY <2>1, <2>2
<1>23. CASE ReadToSubtract \/ WriteSubtracted \/ TestRemaining
  <2>1. CASE Terminate(Post, "count")
    BY <2>1, StallEnds
  <2>2. CASE ~Terminate(Post, "count")
    <3>1. UNCHANGED <<state, reported, terminated>>
      BY <1>23, <2>2 DEF ReadToSubtract, WriteSubtracted, TestRemaining
    <3>2. BusyKept
      BY <1>23, <2>2 DEF ReadToSubtract, WriteSubtracted, TestRemaining, BusyKept
    <3>3. QED
      BY <3>1, <3>2, StallFrame
  <2>3. QED
    BY <2>1, <2>2
<1>24. CASE TestDataColl \/ SetDataCollComplete \/ AnnounceAllImages
  BY <1>24 DEF TestDataColl, SetDataCollComplete, AnnounceAllImages
<1>25. CASE UNCHANGED vars
  BY <1>25 DEF vars
<1>26. QED
  <2> HIDE DEF TypeInv, PlaceInv, Goto, Start, Call, Throw, Terminate, NoSilentStall
  <2>1. ASSUME NEW q \in Queries, Dispatch(q) PROVE NoSilentStall'
    BY <2>1, <1>1, <1>2, <1>3, <1>4, <1>5, <1>6, <1>7 DEF Dispatch
  <2>2. ASSUME NEW t \in Threads, Step(t) PROVE NoSilentStall'
    BY <2>2, <1>9, <1>10, <1>11, <1>12, <1>13, <1>14, <1>15, <1>16,
       <1>17, <1>18, <1>19 DEF Step, ImageStep
  <2>3. CASE ServeStep
    BY <2>3, <1>20, <1>21, <1>22 DEF ServeStep
  <2>4. CASE PostStep
    BY <2>4, <1>23, <1>24 DEF PostStep
  <2>5. QED
    BY <2>1, <2>2, <2>3, <2>4, <1>8, <1>25
       DEF Next, Work, Accept

-----------------------------------------------------------------------------
(* The types of the other variables *)

RestTypes ==
  /\ queries \subseteq created /\ created \subseteq Queries
  /\ tagged \in [Queries -> BOOLEAN]
  /\ image_count \in [Batches -> Int]
  /\ arriving \in [Batches -> Nat]
  /\ value \in [{Serve, Post} -> Int]
  /\ overlap \in [Batches -> BOOLEAN]
  /\ left \in [Threads -> 0..MaxUrls]
  /\ batch \in [Threads -> Batches \cup {None}]
  /\ read \in [Threads -> States]
  /\ todo \in {<<>>, <<"get_ranking">>, <<"rank", "get_ranking">>}
  /\ posted \in [Queries -> Seq(States)]
  /\ all_images \in [Queries -> BOOLEAN]
  /\ requests \in 0..MaxRequests

\* A loop over urls or paths has one left, a request that goes on has a next call,
\* and whatever arrives belongs to a query.
LoopInv ==
  /\ \A t \in Threads \ {Post} :
       pc[t] \in Images \cup {"file", "queue", "add"} => left[t] > 0
  /\ pc[Serve] = "next" => todo # <<>>
  /\ \A b \in Batches : arriving[b] > 0 => owner[b] \in Queries
  /\ pc[Serve] \in {"queue", "add"} =>
       batch[Serve] \in Batches /\ owner[batch[Serve]] \in Queries
  /\ pc[Post] \notin {"idle", "dead"} => qry[Post] \in Queries /\ batch[Post] \in Batches

Rest == <<created, tagged, image_count, arriving, value, overlap, batch, read, posted,
          all_images>>

\* An image that is not the last one leaves some to do.
LEMMA ImageStepLeft ==
  ASSUME TypeInv, RestTypes, LoopInv, NEW t \in Threads, ImageStep(t)
  PROVE  /\ left' \in [Threads -> 0..MaxUrls]
         /\ \A u \in Threads \ {t} : left'[u] = left[u]
         /\ t # Post /\ pc'[t] \in Images => left'[t] > 0
         /\ pc'[t] = "next" => todo # <<>>
<1> USE ServerAssumption DEF Images, TypeInv, RestTypes, LoopInv
<1>1. pc[t] \in Images
  BY ImageStepDoes
<1>2. CASE t = Post \/ ~ImageDone(t)
  BY <1>1, <1>2
     DEF ImageStep, TestCollecting, ComputeFeat, InvalidImage, PushFeat, ImageDone, Goto
<1>3. CASE t # Post /\ ImageDone(t)
  <2>1. left[t] \in 1..MaxUrls
    BY <1>1, <1>3
  <2>2. /\ left' = [left EXCEPT ![t] = left[t] - 1]
        /\ pc' = [pc EXCEPT ![t] = IF left[t] > 1 THEN "process" ELSE Done(t)]
    BY <1>3 DEF ImageDone
  <2>3. QED
    BY <2>1, <2>2 DEF Done
<1>4. QED
  BY <1>2, <1>3

\* Every step keeps the types of the other variables.
LEMMA RestStep ==
  TypeInv /\ PlaceInv /\ RestTypes /\ LoopInv /\ [Next]_vars => RestTypes'
<1> SUFFICES ASSUME TypeInv, PlaceInv, RestTypes, LoopInv, [Next]_vars
             PROVE RestTypes'
  OBVIOUS
<1> USE ServerAssumption
    DEF TypeInv, PlaceInv, Threads, Labels, Jobs, States, Training, Images, Goto,
        Start, Call, Throw, Terminate, query_vars, data_vars, download_vars,
        thread_vars, report_vars
<1> USE DEF RestTypes, LoopInv, Rest, Others
<1>1. ASSUME NEW q \in Queries,
             StartQuery(q) \/ GetRanking(q) \/ FreeQuery(q)
      PROVE RestTypes'
  <2>1. CASE GetRanking(q) \/ FreeQuery(q)
    <3>1. /\ UNCHANGED <<Rest, todo, left>>
          /\ requests' \in 0..MaxRequests /\ queries' \subseteq queries
      BY <2>1 DEF GetRanking, FreeQuery
    <3>2. QED
      BY <3>1
  <2>2. CASE StartQuery(q)
    <3>1. posted' \in [Queries -> Seq(States)]
      BY <2>2 DEF StartQuery
    <3>2. UNCHANGED <<tagged, image_count, arriving, value, overlap, batch, read,
                     all_images, todo, left, requests>>
      BY <2>2 DEF StartQuery
    <3>3. queries' \subseteq created' /\ created' \subseteq Queries
      <4>1. created' = created \cup {q} /\ queries' = queries \cup {q}
        BY <2>2 DEF StartQuery
      <4>2. QED
        BY <4>1
    <3>4. QED
      BY <3>1, <3>2, <3>3
  <2>3. QED
    BY <1>1, <2>1, <2>2
<1>2. ASSUME NEW q \in Queries,
             SaveClassifier(q)
      PROVE RestTypes'
  <2>1. UNCHANGED <<Rest, todo, left, queries>> /\ requests' \in 0..MaxRequests
    BY <1>2 DEF SaveClassifier
  <2>2. QED
    BY <2>1
<1>3. ASSUME NEW q \in Queries, NEW e \in BOOLEAN,
             SetTag(q, e)
      PROVE RestTypes'
  <2>1. tagged' \in [Queries -> BOOLEAN]
    <3>1. tagged' = [tagged EXCEPT ![q] = ~e]
      BY <1>3 DEF SetTag
    <3>2. QED
      BY <3>1
  <2>2. UNCHANGED <<created, image_count, arriving, value, overlap, batch, read, posted,
                   all_images, left, todo, queries>> /\ requests' \in 0..MaxRequests
    BY <1>3 DEF SetTag
  <2>3. QED
    BY <2>1, <2>2
<1>4. ASSUME NEW q \in Queries, NEW b \in Batches, NEW n \in 1..MaxUrls,
             AddTrs(q, b, n)
      PROVE RestTypes'
  BY <1>4 DEF AddTrs
<1>5. ASSUME NEW q \in Queries, NEW w \in Workers, NEW request,
             NEW task \in {"train", "rank"},
             Detach(w, request, task, q)
      PROVE RestTypes'
  BY <1>5 DEF Detach
<1>6. ASSUME NEW q \in Queries, NEW request, NEW task \in {"train", "rank", "load"},
             NEW rest \in {<<>>, <<"rank", "get_ranking">>},
             Block(request, task, q, rest)
      PROVE RestTypes'
  BY <1>6 DEF Block
<1>7. ASSUME NEW q \in Queries, NEW t \in Workers \cup {Serve}, NEW n \in 1..MaxUrls,
             NEW request,
             AddTrsFromFile(t, request, q, n)
      PROVE RestTypes'
  BY <1>7 DEF AddTrsFromFile
<1>8. ASSUME NEW b \in Batches,
             TakeImage(b)
      PROVE RestTypes'
  <2>1. arriving' \in [Batches -> Nat]
    BY <1>8 DEF TakeImage
  <2>2. batch' \in [Threads -> Batches \cup {None}]
    BY <1>8 DEF TakeImage
  <2>3. QED
    BY <2>1, <2>2, <1>8 DEF TakeImage
<1>9. ASSUME NEW t \in Threads,
             GetQueryIfo(t) \/ GetQueryIfoForFile(t) \/ FeatFails(t)
      PROVE RestTypes'
  <2>1. UNCHANGED <<Rest, requests, left, todo, queries>>
    BY <1>9 DEF GetQueryIfo, GetQueryIfoForFile, FeatFails
  <2>2. QED
    BY <2>1
<1>10. ASSUME NEW t \in Threads,
             CheckState(t)
      PROVE RestTypes'
  <2>1. UNCHANGED <<Rest, requests, left>> /\ (todo' = todo \/ todo' = <<>>)
    BY <1>10 DEF CheckState
  <2>2. QED
    BY <2>1, <1>10, CheckStateDoes
<1>11. ASSUME NEW t \in Threads,
             EnterState(t)
      PROVE RestTypes'
  BY <1>11 DEF EnterState, During
<1>12. ASSUME NEW t \in Threads,
             ReadState(t)
      PROVE RestTypes'
  <2>1. read' \in [Threads -> States]
    <3>1. read' = [read EXCEPT ![t] = state[qry[t]]] /\ qry[t] \in Queries
      BY <1>12 DEF ReadState
    <3>2. QED
      BY <3>1
  <2>2. QED
    BY <2>1, <1>12 DEF ReadState
<1>13. ASSUME NEW t \in Threads,
             PostStateChange(t)
      PROVE RestTypes'
  <2>1. posted' = [posted EXCEPT ![qry[t]] = Append(posted[qry[t]], read[t])]
    BY <1>13 DEF PostStateChange
  <2>2. qry[t] \in Queries
    BY <1>13, PostStateChangeDoes
  <2>3. posted' \in [Queries -> Seq(States)]
    BY <2>1, <2>2
  <2>4. QED
    BY <2>3, <1>13, PostStateChangeDoes DEF PostStateChange
<1>14. ASSUME NEW t \in Threads,
             TrainModel(t)
      PROVE RestTypes'
  BY <1>14 DEF TrainModel
<1>15. ASSUME NEW t \in Threads,
             LoadModel(t)
      PROVE RestTypes'
  BY <1>15 DEF LoadModel
<1>16. ASSUME NEW t \in Threads,
             ScoreDataset(t) \/ SortScores(t)
      PROVE RestTypes'
  BY <1>16 DEF ScoreDataset, SortScores
<1>17. ASSUME NEW t \in Threads,
             ComputeFails(t)
      PROVE RestTypes'
  BY <1>17 DEF ComputeFails
<1>18. ASSUME NEW t \in Threads,
             LeaveState(t)
      PROVE RestTypes'
  BY <1>18 DEF LeaveState, After
<1>19. ASSUME NEW t \in Threads,
             ImageStep(t)
      PROVE RestTypes'
  <2>1. UNCHANGED <<Rest, requests, todo>>
    BY <1>19 DEF ImageStep, TestCollecting, ComputeFeat, InvalidImage, PushFeat,
             process_vars
  <2>2. left' \in [Threads -> 0..MaxUrls]
    BY <1>19, ImageStepLeft
  <2>3. QED
    BY <2>1, <2>2, <1>19, ImageStepDoes
<1>20. CASE SkipHttps \/ FolderFails \/ ReadToAdd \/ QueueUrl
  <2>1. UNCHANGED <<created, tagged, batch, read, posted, all_images, requests,
                   queries, todo, overlap>>
    BY <1>20 DEF SkipHttps, FolderFails, ReadToAdd, QueueUrl, NextUrl
  <2>2. left' = left \/ (left' = [left EXCEPT ![Serve] = left[Serve] - 1] /\ left[Serve] > 0)
    BY <1>20 DEF SkipHttps, FolderFails, ReadToAdd, QueueUrl, NextUrl
  <2>3. left' \in [Threads -> 0..MaxUrls]
    BY <2>2
  <2>4. /\ image_count' \in [Batches -> Int] /\ arriving' \in [Batches -> Nat]
        /\ value' \in [{Serve, Post} -> Int]
    <3> DEFINE b == batch[Serve]
    <3>1. CASE SkipHttps \/ FolderFails
      BY <3>1 DEF SkipHttps, FolderFails, NextUrl
    <3>2. CASE ReadToAdd
      <4>1. b \in Batches /\ value' = [value EXCEPT ![Serve] = image_count[b]]
        BY <3>2 DEF ReadToAdd
      <4>2. QED
        BY <3>2, <4>1 DEF ReadToAdd
    <3>3. CASE QueueUrl
      <4>1. /\ image_count' = [image_count EXCEPT ![b] = value[Serve] + 1]
            /\ arriving' = [arriving EXCEPT ![b] = arriving[b] + 1]
            /\ value' = value /\ b \in Batches
        BY <3>3 DEF QueueUrl, NextUrl
      <4>2. QED
        BY <4>1
    <3>4. QED
      BY <1>20, <3>1, <3>2, <3>3
  <2>5. QED
    BY <2>1, <2>3, <2>4
<1>21. CASE ServeNext
  <2>1. CASE todo = <<"get_ranking">>
    BY <1>21, <2>1 DEF ServeNext
  <2>2. CASE todo = <<"rank", "get_ranking">>
    BY <1>21, <2>2 DEF ServeNext
  <2>3. QED
    BY <1>21, <2>1, <2>2 DEF ServeNext
<1>22. CASE FetchRanking
  <2>1. UNCHANGED <<Rest, requests, left>> /\ (todo' = todo \/ todo' = <<>>)
    BY <1>22 DEF FetchRanking
  <2>2. QED
    BY <2>1, <1>22, FetchRankingDoes
<1>23. CASE ReadToSubtract \/ WriteSubtracted \/ TestRemaining
  <2>1. \/ image_count' = image_count
        \/ image_count' = [image_count EXCEPT ![batch[Post]] = value[Post] - 1]
    BY <1>23 DEF ReadToSubtract, WriteSubtracted, TestRemaining
  <2>2. image_count' \in [Batches -> Int]
    <3>1. value[Post] - 1 \in Int
      OBVIOUS
    <3>2. QED
      BY <2>1, <3>1
  <2>3. CASE ReadToSubtract
    <3> DEFINE b == batch[Post]
    <3>1. /\ value' = [value EXCEPT ![Post] = image_count[b]]
          /\ overlap' = [overlap EXCEPT ![b] = overlap[b] \/ Queueing(b)]
          /\ pc[Post] = "count"
      BY <2>3 DEF ReadToSubtract
    <3>2. b \in Batches
      BY <3>1
    <3>3. value' \in [{Serve, Post} -> Int]
      BY <3>1, <3>2
    <3>4. overlap' \in [Batches -> BOOLEAN]
      BY <3>1 DEF Queueing
    <3>5. QED
      BY <2>2, <2>3, <3>3, <3>4 DEF ReadToSubtract
  <2>4. CASE WriteSubtracted \/ TestRemaining
    BY <2>2, <2>4 DEF WriteSubtracted, TestRemaining
  <2>5. QED
    BY <1>23, <2>3, <2>4
<1>24. CASE TestDataColl \/ SetDataCollComplete \/ AnnounceAllImages
  <2>1. \/ all_images' = all_images
        \/ all_images' = [all_images EXCEPT ![qry[Post]] = TRUE]
    BY <1>24 DEF TestDataColl, SetDataCollComplete, AnnounceAllImages
  <2>2. all_images' \in [Queries -> BOOLEAN]
    <3>1. CASE all_images' = all_images
      BY <3>1
    <3>2. CASE all_images' = [all_images EXCEPT ![qry[Post]] = TRUE]
      BY <3>2
    <3>3. QED
      BY <2>1, <3>1, <3>2
  <2>3. QED
    BY <2>2, <1>24 DEF TestDataColl, SetDataCollComplete, AnnounceAllImages
<1>25. CASE UNCHANGED vars
  BY <1>25 DEF vars
<1>26. QED
  <2> HIDE DEF TypeInv, PlaceInv, Goto, Start, Call, Throw, Terminate, RestTypes
  <2>1. ASSUME NEW q \in Queries, Dispatch(q) PROVE RestTypes'
    BY <2>1, <1>1, <1>2, <1>3, <1>4, <1>5, <1>6, <1>7 DEF Dispatch
  <2>2. ASSUME NEW t \in Threads, Step(t) PROVE RestTypes'
    BY <2>2, <1>9, <1>10, <1>11, <1>12, <1>13, <1>14, <1>15, <1>16,
       <1>17, <1>18, <1>19 DEF Step, ImageStep
  <2>3. CASE ServeStep
    BY <2>3, <1>20, <1>21, <1>22 DEF ServeStep
  <2>4. CASE PostStep
    BY <2>4, <1>23, <1>24 DEF PostStep
  <2>5. QED
    BY <2>1, <2>2, <2>3, <2>4, <1>8, <1>25
       DEF Next, Work, Accept

\* A loop goes on only while it has something left.
LEMMA LoopStep ==
  TypeInv /\ PlaceInv /\ RestTypes /\ LoopInv /\ [Next]_vars => LoopInv'
<1> SUFFICES ASSUME TypeInv, PlaceInv, RestTypes, LoopInv, [Next]_vars
             PROVE LoopInv'
  OBVIOUS
<1> USE ServerAssumption
    DEF TypeInv, PlaceInv, Threads, Labels, Jobs, States, Training, Images, Goto,
        Start, Call, Throw, Terminate, query_vars, data_vars, download_vars,
        thread_vars, report_vars
<1> USE DEF RestTypes, LoopInv, Rest, Others
<1>1. ASSUME NEW q \in Queries,
             StartQuery(q) \/ GetRanking(q) \/ FreeQuery(q)
      PROVE LoopInv'
  <2>1. UNCHANGED <<left, arriving, owner, batch, todo>>
    BY <1>1 DEF StartQuery, GetRanking, FreeQuery
  <2>2. /\ pc'[Serve] \in {pc[Serve], "fetch"}
        /\ \A u \in Threads \ {Serve} : pc'[u] = pc[u] /\ qry'[u] = qry[u]
    BY <1>1 DEF StartQuery, GetRanking, FreeQuery
  <2>3. QED
    BY <2>1, <2>2
<1>2. ASSUME NEW q \in Queries,
             SaveClassifier(q)
      PROVE LoopInv'
  BY <1>2 DEF SaveClassifier
<1>3. ASSUME NEW q \in Queries, NEW e \in BOOLEAN,
             SetTag(q, e)
      PROVE LoopInv'
  BY <1>3 DEF SetTag
<1>4. ASSUME NEW q \in Queries, NEW b \in Batches, NEW n \in 1..MaxUrls,
             AddTrs(q, b, n)
      PROVE LoopInv'
  BY <1>4 DEF AddTrs
<1>5. ASSUME NEW q \in Queries, NEW w \in Workers, NEW request,
             NEW task \in {"train", "rank"},
             Detach(w, request, task, q)
      PROVE LoopInv'
  BY <1>5 DEF Detach
<1>6. ASSUME NEW q \in Queries, NEW request, NEW task \in {"train", "rank", "load"},
             NEW rest \in {<<>>, <<"rank", "get_ranking">>},
             Block(request, task, q, rest)
      PROVE LoopInv'
  BY <1>6 DEF Block
<1>7. ASSUME NEW q \in Queries, NEW t \in Workers \cup {Serve}, NEW n \in 1..MaxUrls,
             NEW request,
             AddTrsFromFile(t, request, q, n)
      PROVE LoopInv'
  BY <1>7 DEF AddTrsFromFile
<1>8. ASSUME NEW b \in Batches,
             TakeImage(b)
      PROVE LoopInv'
  BY <1>8 DEF TakeImage
<1>9. ASSUME NEW t \in Threads,
             GetQueryIfo(t) \/ GetQueryIfoForFile(t) \/ FeatFails(t)
      PROVE LoopInv'
  <2>1. UNCHANGED <<left, arriving, owner, batch, qry, todo>>
    BY <1>9 DEF GetQueryIfo, GetQueryIfoForFile, FeatFails
  <2>2. \A u \in Threads : \/ pc'[u] \in {pc[u], "dead"}
                           \/ pc[u] = "get" /\ pc'[u] = "check"
                           \/ pc[u] = "file" /\ pc'[u] = "process"
    BY <1>9 DEF GetQueryIfo, GetQueryIfoForFile, FeatFails
  <2>3. QED
    BY <2>1, <2>2
<1>10. ASSUME NEW t \in Threads,
             CheckState(t)
      PROVE LoopInv'
  <2>1. UNCHANGED <<left, arriving, owner, batch, qry>>
    BY <1>10, CheckStateDoes DEF CheckState
  <2>2. pc'[t] \in {"set", "idle"} /\ \A u \in Threads \ {t} : pc'[u] = pc[u]
    BY <1>10, CheckStateDoes
  <2>3. t # Serve => todo' = todo
    BY <1>10 DEF CheckState
  <2>4. pc[t] = "check"
    BY <1>10, CheckStateDoes
  <2>5. QED
    BY <2>1, <2>2, <2>3, <2>4
<1>11. ASSUME NEW t \in Threads,
             EnterState(t)
      PROVE LoopInv'
  BY <1>11 DEF EnterState, During
<1>12. ASSUME NEW t \in Threads,
             ReadState(t)
      PROVE LoopInv'
  <2>1. UNCHANGED <<left, arriving, owner, batch, qry, todo>>
    BY <1>12 DEF ReadState
  <2>2. /\ pc'[t] \in {"post", "post_done", "post_complete"} /\ Busy(t)
        /\ \A u \in Threads \ {t} : pc'[u] = pc[u]
    BY <1>12 DEF ReadState, Busy
  <2>3. QED
    BY <2>1, <2>2 DEF Busy
<1>13. ASSUME NEW t \in Threads,
             PostStateChange(t)
      PROVE LoopInv'
  <2>1. UNCHANGED <<left, todo, arriving, owner, batch, qry>>
    BY <1>13, PostStateChangeDoes DEF PostStateChange
  <2>2. /\ pc'[t] \in {"compute", "next", "idle"}
        /\ pc[t] \in {"post", "post_done", "post_complete"}
        /\ \A u \in Threads \ {t} : pc'[u] = pc[u]
    BY <1>13, PostStateChangeDoes
  <2>3. pc'[t] = "next" => todo # <<>>
    BY <1>13 DEF PostStateChange, Done
  <2>4. QED
    BY <2>1, <2>2, <2>3
<1>14. ASSUME NEW t \in Threads,
             TrainModel(t)
      PROVE LoopInv'
  BY <1>14 DEF TrainModel
<1>15. ASSUME NEW t \in Threads,
             LoadModel(t)
      PROVE LoopInv'
  <2>1. UNCHANGED <<left, arriving, owner, batch, qry, todo>>
    BY <1>15 DEF LoadModel
  <2>2. \A u \in Threads : \/ pc'[u] \in {pc[u], "dead"}
                           \/ pc[u] = "compute" /\ pc'[u] = "finish"
    BY <1>15 DEF LoadModel
  <2>3. QED
    BY <2>1, <2>2
<1>16. ASSUME NEW t \in Threads,
             ScoreDataset(t) \/ SortScores(t)
      PROVE LoopInv'
  <2>1. UNCHANGED <<left, arriving, owner, batch, qry, todo>>
    BY <1>16 DEF ScoreDataset, SortScores
  <2>2. \A u \in Threads : \/ pc'[u] = pc[u]
                           \/ pc[u] \in {"compute", "sort"} /\ pc'[u] \in {"sort", "finish"}
    BY <1>16 DEF ScoreDataset, SortScores
  <2>3. QED
    BY <2>1, <2>2
<1>17. ASSUME NEW t \in Threads,
             ComputeFails(t)
      PROVE LoopInv'
  BY <1>17 DEF ComputeFails
<1>18. ASSUME NEW t \in Threads,
             LeaveState(t)
      PROVE LoopInv'
  BY <1>18 DEF LeaveState, After
<1>19. ASSUME NEW t \in Threads,
             ImageStep(t)
      PROVE LoopInv'
  <2>1. UNCHANGED <<todo, arriving, owner, batch, qry>>
    BY <1>19 DEF ImageStep, TestCollecting, ComputeFeat, InvalidImage, PushFeat,
             process_vars
  <2>2. /\ pc[t] \in Images
        /\ pc'[t] \in Images \cup {"count", "idle", "next"}
        /\ \A u \in Threads \ {t} : pc'[u] = pc[u]
    <3>1. PICK p \in Images \cup {"count", "idle", "next"} : pc' = [pc EXCEPT ![t] = p]
      <4>1. CASE \E p \in Images : pc' = [pc EXCEPT ![t] = p]
        BY <4>1
      <4>2. CASE \E p \in {"count", "idle", "next"} : pc' = [pc EXCEPT ![t] = p]
        BY <4>2
      <4>3. QED
        BY <1>19, <4>1, <4>2, ImageStepDoes
    <3>2. pc[t] \in Images
      BY <1>19, ImageStepDoes
    <3>3. pc'[t] = p /\ \A u \in Threads \ {t} : pc'[u] = pc[u]
      BY <3>1
    <3>4. QED
      BY <3>2, <3>3
  <2>3. /\ \A u \in Threads \ {t} : left'[u] = left[u]
        /\ t # Post /\ pc'[t] \in Images => left'[t] > 0
        /\ pc'[t] = "next" => todo # <<>>
    BY <1>19, ImageStepLeft
  <2>4. QED
    BY <2>1, <2>2, <2>3
<1>20. CASE SkipHttps \/ FolderFails \/ ReadToAdd \/ QueueUrl
  <2>1. CASE FolderFails \/ ReadToAdd
    <3>1. UNCHANGED <<left, arriving, owner, batch, qry, todo>>
      BY <2>1 DEF FolderFails, ReadToAdd
    <3>2. /\ pc[Serve] = "queue" /\ pc'[Serve] \in {"add", "dead"}
          /\ \A u \in Threads \ {Serve} : pc'[u] \in {pc[u], "dead"}
      BY <2>1 DEF FolderFails, ReadToAdd
    <3>3. QED
      BY <3>1, <3>2
  <2>2. CASE SkipHttps \/ QueueUrl
    <3>1. /\ left' = [left EXCEPT ![Serve] = left[Serve] - 1]
          /\ pc' = [pc EXCEPT ![Serve] = IF left[Serve] > 1 THEN "queue" ELSE "idle"]
          /\ pc[Serve] \in {"queue", "add"}
          /\ UNCHANGED <<todo, owner, batch, qry>>
      BY <2>2 DEF SkipHttps, QueueUrl, NextUrl
    <3>2. \A b \in Batches \ {batch[Serve]} : arriving'[b] = arriving[b]
      BY <2>2 DEF SkipHttps, QueueUrl
    <3>3. left[Serve] > 1 => left'[Serve] > 0
      BY <3>1
    <3>4. \A b \in Batches : arriving'[b] > 0 => owner[b] \in Queries
      BY <3>1, <3>2
    <3>5. QED
      BY <3>1, <3>3, <3>4
  <2>3. QED
    BY <1>20, <2>1, <2>2
<1>21. CASE ServeNext
  BY <1>21 DEF ServeNext
<1>22. CASE FetchRanking
  <2>1. UNCHANGED <<left, arriving, owner, batch, qry>>
    BY <1>22, FetchRankingDoes DEF FetchRanking
  <2>2. \/ pc' = [pc EXCEPT ![Serve] = "idle"]
        \/ pc' = [u \in Threads |-> "dead"]
    BY <1>22, FetchRankingDoes
  <2>3. QED
    BY <2>1, <2>2
<1>23. CASE ReadToSubtract \/ WriteSubtracted \/ TestRemaining
  BY <1>23 DEF ReadToSubtract, WriteSubtracted, TestRemaining
<1>24. CASE TestDataColl \/ SetDataCollComplete \/ AnnounceAllImages
  BY <1>24 DEF TestDataColl, SetDataCollComplete, AnnounceAllImages
<1>25. CASE UNCHANGED vars
  BY <1>25 DEF vars
<1>26. QED
  <2> HIDE DEF TypeInv, PlaceInv, Goto, Start, Call, Throw, Terminate, LoopInv
  <2>1. ASSUME NEW q \in Queries, Dispatch(q) PROVE LoopInv'
    BY <2>1, <1>1, <1>2, <1>3, <1>4, <1>5, <1>6, <1>7 DEF Dispatch
  <2>2. ASSUME NEW t \in Threads, Step(t) PROVE LoopInv'
    BY <2>2, <1>9, <1>10, <1>11, <1>12, <1>13, <1>14, <1>15, <1>16,
       <1>17, <1>18, <1>19 DEF Step, ImageStep
  <2>3. CASE ServeStep
    BY <2>3, <1>20, <1>21, <1>22 DEF ServeStep
  <2>4. CASE PostStep
    BY <2>4, <1>23, <1>24 DEF PostStep
  <2>5. QED
    BY <2>1, <2>2, <2>3, <2>4, <1>8, <1>25
       DEF Next, Work, Accept

-----------------------------------------------------------------------------
(* What ends the process: the counts of images, and the CHECKs                *)

\* The post-processing thread has an image of batch b, which it did not count down yet.
Handling(b) == batch[Post] = b /\ Busy(Post)
Uncounted   == Images \cup {"count", "subtract"}
Taken(b)    == IF batch[Post] = b /\ pc[Post] \in Uncounted THEN 1 ELSE 0

\* As long as the loop of downloadUrls and the post-processing thread do not overlap,
\* the count of a batch is that of its images, and a count that was read is still true.
Counted(b) ==
  /\ image_count[b] = arriving[b] + Taken(b)
  /\ pc[Serve] = "add" /\ batch[Serve] = b => value[Serve] = image_count[b]
  /\ pc[Post] = "subtract" /\ batch[Post] = b =>
       value[Post] = image_count[b] /\ ~Queueing(b)

DownloadInv ==
  terminated = {} =>
    \A b \in Batches :
      /\ owner[b] = None => arriving[b] = 0 /\ ~Handling(b)
      /\ ~overlap[b] => Counted(b)

\* When the process has ended nothing moves, and the lookup of the serve thread
\* cannot fail.
TerminateInv ==
  /\ OnlyRacesFailAssertions
  /\ terminated # {} => \A t \in Threads : pc[t] = "dead"
  /\ pc[Serve] = "file" => qry[Serve] \in queries

\* No thread takes a step once the process has ended.
LEMMA DeadStays ==
  ASSUME \A t \in Threads : pc[t] = "dead", [Next]_vars
  PROVE  UNCHANGED vars
<1>1. Serve \in Threads /\ Post \in Threads /\ Workers \subseteq Threads
  BY DEF Threads
<1>2. ASSUME NEW q \in Queries, Dispatch(q) PROVE FALSE
  BY <1>1, <1>2
     DEF Dispatch, StartQuery, SetTag, AddTrs, Detach, Block, GetRanking, FreeQuery,
         AddTrsFromFile, SaveClassifier, Call
<1>3. ASSUME NEW t \in Threads, Step(t) PROVE FALSE
  BY <1>3
     DEF Step, GetQueryIfo, CheckState, EnterState, ReadState, PostStateChange, TrainModel,
         LoadModel, ScoreDataset, SortScores, ComputeFails, LeaveState,
         GetQueryIfoForFile, TestCollecting, ComputeFeat, FeatFails, InvalidImage, PushFeat,
         Goto
<1>4. ASSUME ServeStep \/ PostStep \/ \E b \in Batches : TakeImage(b) PROVE FALSE
  BY <1>1, <1>4
     DEF ServeStep, SkipHttps, FolderFails, ReadToAdd, QueueUrl, NextUrl, ServeNext,
         FetchRanking, PostStep, ReadToSubtract, WriteSubtracted, TestRemaining,
         TestDataColl, SetDataCollComplete, AnnounceAllImages, TakeImage, Goto
<1>5. QED
  BY <1>2, <1>3, <1>4 DEF Next, Accept, Work

\* The process is ended by one thread, for one of the reasons.
LEMMA EndsFor ==
  ASSUME TypeInv, PlaceInv, [Next]_vars, terminated' # terminated
  PROVE  \E t \in Threads, why \in Reasons :
           /\ Terminate(t, why)
           /\ UNCHANGED <<queries, qry, batch, overlap>>
           /\ why = "lookup" => pc[t] \in {"get", "file"} /\ qry[t] \notin queries
           /\ why = "scores" =>
                /\ qry[Serve] \in Queries /\ state[qry[Serve]] = "RANKED"
                /\ "scores" \notin ranking[qry[Serve]]
           /\ why = "model" =>
                \E q \in Queries : state[q] \in {"TRAINED", "RANKING", "RANKED"} /\ ~model[q]
           /\ why = "count" => pc[Post] = "remaining" /\ image_count[batch[Post]] < 0
<1> USE ServerAssumption
    DEF Threads, Reasons, query_vars, download_vars, thread_vars
<1>1. ASSUME NEW q \in Queries, SaveClassifier(q)
      PROVE  /\ UNCHANGED <<queries, qry, batch, overlap>>
             /\ \/ UNCHANGED terminated
                \/ Terminate(Serve, "file")
                \/ /\ Terminate(Serve, "model") /\ ~model[q]
                   /\ state[q] \in {"TRAINED", "RANKING", "RANKED"}
  BY <1>1 DEF SaveClassifier
<1>2. ASSUME NEW q \in Queries, Dispatch(q), ~SaveClassifier(q)
      PROVE  UNCHANGED terminated
  BY <1>2 DEF Dispatch, StartQuery, SetTag, AddTrs, Detach, Block, GetRanking, FreeQuery,
     AddTrsFromFile
<1>3. ASSUME NEW t \in Threads, GetQueryIfo(t) \/ GetQueryIfoForFile(t)
      PROVE  /\ UNCHANGED <<queries, qry, batch, overlap>>
             /\ \/ UNCHANGED terminated
                \/ /\ Terminate(t, "lookup") /\ pc[t] \in {"get", "file"}
                   /\ qry[t] \notin queries
  BY <1>3 DEF GetQueryIfo, GetQueryIfoForFile
<1>4. ASSUME NEW t \in Threads, LoadModel(t) \/ FeatFails(t)
      PROVE  /\ UNCHANGED <<queries, qry, batch, overlap>>
             /\ UNCHANGED terminated \/ Terminate(t, "file") \/ Terminate(t, "image")
  BY <1>4 DEF LoadModel, FeatFails
<1>5. ASSUME NEW t \in Threads, Step(t), ~GetQueryIfo(t), ~GetQueryIfoForFile(t),
             ~LoadModel(t), ~FeatFails(t)
      PROVE  UNCHANGED terminated
  BY <1>5 DEF Step, CheckState, EnterState, ReadState, PostStateChange, TrainModel,
     ScoreDataset, SortScores, ComputeFails, LeaveState, TestCollecting, ComputeFeat,
     InvalidImage, PushFeat, process_vars
<1>6. CASE FolderFails
  BY <1>6 DEF FolderFails
<1>7. CASE FetchRanking
  <2>1. UNCHANGED <<queries, qry, batch, overlap>>
    BY <1>7 DEF FetchRanking
  <2>2. qry[Serve] \in Queries
    BY <1>7 DEF FetchRanking, PlaceInv
  <2>3. \/ UNCHANGED terminated
        \/ Terminate(Serve, "page")
        \/ /\ Terminate(Serve, "scores") /\ state[qry[Serve]] = "RANKED"
           /\ "scores" \notin ranking[qry[Serve]]
    BY <1>7, FetchRankingDoes
  <2>4. QED
    BY <2>1, <2>2, <2>3
<1>8. CASE TestRemaining
  BY <1>8 DEF TestRemaining
<1>9. ASSUME ServeStep \/ PostStep \/ \E b \in Batches : TakeImage(b), ~FolderFails,
             ~FetchRanking, ~TestRemaining
      PROVE  UNCHANGED terminated
  BY <1>9 DEF ServeStep, SkipHttps, ReadToAdd, QueueUrl, NextUrl, ServeNext, PostStep,
     ReadToSubtract, WriteSubtracted, TestDataColl, SetDataCollComplete,
     AnnounceAllImages, TakeImage
<1>10. CASE \E q \in Queries : Dispatch(q)
  BY <1>1, <1>2, <1>10
<1>11. CASE \E t \in Threads : Step(t)
  BY <1>3, <1>4, <1>5, <1>11
<1>12. CASE UNCHANGED vars
  BY <1>12 DEF vars
<1>13. QED
  BY <1>6, <1>7, <1>8, <1>9, <1>10, <1>11, <1>12 DEF Next, Accept, Work

\* Most steps have nothing to do with downloads.
DownloadsKept ==
  /\ UNCHANGED <<download_vars, batch>>
  /\ pc'[Serve] \in {"queue", "add"} => pc'[Serve] = pc[Serve]
  /\ pc'[Post] \in Images \cup {"count"} <=> pc[Post] \in Images \cup {"count"}
  /\ pc'[Post] = "subtract" <=> pc[Post] = "subtract"
  /\ Busy(Post)' => Busy(Post)

LEMMA KeepsDownloads ==
  ASSUME TypeInv, PlaceInv, RestTypes, DownloadInv, DownloadsKept, terminated = {}
  PROVE  DownloadInv'
<1>1. UNCHANGED <<owner, image_count, arriving, value, overlap, batch>>
  BY DEF DownloadsKept, download_vars
<1>2. \A b \in Batches : Queueing(b)' => Queueing(b)
  BY <1>1 DEF DownloadsKept, Queueing
<1>3. pc'[Post] \in Uncounted <=> pc[Post] \in Uncounted
  BY DEF DownloadsKept, Uncounted
<1>4. \A b \in Batches : Taken(b)' = Taken(b)
  BY <1>1, <1>3 DEF Taken
<1>5. \A b \in Batches : Handling(b)' => Handling(b)
  BY <1>1 DEF DownloadsKept, Handling
<1>6. ASSUME NEW b \in Batches, Counted(b) PROVE Counted(b)'
  BY <1>1, <1>2, <1>4, <1>6 DEF Counted, DownloadsKept
<1>7. QED
  BY <1>1, <1>5, <1>6 DEF DownloadInv

\* What is not a step of the loop of downloadUrls, or of the count, keeps them.
LEMMA OthersKeepDownloads ==
  ASSUME TypeInv, PlaceInv, RestTypes, LoopInv, [Next]_vars, terminated' = terminated,
         ~\E q \in Queries, b \in Batches, n \in 1..MaxUrls : AddTrs(q, b, n),
         ~\E b \in Batches : TakeImage(b),
         ~SkipHttps, ~ReadToAdd, ~QueueUrl,
         ~ReadToSubtract, ~WriteSubtracted, ~TestRemaining,
         terminated = {}
  PROVE  DownloadsKept
<1> USE ServerAssumption
    DEF TypeInv, PlaceInv, Threads, Images, Training, DownloadsKept, Busy, Goto, Start,
        Call, Throw, download_vars
<1>1. ASSUME NEW q \in Queries, Dispatch(q) PROVE DownloadsKept
  <2>1. CASE StartQuery(q) \/ GetRanking(q) \/ FreeQuery(q) \/ SaveClassifier(q)
    BY <2>1 DEF StartQuery, GetRanking, FreeQuery, SaveClassifier, Terminate, thread_vars
  <2>2. ASSUME NEW e \in BOOLEAN, SetTag(q, e) PROVE DownloadsKept
    BY <2>2 DEF SetTag, thread_vars
  <2>3. ASSUME NEW w \in Workers, NEW request, NEW task, Detach(w, request, task, q)
        PROVE DownloadsKept
    BY <2>3 DEF Detach
  <2>4. ASSUME NEW request, NEW task, NEW rest, Block(request, task, q, rest)
        PROVE DownloadsKept
    BY <2>4 DEF Block
  <2>5. ASSUME NEW t \in Workers \cup {Serve}, NEW n \in 1..MaxUrls, NEW request,
               AddTrsFromFile(t, request, q, n)
        PROVE DownloadsKept
    BY <2>5 DEF AddTrsFromFile
  <2>6. QED
    BY <1>1, <2>1, <2>2, <2>3, <2>4, <2>5 DEF Dispatch
<1>2. ASSUME NEW t \in Threads, Step(t) PROVE DownloadsKept
  <2> USE DEF thread_vars
  <2>1. CASE GetQueryIfo(t) \/ GetQueryIfoForFile(t) \/ FeatFails(t) \/ LoadModel(t)
    <3>1. UNCHANGED <<download_vars, batch>>
      BY <2>1 DEF GetQueryIfo, GetQueryIfoForFile, FeatFails, LoadModel
    <3>2. \/ Terminate(t, "lookup") \/ Terminate(t, "image") \/ Terminate(t, "file")
          \/ pc[t] = "get" /\ pc' = [pc EXCEPT ![t] = "check"]
          \/ pc[t] = "file" /\ pc' = [pc EXCEPT ![t] = "process"]
          \/ pc[t] = "compute" /\ pc' = [pc EXCEPT ![t] = "finish"]
      BY <2>1 DEF GetQueryIfo, GetQueryIfoForFile, FeatFails, LoadModel
    <3>3. ~Terminate(t, "lookup") /\ ~Terminate(t, "image") /\ ~Terminate(t, "file")
      BY DEF Terminate
    <3>4. QED
      BY <3>1, <3>2, <3>3
  <2>2. CASE CheckState(t) \/ EnterState(t) \/ ReadState(t)
    BY <2>2 DEF CheckState, EnterState, ReadState
  <2>3. CASE PostStateChange(t)
    <3>1. UNCHANGED <<download_vars, batch>>
      BY <2>3 DEF PostStateChange
    <3>2. QED
      BY <2>3, <3>1, PostStateChangeDoes
  <2>4. CASE \/ TrainModel(t) \/ ScoreDataset(t) \/ SortScores(t) \/ ComputeFails(t)
             \/ LeaveState(t)
    BY <2>4 DEF TrainModel, ScoreDataset, SortScores, ComputeFails, LeaveState
  <2>5. CASE ImageStep(t)
    <3>1. UNCHANGED <<download_vars, batch>>
      BY <2>5 DEF ImageStep, TestCollecting, ComputeFeat, InvalidImage, PushFeat,
         process_vars
    <3>2. QED
      BY <2>5, <3>1, ImageStepDoes
  <2>6. QED
    BY <1>2, <2>1, <2>2, <2>3, <2>4, <2>5 DEF Step, ImageStep
<1>3. CASE ServeNext \/ FetchRanking \/ FolderFails
  BY <1>3 DEF ServeNext, FetchRanking, FolderFails, Terminate, thread_vars
<1>4. CASE TestDataColl \/ SetDataCollComplete \/ AnnounceAllImages
  BY <1>4 DEF TestDataColl, SetDataCollComplete, AnnounceAllImages, thread_vars
<1>5. CASE UNCHANGED vars
  BY <1>5 DEF vars, thread_vars
<1>6. QED
  BY <1>1, <1>2, <1>3, <1>4, <1>5 DEF Next, Accept, Work, ServeStep, PostStep

\* An image is counted before it may arrive, and a batch is queued by one call only.
LEMMA DownloadStep ==
  ASSUME TypeInv, PlaceInv, RestTypes, LoopInv, DownloadInv, [Next]_vars,
         terminated = {}, terminated' = terminated
  PROVE  DownloadInv'
<1> USE ServerAssumption DEF Threads, Goto, Start, Call
<1>t. /\ pc \in [Threads -> Labels] /\ batch \in [Threads -> Batches \cup {None}]
      /\ owner \in [Batches -> Queries \cup {None}] /\ image_count \in [Batches -> Int]
      /\ arriving \in [Batches -> Nat] /\ value \in [{Serve, Post} -> Int]
      /\ overlap \in [Batches -> BOOLEAN]
  BY DEF TypeInv, RestTypes
<1>l. /\ \A b \in Batches : arriving[b] > 0 => owner[b] \in Queries
      /\ pc[Serve] \in {"queue", "add"} =>
           batch[Serve] \in Batches /\ owner[batch[Serve]] \in Queries
      /\ pc[Post] \notin {"idle", "dead"} => batch[Post] \in Batches
  BY DEF LoopInv
<1>d. \A b \in Batches : owner[b] = None => arriving[b] = 0 /\ ~Handling(b)
  BY DEF DownloadInv
<1>c. \A b \in Batches : ~overlap[b] => Counted(b)
  BY DEF DownloadInv
<1>1. ASSUME NEW q \in Queries, NEW c \in Batches, NEW n \in 1..MaxUrls, AddTrs(q, c, n)
      PROVE  DownloadInv'
  <2>1. /\ pc[Serve] = "idle" /\ pc' = [pc EXCEPT ![Serve] = "queue"]
        /\ batch' = [batch EXCEPT ![Serve] = c] /\ owner[c] = None
        /\ owner' = [owner EXCEPT ![c] = q] /\ image_count' = [image_count EXCEPT ![c] = 0]
        /\ UNCHANGED <<arriving, value, overlap>>
    BY <1>t, <1>l, <1>1 DEF AddTrs
  <2>2. arriving[c] = 0 /\ ~Handling(c)
    BY <1>t, <1>l, <1>c, <1>d, <2>1
  <2>3. \A b \in Batches : Taken(b)' = Taken(b) /\ (Handling(b)' <=> Handling(b))
    BY <1>t, <1>l, <2>1 DEF Taken, Handling, Busy
  <2>4. Taken(c) = 0
    BY <1>t, <1>l, <2>2 DEF Taken, Handling, Busy, Uncounted, Images
  <2>5. ASSUME NEW b \in Batches, ~overlap'[b] PROVE Counted(b)'
    <3>1. Counted(b)
      BY <1>t, <1>l, <1>c, <1>d, <2>1, <2>5
    <3>2. image_count'[b] = arriving'[b] + Taken(b)'
      BY <1>t, <1>l, <2>1, <2>2, <2>3, <2>4, <3>1 DEF Counted
    <3>3. ~(pc'[Serve] = "add")
      BY <1>t, <1>l, <2>1
    <3>4. pc'[Post] = "subtract" /\ batch'[Post] = b =>
            value'[Post] = image_count'[b] /\ ~Queueing(b)'
      BY <1>t, <1>l, <2>1, <2>2, <3>1 DEF Counted, Queueing, Handling, Busy
    <3>5. QED
      BY <1>t, <1>l, <3>2, <3>3, <3>4 DEF Counted
  <2>6. QED
    BY <1>t, <1>l, <1>c, <1>d, <2>1, <2>3, <2>5 DEF DownloadInv
<1>2. ASSUME NEW c \in Batches, TakeImage(c) PROVE DownloadInv'
  <2>1. /\ pc[Post] = "idle" /\ pc'[Post] \in {"process", "count"} /\ pc'[Serve] = pc[Serve]
        /\ arriving[c] > 0 /\ arriving' = [arriving EXCEPT ![c] = arriving[c] - 1]
        /\ batch'[Post] = c /\ batch'[Serve] = batch[Serve]
        /\ UNCHANGED <<owner, image_count, value, overlap>>
    BY <1>t, <1>l, <1>2 DEF TakeImage
  <2>2. \A b \in Batches : /\ Taken(b) = 0 /\ (Taken(b)' = IF b = c THEN 1 ELSE 0)
                          /\ (Handling(b)' => b = c)
    BY <1>t, <1>l, <2>1 DEF Taken, Uncounted, Images, Handling
  <2>3. owner[c] # None
    BY <1>t, <1>l, <1>c, <1>d, <2>1
  <2>4. ASSUME NEW b \in Batches, ~overlap'[b] PROVE Counted(b)'
    <3>1. Counted(b)
      BY <1>t, <1>l, <1>c, <1>d, <2>1, <2>4
    <3>2. image_count'[b] = arriving'[b] + Taken(b)'
      BY <1>t, <1>l, <2>1, <2>2, <3>1 DEF Counted
    <3>3. QED
      BY <1>t, <1>l, <2>1, <3>1, <3>2 DEF Counted
  <2>5. QED
    BY <1>t, <1>l, <1>c, <1>d, <2>1, <2>2, <2>3, <2>4 DEF DownloadInv
<1>3. CASE SkipHttps \/ ReadToAdd
  <2>1. /\ pc[Serve] = "queue" /\ pc'[Serve] \in {"queue", "add", "idle"}
        /\ pc'[Post] = pc[Post]
        /\ pc'[Serve] = "add" => value'[Serve] = image_count[batch[Serve]]
        /\ value'[Post] = value[Post]
        /\ UNCHANGED <<batch, owner, image_count, arriving, overlap>>
    BY <1>t, <1>l, <1>3 DEF SkipHttps, NextUrl, ReadToAdd, thread_vars
  <2>2. \A b \in Batches : /\ Taken(b)' = Taken(b) /\ (Handling(b)' <=> Handling(b))
                          /\ (Queueing(b)' => Queueing(b))
    BY <1>t, <1>l, <2>1 DEF Taken, Handling, Busy, Queueing
  <2>3. ASSUME NEW b \in Batches, Counted(b) PROVE Counted(b)'
    BY <1>t, <1>l, <2>1, <2>2, <2>3 DEF Counted
  <2>4. QED
    BY <1>t, <1>l, <1>c, <1>d, <2>1, <2>2, <2>3 DEF DownloadInv
<1>4. CASE QueueUrl
  <2> DEFINE c == batch[Serve]
  <2>1. /\ pc[Serve] = "add" /\ pc'[Serve] \in {"queue", "idle"} /\ pc'[Post] = pc[Post]
        /\ image_count' = [image_count EXCEPT ![c] = value[Serve] + 1]
        /\ arriving' = [arriving EXCEPT ![c] = arriving[c] + 1]
        /\ UNCHANGED <<batch, owner, value, overlap>>
    BY <1>t, <1>l, <1>4 DEF QueueUrl, NextUrl
  <2>2. c \in Batches /\ owner[c] # None
    BY <1>t, <1>l, <2>1
  <2>3. \A b \in Batches : /\ Taken(b)' = Taken(b) /\ (Handling(b)' <=> Handling(b))
                          /\ (Queueing(b) <=> b = c)
                          /\ (Queueing(b)' => b = c)
    BY <1>t, <1>l, <2>1 DEF Taken, Handling, Busy, Queueing
  <2>4. ASSUME NEW b \in Batches, Counted(b) PROVE Counted(b)'
    <3>1. CASE b = c
      <4>1. /\ value[Serve] = image_count[b] /\ ~(pc[Post] = "subtract" /\ batch[Post] = b)
            /\ image_count[b] = arriving[b] + Taken(b)
        BY <1>t, <1>l, <2>1, <2>3, <2>4, <3>1 DEF Counted
      <4>2. /\ image_count'[b] = image_count[b] + 1 /\ arriving'[b] = arriving[b] + 1
            /\ image_count[b] \in Int /\ arriving[b] \in Int /\ Taken(b)' = Taken(b)
            /\ Taken(b) \in Int
        BY <1>t, <1>l, <2>1, <2>2, <2>3, <3>1, <4>1 DEF Taken
      <4>3. image_count'[b] = arriving'[b] + Taken(b)'
        BY <1>t, <1>l, <4>1, <4>2
      <4>4. QED
        BY <1>t, <1>l, <2>1, <4>1, <4>3 DEF Counted
    <3>2. CASE b # c
      BY <1>t, <1>l, <2>1, <2>3, <2>4, <3>2 DEF Counted
    <3>3. QED
      BY <1>t, <1>l, <3>1, <3>2
  <2>5. QED
    <3>1. \A b \in Batches : owner'[b] = None => arriving'[b] = 0 /\ ~Handling(b)'
      BY <1>t, <1>l, <1>c, <1>d, <2>1, <2>2, <2>3
    <3>2. QED
      BY <1>t, <1>l, <1>c, <1>d, <2>1, <2>4, <3>1 DEF DownloadInv
<1>5. CASE ReadToSubtract
  <2> DEFINE c == batch[Post]
  <2>1. /\ pc[Post] = "count" /\ pc'[Post] = "subtract" /\ pc'[Serve] = pc[Serve]
        /\ value'[Post] = image_count[c] /\ value'[Serve] = value[Serve]
        /\ overlap' = [overlap EXCEPT ![c] = overlap[c] \/ Queueing(c)]
        /\ UNCHANGED <<batch, owner, image_count, arriving>>
    BY <1>t, <1>l, <1>5 DEF ReadToSubtract, thread_vars
  <2>2. c \in Batches
    BY <1>t, <1>l, <2>1
  <2>3. \A b \in Batches : /\ Taken(b)' = Taken(b) /\ (Handling(b)' <=> Handling(b))
                          /\ (Queueing(b)' <=> Queueing(b))
    BY <1>t, <1>l, <2>1 DEF Taken, Handling, Busy, Queueing, Uncounted
  <2>4. ASSUME NEW b \in Batches, ~overlap'[b] PROVE Counted(b)'
    <3>1. ~overlap[b] /\ (b = c => ~Queueing(b))
      BY <1>t, <1>l, <2>1, <2>2, <2>4 DEF Queueing
    <3>2. Counted(b)
      BY <1>t, <1>l, <1>c, <1>d, <3>1
    <3>3. QED
      BY <1>t, <1>l, <2>1, <2>3, <3>1, <3>2 DEF Counted
  <2>5. QED
    BY <1>t, <1>l, <1>c, <1>d, <2>1, <2>3, <2>4 DEF DownloadInv
<1>6. CASE WriteSubtracted
  <2> DEFINE c == batch[Post]
  <2>1. /\ pc[Post] = "subtract" /\ pc'[Post] = "remaining" /\ pc'[Serve] = pc[Serve]
        /\ image_count' = [image_count EXCEPT ![c] = value[Post] - 1]
        /\ UNCHANGED <<batch, owner, arriving, value, overlap>>
    BY <1>t, <1>l, <1>6 DEF WriteSubtracted, thread_vars
  <2>2. c \in Batches
    BY <1>t, <1>l, <2>1 DEF Busy
  <2>3. \A b \in Batches : /\ (Taken(b) = IF b = c THEN 1 ELSE 0) /\ Taken(b)' = 0
                          /\ (Handling(b)' <=> Handling(b))
                          /\ (Queueing(b)' <=> Queueing(b))
    BY <1>t, <1>l, <2>1 DEF Taken, Handling, Busy, Queueing, Uncounted, Images
  <2>4. ASSUME NEW b \in Batches, Counted(b) PROVE Counted(b)'
    <3>1. CASE b = c
      <4>1. /\ value[Post] = image_count[b] /\ ~Queueing(b)
            /\ image_count[b] = arriving[b] + 1
        BY <1>t, <1>l, <2>1, <2>3, <2>4, <3>1 DEF Counted
      <4>2. image_count'[b] = arriving'[b] + Taken(b)'
        BY <1>t, <1>l, <2>1, <2>2, <2>3, <3>1, <4>1
      <4>3. QED
        BY <1>t, <1>l, <2>1, <2>3, <4>1, <4>2 DEF Counted, Queueing
    <3>2. CASE b # c
      BY <1>t, <1>l, <2>1, <2>3, <2>4, <3>2 DEF Counted
    <3>3. QED
      BY <1>t, <1>l, <3>1, <3>2
  <2>5. QED
    BY <1>t, <1>l, <1>c, <1>d, <2>1, <2>3, <2>4 DEF DownloadInv
<1>7. CASE TestRemaining
  <2>1. /\ pc[Post] = "remaining" /\ pc'[Post] \in {"callback", "idle", "dead"}
        /\ pc'[Serve] \in {pc[Serve], "dead"}
        /\ UNCHANGED <<batch, owner, image_count, arriving, value, overlap>>
    BY <1>t, <1>l, <1>7 DEF TestRemaining, Terminate, thread_vars, download_vars
  <2>2. \A b \in Batches : /\ Taken(b)' = Taken(b) /\ (Handling(b)' => Handling(b))
    BY <1>t, <1>l, <2>1 DEF Taken, Handling, Busy, Uncounted, Images
  <2>3. ASSUME NEW b \in Batches, Counted(b) PROVE Counted(b)'
    BY <1>t, <1>l, <2>1, <2>2, <2>3 DEF Counted
  <2>4. QED
    BY <1>t, <1>l, <1>c, <1>d, <2>1, <2>2, <2>3 DEF DownloadInv
<1>8. QED
  BY <1>1, <1>2, <1>3, <1>4, <1>5, <1>6, <1>7, OthersKeepDownloads, KeepsDownloads

\* The CHECKs of the scores, of the model and of the count rest on what the other
\* invariants say; and the serve thread is the only one that frees queries.
LEMMA TerminateStep ==
  ASSUME TypeInv, PlaceInv, RestTypes, LoopInv, DownloadInv, ModelInv, RankingInv,
         TerminateInv, [Next]_vars
  PROVE  DownloadInv' /\ TerminateInv'
<1> USE ServerAssumption
<1>1. CASE terminated # {}
  <2>1. UNCHANGED vars
    BY <1>1, DeadStays DEF TerminateInv
  <2>2. UNCHANGED <<terminated, pc, qry, queries, batch, overlap>>
    BY <2>1 DEF vars, query_vars, thread_vars, download_vars
  <2>3. QED
    BY <1>1, <2>2 DEF TerminateInv, OnlyRacesFailAssertions, DownloadInv
<1>2. CASE terminated = {} /\ terminated' = terminated
  <2>1. pc'[Serve] = "file" => qry'[Serve] \in queries'
    <3>1. ASSUME NEW q \in Queries, Dispatch(q), pc'[Serve] = "file"
          PROVE  qry'[Serve] \in queries'
      BY <3>1 DEF Dispatch, StartQuery, SetTag, AddTrs, Detach, Block, GetRanking,
         FreeQuery, AddTrsFromFile, SaveClassifier, Call, Start, TypeInv, Threads,
         TerminateInv, Terminate, query_vars, thread_vars
    <3>2. ASSUME Work \/ \E b \in Batches : TakeImage(b), pc'[Serve] = "file"
          PROVE  pc[Serve] = "file" /\ qry'[Serve] = qry[Serve] /\ queries' = queries
      <4> USE DEF TypeInv, Threads, Goto, query_vars, thread_vars
      <4>1. ASSUME NEW t \in Threads, Step(t)
            PROVE  pc[Serve] = "file" /\ qry'[Serve] = qry[Serve] /\ queries' = queries
        <5>1. CASE ImageStep(t)
          BY <3>2, <5>1, ImageStepDoes DEF Images
        <5>2. CASE GetQueryIfo(t) \/ GetQueryIfoForFile(t) \/ FeatFails(t) \/ LoadModel(t)
          BY <3>2, <5>2
             DEF GetQueryIfo, GetQueryIfoForFile, FeatFails, LoadModel, Terminate
        <5>3. CASE CheckState(t) \/ EnterState(t) \/ ReadState(t)
          BY <3>2, <5>3 DEF CheckState, EnterState, ReadState, Throw
        <5>4. CASE PostStateChange(t)
          BY <3>2, <5>4, PostStateChangeDoes DEF Others
        <5>5. CASE \/ TrainModel(t) \/ ScoreDataset(t) \/ SortScores(t) \/ ComputeFails(t)
                   \/ LeaveState(t)
          BY <3>2, <5>5
             DEF TrainModel, ScoreDataset, SortScores, ComputeFails, LeaveState, Throw
        <5>6. QED
          BY <4>1, <5>1, <5>2, <5>3, <5>4, <5>5 DEF Step, ImageStep
      <4>2. CASE ServeStep
        BY <3>2, <4>2 DEF ServeStep, SkipHttps, FolderFails, ReadToAdd, QueueUrl, NextUrl,
           ServeNext, FetchRanking, Terminate, Throw
      <4>3. CASE PostStep
        BY <3>2, <4>3 DEF PostStep, ReadToSubtract, WriteSubtracted, TestRemaining,
           TestDataColl, SetDataCollComplete, AnnounceAllImages, Terminate
      <4>4. ASSUME NEW b \in Batches, TakeImage(b)
            PROVE  pc[Serve] = "file" /\ qry'[Serve] = qry[Serve] /\ queries' = queries
        BY <3>2, <4>4 DEF TakeImage
      <4>5. QED
        BY <3>2, <4>1, <4>2, <4>3, <4>4 DEF Work
    <3>3. CASE UNCHANGED vars
      BY <3>3 DEF vars, query_vars, thread_vars, TerminateInv
    <3>4. QED
      BY <3>1, <3>2, <3>3 DEF Next, Accept, TerminateInv
  <2>2. QED
    BY <1>2, <2>1, DownloadStep DEF TerminateInv, OnlyRacesFailAssertions
<1>3. CASE terminated = {} /\ terminated' # terminated
  <2>1. PICK t \in Threads, why \in Reasons :
          /\ Terminate(t, why)
          /\ UNCHANGED <<queries, qry, batch, overlap>>
          /\ why = "lookup" => pc[t] \in {"get", "file"} /\ qry[t] \notin queries
          /\ why = "scores" =>
               /\ qry[Serve] \in Queries /\ state[qry[Serve]] = "RANKED"
               /\ "scores" \notin ranking[qry[Serve]]
          /\ why = "model" =>
               \E q \in Queries : state[q] \in {"TRAINED", "RANKING", "RANKED"} /\ ~model[q]
          /\ why = "count" => pc[Post] = "remaining" /\ image_count[batch[Post]] < 0
    BY <1>3, EndsFor
  <2>2. terminated' = {[thread |-> t, why |-> why]} /\ \A u \in Threads : pc'[u] = "dead"
    BY <2>1 DEF Terminate
  <2>3. why \notin {"scores", "model"}
    BY <2>1 DEF RankingInv, RankedHasRanking, ModelInv, TrainedHasModel
  <2>4. why = "lookup" => t \in Workers
    BY <2>1 DEF Threads, PlaceInv, TerminateInv, Images
  <2>5. why = "count" => overlap[batch[Post]]
    <3>1. SUFFICES ASSUME why = "count", ~overlap[batch[Post]] PROVE FALSE
      OBVIOUS
    <3>2. batch[Post] \in Batches /\ Taken(batch[Post]) = 0
      BY <2>1, <3>1 DEF LoopInv, Taken, Uncounted, Images
    <3>3. image_count[batch[Post]] = arriving[batch[Post]]
      <4>1. Counted(batch[Post])
        BY <1>3, <3>1, <3>2 DEF DownloadInv
      <4>2. QED
        BY <3>2, <4>1 DEF Counted, RestTypes
    <3>4. QED
      BY <2>1, <3>1, <3>2, <3>3 DEF RestTypes
  <2>6. OnlyRacesFailAssertions'
    BY <2>1, <2>2, <2>3, <2>4, <2>5 DEF OnlyRacesFailAssertions
  <2>7. QED
    BY <2>2, <2>6 DEF TerminateInv, DownloadInv, Threads
<1>4. QED
  BY <1>1, <1>2, <1>3

-----------------------------------------------------------------------------
(* The theorems *)

\* The types hold at the start.
LEMMA InitTypes == Init => RestTypes /\ LoopInv
<1> SUFFICES ASSUME Init PROVE RestTypes /\ LoopInv
  OBVIOUS
<1>1. posted \in [Queries -> Seq(States)]
  BY DEF Init
<1>2. QED
  BY <1>1, ServerAssumption
     DEF Init, RestTypes, LoopInv, Threads, Labels, States, Images

\* Every variable keeps its type: in particular no loop over urls or paths runs
\* below zero, and no image arrives for a batch that belongs to no query.
THEOREM ServerTypeCorrect == Spec => []TypeOK
<1> DEFINE Inv == TypeInv /\ PlaceInv /\ RestTypes /\ LoopInv
<1>1. Init => Inv
  BY InitPlace, InitTypes
<1>2. Inv /\ [Next]_vars => Inv'
  BY TypeStep, PlaceStep, RestStep, LoopStep
<1>3. Inv => TypeOK
  BY DEF TypeInv, RestTypes, TypeOK
<1>4. QED
  BY <1>1, <1>2, <1>3, PTL DEF Spec

\* The invariants hold at the start, where no query is past data collection.
LEMMA InitData ==
  Init => /\ ModelInv /\ RankingInv /\ FeatInv /\ NoSilentStall
          /\ DownloadInv /\ TerminateInv
  BY ServerAssumption
     DEF Init, ModelInv, TrainedHasModel, RankingInv, RankedHasRanking, FeatInv,
         DownloadInv, Counted, Taken, Handling, Busy, Uncounted, Images,
         TerminateInv, OnlyRacesFailAssertions, NoSilentStall, Threads, Training

\* A query in state RANKED has scores and an order of them, whatever other threads
\* do with it: the CHECK of getRanking (base_server.cc:281) never fails.
THEOREM ServerRankedHasRanking == Spec => []RankedHasRanking
<1>1. Init => TypeInv /\ PlaceInv /\ RankingInv
  BY InitPlace, InitData
<1>2. TypeInv /\ PlaceInv /\ RankingInv /\ [Next]_vars
        => (TypeInv /\ PlaceInv /\ RankingInv)'
  BY TypeStep, PlaceStep, RankingStep
<1>3. RankingInv => RankedHasRanking
  BY DEF RankingInv
<1>4. QED
  BY <1>1, <1>2, <1>3, PTL DEF Spec

\* train_ has features when it trains, although train tested pos_paths in another
\* thread and long before.
THEOREM ServerTrainingHasFeatures == Spec => []TrainingHasFeatures
<1>1. Init => TypeInv /\ PlaceInv /\ FeatInv
  BY InitPlace, InitData
<1>2. TypeInv /\ PlaceInv /\ FeatInv /\ [Next]_vars => (TypeInv /\ PlaceInv /\ FeatInv)'
  BY TypeStep, PlaceStep, FeatStep
<1>3. FeatInv => TrainingHasFeatures
  BY DEF FeatInv, TrainingHasFeatures
<1>4. QED
  BY <1>1, <1>2, <1>3, PTL DEF Spec

\* While the server runs, a query in TRAINING or RANKING has a thread at work on
\* it, or its failure was reported.
THEOREM ServerNoSilentStall == Spec => []NoSilentStall
<1>1. Init => TypeInv /\ PlaceInv /\ NoSilentStall
  BY InitPlace, InitData
<1>2. TypeInv /\ PlaceInv /\ NoSilentStall /\ [Next]_vars
        => (TypeInv /\ PlaceInv /\ NoSilentStall)'
  BY TypeStep, PlaceStep, StallStep
<1>3. QED
  BY <1>1, <1>2, PTL DEF Spec

\* If every file passed to load_classifier can be parsed, a query that claims to be
\* trained has a model: the CHECK of writeModelToProto (io.cc:218) never fails.
THEOREM ServerTrainedHasModel ==
  ASSUME "corrupt" \notin ModelFiles
  PROVE  Spec => []TrainedHasModel
<1>1. Init => TypeInv /\ PlaceInv /\ ModelInv
  BY InitPlace, InitData
<1>2. TypeInv /\ PlaceInv /\ ModelInv /\ [Next]_vars
        => (TypeInv /\ PlaceInv /\ ModelInv)'
  BY TypeStep, PlaceStep, ModelStep
<1>3. ModelInv => TrainedHasModel
  BY DEF ModelInv
<1>4. QED
  BY <1>1, <1>2, <1>3, PTL DEF Spec

\* With the same files, whatever else ends the process: its own CHECKs never do, but for
\* that of the number of images, of a batch of which one was counted down while others
\* were queued (image_downloader.cc:42, 145, 153); and a lookup that nothing covers only
\* fails in a detached thread whose query was freed (base_server.cc:602, 662, 709).
THEOREM ServerOnlyRacesFailAssertions ==
  ASSUME "corrupt" \notin ModelFiles
  PROVE  Spec => []OnlyRacesFailAssertions
<1> DEFINE Inv == /\ TypeInv /\ PlaceInv /\ RestTypes /\ LoopInv /\ ModelInv /\ RankingInv
                  /\ DownloadInv /\ TerminateInv
<1>1. Init => Inv
  BY InitPlace, InitTypes, InitData
<1>2. Inv /\ [Next]_vars => Inv'
  BY TypeStep, PlaceStep, RestStep, LoopStep, ModelStep, RankingStep, TerminateStep
<1>3. Inv => OnlyRacesFailAssertions
  BY DEF TerminateInv
<1>4. QED
  BY <1>1, <1>2, <1>3, PTL DEF Spec

-----------------------------------------------------------------------------
(* What clients can tell of a step of the server                             *)

Announcing == {"post", "post_done", "post_complete"}

\* Steps of thread t that clients do not notice.
Goes(t, to) ==
  \/ pc[t] = "get" /\ qry[t] \in queries /\ to = "check"
  \/ pc[t] = "file" /\ qry[t] \in queries /\ to = "process"
  \/ pc[t] = "check" /\ to = "set"
  \/ pc[t] = "compute" /\ to \in {"sort", "finish"}
  \/ pc[t] = "sort" /\ to = "finish"
  \/ pc[t] \in Images /\ to \in Images /\ (to = "push" => state[qry[t]] = "DATACOLL")
  \/ pc[t] \in Images /\ to = IF t = Post THEN "count" ELSE Done(t)
  \/ t = Serve /\ pc[t] \in {"queue", "add"} /\ to \in {"queue", "add", "idle"}
  \/ t = Serve /\ pc[t] = "fetch" /\ state[qry[t]] = "RANKED" /\ to = "idle"
  \/ t = Post /\ pc[t] = "count" /\ to = "subtract"
  \/ t = Post /\ pc[t] = "subtract" /\ to = "remaining"
  \/ t = Post /\ pc[t] = "remaining" /\ to \in {"callback", "idle"}
  \/ t = Post /\ pc[t] = "callback" /\ to \in {"complete", "announce_all"}
     /\ (to = "complete" => state[qry[t]] = "DATACOLL")
  \/ t = Post /\ pc[t] = "announce_all" /\ to = "announce_complete"

\* Variables that no step of a thread changes.
Fixed == <<queries, created, owner>>

Passes(t) ==
  /\ \E to \in Labels : Goes(t, to) /\ pc' = [pc EXCEPT ![t] = to]
  /\ UNCHANGED <<Fixed, state, posted, job, qry, read, todo, terminated>>

Throws(t) ==
  /\ \/ pc[t] = "check" /\ state[qry[t]] \notin From[job[t]]
     \/ pc[t] = "compute" /\ job[t] \in {"train", "rank"}
     \/ t = Serve /\ pc[t] = "fetch" /\ state[qry[t]] # "RANKED"
  /\ pc' = [pc EXCEPT ![t] = "idle"]
  /\ todo' = IF t = Serve THEN <<>> ELSE todo
  /\ UNCHANGED <<Fixed, state, posted, job, qry, read, terminated>>

SetsState(t, s) ==
  /\ \/ Goto(t, "set", "announce") /\ s = During[job[t]]
     \/ Goto(t, "finish", "announce_done") /\ s = After[job[t]]
     \/ t = Post /\ Goto(t, "complete", "announce_all") /\ s = "DATACOLL_COMPLETE"
  /\ state' = [state EXCEPT ![qry[t]] = s]
  /\ UNCHANGED <<Fixed, posted, job, qry, read, todo, terminated>>

ReadsState(t) ==
  /\ \/ Goto(t, "announce", "post")
     \/ Goto(t, "announce_done", "post_done")
     \/ Goto(t, "announce_complete", "post_complete")
  /\ read' = [read EXCEPT ![t] = state[qry[t]]]
  /\ UNCHANGED <<Fixed, state, posted, job, qry, todo, terminated>>

Posts(t) ==
  /\ \/ Goto(t, "post", "compute")
     \/ Goto(t, "post_done", Done(t))
     \/ Goto(t, "post_complete", "idle")
  /\ posted' = [posted EXCEPT ![qry[t]] = Append(@, read[t])]
  /\ UNCHANGED <<Fixed, state, job, qry, read, todo, terminated>>

GoesOn(t) ==
  /\ t = Serve /\ pc[t] = "next"
  /\ pc' = [pc EXCEPT ![t] = IF Head(todo) = "rank" THEN "check" ELSE "fetch"]
  /\ job' = [job EXCEPT ![t] = IF Head(todo) = "rank" THEN "rank" ELSE None]
  /\ todo' = Tail(todo)
  /\ UNCHANGED <<Fixed, state, posted, qry, read, terminated>>

\* A thread of which a lookup fails had the query of its task to look up.
EndsProcess(t) ==
  /\ Busy(t)
  /\ \E why \in Reasons :
       /\ why = "lookup" => pc[t] \in {"get", "file"} /\ qry[t] \notin queries
       /\ Terminate(t, why)
  /\ UNCHANGED <<Fixed, state, posted, job, qry, read, todo>>

Takes(t) ==
  /\ t = Post /\ pc[t] = "idle"
  /\ \E to \in {"process", "count"} : pc' = [pc EXCEPT ![t] = to]
  /\ \E b \in Batches : /\ owner[b] \in Queries
                        /\ qry' = [qry EXCEPT ![t] = owner[b]]
  /\ UNCHANGED <<Fixed, state, posted, job, read, todo, terminated>>

Visible(t) ==
  \/ Passes(t) \/ Throws(t) \/ ReadsState(t) \/ Posts(t) \/ GoesOn(t)
  \/ EndsProcess(t) \/ Takes(t)
  \/ \E s \in States \ {"DATACOLL"} : SetsState(t, s)

LEMMA WorkDoes ==
  ASSUME TypeInv, PlaceInv, RestTypes, LoopInv, Work \/ \E b \in Batches : TakeImage(b)
  PROVE  \E t \in Threads : Visible(t)
<1> USE ServerAssumption
    DEF TypeInv, PlaceInv, RestTypes, LoopInv, Threads, Labels, Fixed, query_vars,
        data_vars, download_vars, thread_vars, report_vars, Goto, Images, Training, Jobs
<1>1. ASSUME NEW b \in Batches, TakeImage(b) PROVE Takes(Post)
  BY <1>1 DEF TakeImage, Takes
<1>2. ASSUME NEW t \in Threads, Step(t) PROVE Visible(t)
  <2>1. CASE GetQueryIfo(t) \/ GetQueryIfoForFile(t) \/ FeatFails(t)
    <3>1. Passes(t) \/ EndsProcess(t)
      BY <2>1 DEF GetQueryIfo, GetQueryIfoForFile, FeatFails, Passes, EndsProcess, Goes,
         Busy, Reasons
    <3> QED BY <3>1 DEF Visible
  <2>2. CASE CheckState(t)
    <3>1. CASE state[qry[t]] \in From[job[t]]
      BY <2>2, <3>1 DEF CheckState, Visible, Passes, Goes
    <3>2. CASE state[qry[t]] \notin From[job[t]]
      BY <2>2, <3>2 DEF CheckState, Visible, Throws, Throw
    <3> QED BY <3>1, <3>2
  <2>3. CASE EnterState(t)
    <3>1. During[job[t]] \in States \ {"DATACOLL"}
      BY <2>3 DEF EnterState, During, States
    <3> QED BY <2>3, <3>1 DEF EnterState, SetsState, Visible
  <2>4. CASE LeaveState(t)
    <3>1. After[job[t]] \in States \ {"DATACOLL"}
      BY <2>4 DEF LeaveState, After, States
    <3> QED BY <2>4, <3>1 DEF LeaveState, SetsState, Visible
  <2>5. CASE ReadState(t)
    BY <2>5 DEF ReadState, ReadsState, Visible
  <2>6. CASE PostStateChange(t)
    BY <2>6 DEF PostStateChange, Posts, Visible
  <2>7. CASE TrainModel(t) \/ LoadModel(t) \/ ScoreDataset(t) \/ SortScores(t)
    <3>1. Passes(t) \/ EndsProcess(t)
      BY <2>7 DEF TrainModel, LoadModel, ScoreDataset, SortScores, Passes, Goes,
         EndsProcess, Busy, Reasons
    <3> QED BY <3>1 DEF Visible
  <2>8. CASE ComputeFails(t)
    BY <2>8 DEF ComputeFails, Throw, Visible, Throws
  <2>9. CASE ImageStep(t)
    <3>1. UNCHANGED <<Fixed, state, posted, job, qry, read, todo, terminated>>
      BY <2>9 DEF ImageStep, TestCollecting, ComputeFeat, InvalidImage, PushFeat,
         process_vars
    <3>2. ImageDone(t) => \E to \in Labels : /\ pc' = [pc EXCEPT ![t] = to]
                            /\ \/ t # Post /\ to = "process"
                               \/ to = IF t = Post THEN "count" ELSE Done(t)
      BY DEF ImageDone, Done
    <3>3. \E to \in Labels : Goes(t, to) /\ pc' = [pc EXCEPT ![t] = to]
      <4>1. CASE ImageDone(t)
        BY <2>9, <3>2, <4>1 DEF Goes, ImageStep, TestCollecting, ComputeFeat,
           InvalidImage, PushFeat
      <4>2. CASE ~ImageDone(t)
        BY <2>9, <4>2 DEF Goes, ImageStep, TestCollecting, ComputeFeat, InvalidImage,
           PushFeat
      <4> QED BY <4>1, <4>2
    <3> QED BY <3>1, <3>3 DEF Passes, Visible
  <2> QED BY <1>2, <2>1, <2>2, <2>3, <2>4, <2>5, <2>6, <2>7, <2>8, <2>9 DEF Step, ImageStep
<1>3. CASE ServeStep
  <2>1. CASE SkipHttps \/ ReadToAdd \/ QueueUrl
    <3>1. Passes(Serve)
      BY <2>1 DEF SkipHttps, ReadToAdd, QueueUrl, NextUrl, Passes, Goes
    <3> QED BY <3>1 DEF Visible
  <2>4. CASE FolderFails
    BY <2>4 DEF FolderFails, EndsProcess, Visible, Busy, Reasons
  <2>2. CASE ServeNext
    BY <2>2 DEF ServeNext, GoesOn, Visible
  <2>3. CASE FetchRanking
    <3>1. CASE state[qry[Serve]] # "RANKED"
      BY <2>3, <3>1 DEF FetchRanking, Throw, Throws, Visible
    <3>2. CASE state[qry[Serve]] = "RANKED"
      <4>1. Passes(Serve) \/ EndsProcess(Serve)
        BY <2>3, <3>2 DEF FetchRanking, Passes, Goes, EndsProcess, Busy, Reasons
      <4> QED BY <4>1 DEF Visible
    <3> QED BY <3>1, <3>2
  <2> QED BY <1>3, <2>1, <2>2, <2>3, <2>4 DEF ServeStep, Visible
<1>4. CASE PostStep
  <2>1. Passes(Post) \/ SetsState(Post, "DATACOLL_COMPLETE") \/ EndsProcess(Post)
    BY <1>4 DEF PostStep, ReadToSubtract, WriteSubtracted, TestRemaining, TestDataColl,
       SetDataCollComplete, AnnounceAllImages, Passes, Goes, SetsState, EndsProcess, Busy,
       Reasons
  <2> QED BY <2>1 DEF Visible, States
<1> QED BY <1>1, <1>2, <1>3, <1>4 DEF Work, Visible

-----------------------------------------------------------------------------
(* What a step of the server shows to clients                                *)

ClientStates == PageStates \cup
  {"start", "add", "train", "wait", "ranked", "failed", "done"}

ClientTypes ==
  /\ client \in [Queries -> ClientStates]
  /\ timer \in [Queries -> {"armed", "off", "trained"}]
  /\ sent \in [Queries -> [PageRequests -> Nat]]

\* A client goes on when it is told of a ranking or of an error, and sends a request
\* when a state is posted.
LEMMA NoticeDoes ==
  ASSUME TypeInv, RestTypes, ClientTypes, Notice, NEW q \in Queries
  PROVE  /\ \/ client'[q] = client[q]
            \/ client[q] \in {"open", "ranking"} /\ PostsError(q) /\ client'[q] = "error"
            \/ client[q] = "open" /\ RepliesRanking(q) /\ client'[q] = "ranking"
            \/ client[q] = "wait" /\ RepliesRanking(q) /\ client'[q] = "ranked"
            \/ client[q] = "wait" /\ RepliesError(q) /\ client'[q] = "failed"
         /\ timer' = timer
         /\ posted'[q] = posted[q] => sent'[q] = sent[q]
<1> USE DEF ClientTypes
<1>1. client'[q] = Seen(q) /\ timer' = timer
  BY DEF Notice
<1>2. /\ sent'[q] \in [PageRequests -> Nat]
      /\ \A k \in PageRequests : sent'[q][k] = sent[q][k] + (IF Sends(q, k) THEN 1 ELSE 0)
  <2>1. sent'[q] = [k \in PageRequests |-> sent[q][k] + (IF Sends(q, k) THEN 1 ELSE 0)]
    BY DEF Notice
  <2> QED BY <2>1
<1>3. ASSUME posted'[q] = posted[q] PROVE sent'[q] = sent[q]
  <2>1. ~PostsState(q)
    BY <1>3 DEF PostsState, RestTypes
  <2>2. \A k \in PageRequests : sent'[q][k] = sent[q][k]
    BY <1>2, <2>1 DEF Sends
  <2> QED BY <1>2, <2>2
<1> QED BY <1>1, <1>3 DEF Seen, RepliesError

\* What a page sends when a state is posted.
LEMMA PostingSends ==
  ASSUME TypeInv, RestTypes, ClientTypes, Notice, NEW q \in Queries, NEW s \in States,
         posted'[q] = Append(posted[q], s)
  PROVE  \A k \in PageRequests :
           sent'[q][k] = IF Listens(q) /\ s \in DOMAIN Reaction /\ Reaction[s] = k
                           THEN sent[q][k] + 1 ELSE sent[q][k]
<1>1. posted[q] \in Seq(States)
  BY DEF RestTypes
<1>2. Len(posted'[q]) = Len(posted[q]) + 1 /\ posted'[q][Len(posted'[q])] = s
  BY <1>1
<1>3. PostsState(q) /\ Last(posted'[q]) = s
  BY <1>1, <1>2 DEF PostsState, Last
<1>4. ASSUME NEW k \in PageRequests
      PROVE  sent'[q][k] = sent[q][k] + (IF Sends(q, k) THEN 1 ELSE 0)
  BY DEF Notice
<1> QED BY <1>3, <1>4 DEF Sends, ClientTypes

-----------------------------------------------------------------------------
(* Clients that hurry                                                        *)

Posted(q, s) == \E i \in DOMAIN posted[q] : posted[q][i] = s

\* A state that is posted once more is repeated.
LEMMA PostedTwice ==
  ASSUME NEW q \in Queries, posted[q] \in Seq(States), NEW s \in DOMAIN Reaction,
         posted'[q] = Append(posted[q], s), Posted(q, s)
  PROVE  Repeats(q)'
<1> DEFINE N == {i \in DOMAIN posted'[q] : posted'[q][i] = s}
<1>1. PICK i \in DOMAIN posted[q] : posted[q][i] = s
  BY DEF Posted
<1> DEFINE m == Len(posted[q]) + 1
<1>3. /\ DOMAIN posted'[q] = 1..m /\ m \in Nat /\ i \in 1..m /\ i # m
      /\ posted'[q][i] = s /\ posted'[q][m] = s
  <2>1. s \in States
    BY DEF Reaction, States
  <2>2. /\ Len(posted'[q]) = m /\ posted'[q] \in Seq(States)
        /\ \A j \in 1..Len(posted[q]) : posted'[q][j] = posted[q][j]
        /\ posted'[q][m] = s
    BY <2>1
  <2>3. i \in 1..Len(posted[q]) /\ Len(posted[q]) \in Nat
    BY <1>1
  <2> QED BY <1>1, <2>2, <2>3
<1>4. IsFiniteSet(N)
  <2>1. IsFiniteSet(1..m)
    BY <1>3, FS_Interval
  <2> QED BY <1>3, <2>1, FS_Subset
<1>5. {i, m} \subseteq N
  <2>1. m \in 1..m
    BY <1>3
  <2> QED BY <1>3, <2>1
<1>6. Cardinality({i, m}) = 2
  <2>1. IsFiniteSet({i}) /\ Cardinality({i}) = 1
    BY FS_Singleton
  <2>2. {i, m} = {i} \cup {m} /\ m \notin {i}
    BY <1>3
  <2>3. Cardinality({i} \cup {m}) = Cardinality({i}) + 1
    BY <2>1, <2>2, FS_AddElement
  <2>4. Cardinality({i, m}) = Cardinality({i}) + 1
    BY <2>2, <2>3, Zenon
  <2> HIDE DEF m
  <2> QED BY <2>1, <2>4
<1>7. Cardinality(N) > 1
  <2>1. Cardinality({i, m}) <= Cardinality(N)
    BY <1>4, <1>5, FS_Subset
  <2>2. Cardinality(N) \in Nat
    BY <1>4, FS_CardinalityType
  <2> HIDE DEF N, m
  <2> QED BY <1>6, <2>1, <2>2
<1> QED BY <1>7 DEF Repeats

\* What was announced stays announced.
LEMMA RepeatsStays ==
  ASSUME NEW q \in Queries, posted[q] \in Seq(States), Repeats(q),
         \/ posted'[q] = posted[q]
         \/ \E s \in States : posted'[q] = Append(posted[q], s)
  PROVE  Repeats(q)'
<1>1. CASE posted'[q] = posted[q]
  BY <1>1 DEF Repeats
<1>2. ASSUME NEW x \in States, posted'[q] = Append(posted[q], x)
      PROVE  Repeats(q)'
  <2>1. PICK s \in DOMAIN Reaction :
               Cardinality({i \in DOMAIN posted[q] : posted[q][i] = s}) > 1
    BY DEF Repeats
  <2> DEFINE M == {i \in DOMAIN posted[q] : posted[q][i] = s}
             N == {i \in DOMAIN posted'[q] : posted'[q][i] = s}
  <2>2. M \subseteq N
    BY <1>2
  <2>3. IsFiniteSet(N)
    <3>1. DOMAIN posted'[q] = 1..(Len(posted[q]) + 1) /\ Len(posted[q]) \in Nat
      BY <1>2
    <3>2. IsFiniteSet(1..(Len(posted[q]) + 1))
      BY <3>1, FS_Interval
    <3> QED BY <3>1, <3>2, FS_Subset
  <2>4. IsFiniteSet(M) /\ Cardinality(M) <= Cardinality(N)
    BY <2>2, <2>3, FS_Subset
  <2>5. Cardinality(M) \in Nat /\ Cardinality(N) \in Nat
    BY <2>3, <2>4, FS_CardinalityType
  <2>6. Cardinality(N) > 1
    BY <2>1, <2>4, <2>5
  <2> QED BY <2>6 DEF Repeats
<1> QED BY <1>1, <1>2

-----------------------------------------------------------------------------
(* Which thread works for which client                                       *)

\* A query that was not started has left no trace.
StartInv ==
  /\ \A q \in Queries : client[q] = "start" <=> q \notin created
  /\ \A q \in Queries : client[q] = "start" =>
       /\ state[q] = "DATACOLL" /\ posted[q] = <<>> /\ timer[q] = "armed"
       /\ sent[q]["train"] = 0 /\ sent[q]["rank"] = 0
       /\ \A t \in Threads : qry[t] # q
       /\ \A b \in Batches : owner[b] # q

\* Detached threads work for pages, and images arrive for pages, or for scripts
\* that do not wait for them.
WhoInv ==
  /\ \A w \in Workers : Busy(w) =>
       /\ IsPage(qry[w]) /\ job[w] \in {"train", "rank"}
       /\ pc[w] \in Training \cup {"get", "announce_done", "post_done"}
  /\ \A b \in Batches : owner[b] \in Queries =>
       IsPage(owner[b]) \/ timer[owner[b]] = "trained"
  /\ Busy(Post) => IsPage(qry[Post]) \/ timer[qry[Post]] = "trained"

\* What the serve thread does for a page, and for a script that waits for it.
ServeInv ==
  /\ Busy(Serve) =>
       \/ IsPage(qry[Serve]) /\ pc[Serve] \in {"queue", "add", "fetch"}
       \/ /\ ~IsPage(qry[Serve])
          /\ \/ pc[Serve] \in {"queue", "add"} /\ timer[qry[Serve]] = "trained"
             \/ pc[Serve] \in Images \cup {"file"}
       \/ /\ client[qry[Serve]] = "wait"
          /\ \/ pc[Serve] = "fetch"
             \/ /\ pc[Serve] \in Training \cup {"announce_done", "post_done", "next"}
                /\ \/ job[Serve] = "train" /\ todo = <<"rank", "get_ranking">>
                   \/ job[Serve] = "rank" /\ todo = <<"get_ranking">>
  /\ pc[Serve] \in {"idle", "queue", "add", "fetch", "file"} \cup Images => todo = <<>>

-----------------------------------------------------------------------------
(* Queries whose clients do not hurry                                        *)

Announced(q, s) ==
  \/ Posted(q, s)
  \/ \E t \in Threads : qry[t] = q /\ read[t] = s /\ pc[t] \in Announcing

\* Thread w trains or ranks query q, and has passed the test of its state.
OnTask(w, q) == qry[w] = q /\ pc[w] \in Training \cup {"get"}
Entered(t)   == pc[t] \in {"announce", "post", "compute", "sort", "finish"}
NoTask(q)    == \A w \in Workers : ~OnTask(w, q)

\* A thread is at most one, and expects the state that its query has.
TaskInv(q) ==
  /\ \A w \in Workers : OnTask(w, q) =>
       /\ state[q] = IF job[w] = "train"
                       THEN IF Entered(w) THEN "TRAINING" ELSE "DATACOLL_COMPLETE"
                       ELSE IF Entered(w) THEN "RANKING" ELSE "TRAINED"
       /\ pc[w] = "post" => read[w] = state[q]
  /\ \A v, w \in Workers : OnTask(v, q) /\ OnTask(w, q) => v = w

\* A request that is under way is the only one, and comes before its thread.
SentInv(q) ==
  /\ sent[q]["train"] > 0 =>
       sent[q]["train"] = 1 /\ state[q] = "DATACOLL_COMPLETE" /\ NoTask(q)
  /\ sent[q]["rank"] > 0 =>
       sent[q]["rank"] = 1 /\ state[q] = "TRAINED" /\ NoTask(q)

\* The page trains and ranks when it is told to, and a state is announced when the
\* query is in it.
ToldInv(q) ==
  /\ ~Posted(q, "DATACOLL_COMPLETE") =>
       /\ state[q] \in {"DATACOLL", "DATACOLL_COMPLETE"}
       /\ sent[q]["train"] = 0 /\ NoTask(q)
  /\ ~Posted(q, "TRAINED") =>
       /\ state[q] \notin {"RANKING", "RANKED"} /\ sent[q]["rank"] = 0
       /\ \A w \in Workers : OnTask(w, q) => job[w] # "rank"
  /\ Announced(q, "DATACOLL_COMPLETE") => state[q] # "DATACOLL"
  /\ Announced(q, "TRAINED") => state[q] \in {"TRAINED", "RANKING", "RANKED"}

\* What the page shows is true of its query.
ShownInv(q) ==
  /\ client[q] = "error" =>
       /\ NoTask(q) /\ sent[q]["train"] = 0 /\ sent[q]["rank"] = 0
       /\ state[q] \in {"DATACOLL_COMPLETE", "TRAINING", "RANKING"}
       /\ Posted(q, "DATACOLL_COMPLETE")
  /\ client[q] = "ranking" => state[q] = "RANKED"

PageInv(q) ==
  /\ TaskInv(q) /\ SentInv(q) /\ ToldInv(q) /\ ShownInv(q)
  /\ qry[Post] = q /\ pc[Post] \in {"complete", "push"} => state[q] = "DATACOLL"

\* The serve thread finds the query of a script in the state that it left it in.
ScriptInv(q) ==
  /\ client[q] \in {"add", "train"} => state[q] = "DATACOLL"
  /\ qry[Serve] = q =>
       /\ pc[Serve] \in Images \cup {"file"} => state[q] = "DATACOLL"
       /\ pc[Serve] \in {"check", "set"} =>
            state[q] = IF job[Serve] = "train" THEN "DATACOLL" ELSE "TRAINED"
       /\ Entered(Serve) =>
            state[q] = IF job[Serve] = "train" THEN "TRAINING" ELSE "RANKING"
       /\ pc[Serve] \in {"announce_done", "post_done", "next"} =>
            state[q] = IF job[Serve] = "train" THEN "TRAINED" ELSE "RANKED"

CalmInv ==
  \A q \in Queries \ Hurried : IF IsPage(q) THEN PageInv(q) ELSE ScriptInv(q)

\* A query that was freed while a thread of it starts has a hasty page.
Hasty(q) == IsPage(q) /\ (client[q] = "abandoned" \/ q \in Hurried)
HastyInv ==
  /\ OnlyHastyPagesLoseQueries
  /\ \A end \in terminated : end.why = "lookup" => qry[end.thread] \in Queries
  /\ terminated # {} => \A t \in Threads : pc[t] = "dead"
  /\ \A w \in Workers : pc[w] = "get" => qry[w] \in queries \/ Hasty(qry[w])
  /\ pc[Serve] = "file" => qry[Serve] \in queries

\* What the server guarantees whoever its clients are.
ServerInv == TypeInv /\ PlaceInv /\ RestTypes /\ LoopInv /\ RankingInv

-----------------------------------------------------------------------------
(* Steps that do not concern a query                                         *)

\* Nothing of query q changes but that threads may leave it.
SameFor(q) ==
  /\ state'[q] = state[q] /\ posted'[q] = posted[q]
  /\ client'[q] = client[q] /\ timer'[q] = timer[q] /\ sent'[q] = sent[q]
  /\ \A u \in Threads : Busy(u)' /\ qry'[u] = q =>
       qry[u] = q /\ pc'[u] = pc[u] /\ job'[u] = job[u] /\ read'[u] = read[u]

LEMMA SameForPage ==
  ASSUME NEW q \in Queries, SameFor(q), PageInv(q)
  PROVE  PageInv(q)'
<1> USE DEF SameFor, Busy, Threads
<1>1. \A w \in Workers : OnTask(w, q)' =>
        OnTask(w, q) /\ pc'[w] = pc[w] /\ job'[w] = job[w] /\ read'[w] = read[w]
  BY DEF OnTask, Training
<1>2. NoTask(q) => NoTask(q)'
  BY <1>1 DEF NoTask
<1>3. \A s : Posted(q, s)' <=> Posted(q, s)
  BY DEF Posted
<1>4. \A s : Announced(q, s)' => Announced(q, s)
  BY <1>3 DEF Announced, Announcing
<1>5. TaskInv(q)'
  BY <1>1 DEF PageInv, TaskInv, Entered
<1>6. SentInv(q)' /\ ShownInv(q)'
  BY <1>2, <1>3 DEF PageInv, SentInv, ShownInv
<1>7. ToldInv(q)'
  BY <1>1, <1>2, <1>3, <1>4 DEF PageInv, ToldInv
<1> QED BY <1>5, <1>6, <1>7 DEF PageInv

LEMMA SameForScript ==
  ASSUME NEW q \in Queries, SameFor(q), ScriptInv(q)
  PROVE  ScriptInv(q)'
BY DEF SameFor, Busy, Threads, ScriptInv, Entered, Images

\* A step of a thread concerns its own query only, and the end of the process none.
LEMMA Elsewhere ==
  ASSUME ServerInv, ClientTypes, NEW t \in Threads, Visible(t), Notice,
         NEW q \in Queries,
         EndsProcess(t) \/ (qry[t] # q /\ qry'[t] # q)
  PROVE  SameFor(q)
<1> USE ServerAssumption DEF ServerInv, TypeInv, RestTypes, PlaceInv, Threads
<1>1. /\ \A u \in Threads \ {t} : pc'[u] \in {pc[u], "dead"}
      /\ \A u \in Threads \ {t} : job'[u] = job[u] /\ qry'[u] = qry[u] /\ read'[u] = read[u]
      /\ EndsProcess(t) => \A u \in Threads : pc'[u] = "dead"
  BY DEF Visible, Passes, Throws, ReadsState, Posts, GoesOn, EndsProcess, Takes,
     SetsState,
     Goto, Terminate
<1>2. state'[q] = state[q] /\ posted'[q] = posted[q]
  BY DEF Visible, Passes, Throws, ReadsState, Posts, GoesOn, EndsProcess, Takes, SetsState
<1>3. ~PostsError(q) /\ ~RepliesRanking(q) /\ ~RepliesError(q)
  BY <1>1 DEF PostsError, RepliesRanking, RepliesError
<1>4. client'[q] = client[q] /\ timer'[q] = timer[q] /\ sent'[q] = sent[q]
  BY <1>2, <1>3, NoticeDoes
<1> QED BY <1>1, <1>2, <1>4 DEF SameFor, Busy

-----------------------------------------------------------------------------
(* The steps of clients                                                      *)

\* The thread that a page's request starts is an idle one.
LEMMA NewThreadIsIdle ==
  NewThread # None => NewThread \in Workers /\ pc[NewThread] = "idle"
<1>1. CASE \E w \in Workers : pc[w] = "idle"
  BY <1>1 DEF NewThread
<1>2. CASE ~\E w \in Workers : pc[w] = "idle"
  BY <1>2 DEF NewThread
<1> QED BY <1>1, <1>2

\* Whatever a client does is a request that the server knows, or none.
LEMMA ClientsUseServer == [ClientNext]_client_vars => [Next]_vars
<1>1. MaxUrls \in 1..MaxUrls
  BY ServerAssumption
<1>2. ASSUME NEW q \in Queries, NEW k \in PageRequests, ServePage(q, k)
      PROVE  Accept \/ UNCHANGED vars
  <2>1. CASE \E b \in Batches : AddTrs(q, b, MaxUrls)
    BY <1>1, <2>1 DEF Accept, Dispatch
  <2>2. CASE SkipTrs(q)
    BY <2>2 DEF SkipTrs
  <2>3. CASE NewThread # None /\ (Detach(NewThread, "train", "train", q)
                                    \/ Detach(NewThread, "rank", "rank", q))
    BY <2>3, NewThreadIsIdle DEF Accept, Dispatch
  <2>4. CASE GetRanking(q)
    BY <2>4 DEF Accept, Dispatch
  <2> QED BY <1>2, <2>1, <2>2, <2>3, <2>4 DEF ServePage
<1>3. ASSUME NEW q \in Queries, PageStep(q) PROVE Accept \/ UNCHANGED vars
  BY <1>2, <1>3 DEF PageStep, PageOpens, PageTimesOut, RefusePage, Accept, Dispatch
<1>4. ASSUME NEW q \in Queries, ScriptStep(q) PROVE Accept \/ UNCHANGED vars
  BY <1>1, <1>4 DEF ScriptStep, ScriptStarts, ScriptAddsUrls, ScriptAddsFiles,
     ScriptTrains,
     ScriptRefused, ScriptFrees, Accept, Dispatch
<1>5. ASSUME NEW q \in Queries, UserLeaves(q) PROVE Accept
  BY <1>5 DEF UserLeaves, Accept, Dispatch
<1> QED BY <1>3, <1>4, <1>5 DEF ClientNext, ClientStep, ServerWorks, Next, client_vars

\* A client changes only what belongs to its own query.
LEMMA ClientElsewhere ==
  ASSUME ServerInv, ClientTypes, NEW p \in Queries, ClientStep(p) \/ UserLeaves(p),
         NEW q \in Queries, q # p
  PROVE  SameFor(q)
<1> USE ServerAssumption
    DEF ServerInv, TypeInv, RestTypes, ClientTypes, Threads, Then, Send, Receive, Start,
        Call, query_vars, data_vars, download_vars, thread_vars, report_vars, page_vars,
        SameFor, Busy
<1>1. CASE PageOpens(p) \/ ScriptStarts(p)
  BY <1>1 DEF PageOpens, ScriptStarts, StartQuery
<1>2. CASE PageTimesOut(p) \/ RefusePage(p) \/ ScriptRefused(p)
  BY <1>2 DEF PageTimesOut, RefusePage, ScriptRefused, vars
<1>3. ASSUME NEW k \in PageRequests, ServePage(p, k) PROVE SameFor(q)
  <2>1. client' = client /\ timer' = timer /\ sent'[q] = sent[q]
    BY <1>3 DEF ServePage
  <2>2. ASSUME NEW b \in Batches, AddTrs(p, b, MaxUrls) PROVE SameFor(q)
    BY <2>1, <2>2 DEF AddTrs
  <2>3. ASSUME NEW task, NEW request, NewThread # None, Detach(NewThread, request, task, p)
        PROVE  SameFor(q)
    BY <2>1, <2>3, NewThreadIsIdle DEF Detach
  <2>4. CASE SkipTrs(p) \/ GetRanking(p)
    BY <2>1, <2>4 DEF SkipTrs, GetRanking, vars
  <2> QED BY <1>3, <2>2, <2>3, <2>4 DEF ServePage
<1>4. CASE UserLeaves(p) \/ ScriptFrees(p)
  BY <1>4 DEF UserLeaves, ScriptFrees, FreeQuery
<1>5. CASE ScriptAddsUrls(p) \/ ScriptAddsFiles(p)
  BY <1>5 DEF ScriptAddsUrls, ScriptAddsFiles, AddTrs, AddTrsFromFile
<1>6. CASE ScriptTrains(p)
  BY <1>6 DEF ScriptTrains, Block
<1> QED BY <1>1, <1>2, <1>3, <1>4, <1>5, <1>6 DEF ClientStep, PageStep, ScriptStep

\* The types of the variables of the clients.
LEMMA ClientTypesStep ==
  ASSUME ServerInv, ClientTypes, [ClientNext]_client_vars
  PROVE  ClientTypes'
<1> USE DEF ClientTypes, ClientStates, PageStates, Then, page_vars
<1>1. ASSUME NEW q \in Queries, PageOpens(q) \/ PageTimesOut(q) PROVE ClientTypes'
  <2>1. UNCHANGED sent \/ \E k \in PageRequests : Send(q, k)
    BY <1>1 DEF PageOpens, PageTimesOut, PageRequests
  <2>2. sent' \in [Queries -> [PageRequests -> Nat]]
    BY <2>1 DEF Send
  <2> QED BY <1>1, <2>2 DEF PageOpens, PageTimesOut
<1>2. ASSUME NEW q \in Queries, NEW k \in PageRequests, Receive(q, k)
      PROVE  sent' \in [Queries -> [PageRequests -> Nat]]
  <2>1. sent[q][k] - 1 \in Nat
    BY <1>2 DEF Receive
  <2>2. sent' = [sent EXCEPT ![q] = [sent[q] EXCEPT ![k] = sent[q][k] - 1]]
    BY <1>2 DEF Receive
  <2> QED BY <2>1, <2>2
<1>3. ASSUME NEW q \in Queries, NEW k \in PageRequests, ServePage(q, k)
      PROVE  ClientTypes'
  BY <1>2, <1>3 DEF ServePage
<1>4. ASSUME NEW q \in Queries, RefusePage(q) PROVE ClientTypes'
  BY <1>2, <1>4 DEF RefusePage, PageRequests
<1>5. ASSUME NEW q \in Queries, UserLeaves(q) \/ ScriptStep(q) PROVE ClientTypes'
  BY <1>5 DEF UserLeaves, ScriptStep, ScriptStarts, ScriptAddsUrls, ScriptAddsFiles,
     ScriptTrains, ScriptRefused, ScriptFrees
<1>6. CASE Notice
  <2>1. \A q \in Queries : client'[q] \in ClientStates
    BY <1>6, NoticeDoes DEF ServerInv
  <2>2. client' \in [Queries -> ClientStates]
    BY <1>6, <2>1 DEF Notice
  <2>3. \A q \in Queries, k \in PageRequests :
           sent[q][k] + (IF Sends(q, k) THEN 1 ELSE 0) \in Nat
    OBVIOUS
  <2>4. sent' \in [Queries -> [PageRequests -> Nat]]
    BY <1>6, <2>3 DEF Notice
  <2> QED BY <1>6, <2>2, <2>4 DEF Notice
<1>7. CASE UNCHANGED client_vars
  BY <1>7 DEF client_vars
<1> QED BY <1>1, <1>3, <1>4, <1>5, <1>6, <1>7
        DEF ClientNext, ClientStep, PageStep, ServerWorks

\* A page stays a page and a script a script, and who hurried has hurried.
LEMMA ClientKeeps ==
  ASSUME ServerInv, ClientTypes, [ClientNext]_client_vars, NEW q \in Queries
  PROVE  /\ client[q] # "start" => client'[q] # "start" /\ (IsPage(q)' <=> IsPage(q))
         /\ timer[q] = "trained" => timer'[q] = "trained"
         /\ client[q] = "abandoned" => client'[q] = "abandoned"
<1> USE DEF ClientTypes, PageStates, ClientStates, IsPage
<1>1. CASE UNCHANGED client_vars
  BY <1>1 DEF client_vars, page_vars
<1>2. CASE Notice
  BY <1>2, NoticeDoes DEF ServerInv
<1>3. ASSUME NEW p \in Queries, ClientStep(p) \/ UserLeaves(p), p # q
      PROVE client'[q] = client[q] /\ timer'[q] = timer[q]
  BY <1>3, ClientElsewhere DEF SameFor
<1>4. CASE PageStep(q)
  BY <1>4 DEF PageStep, PageOpens, PageTimesOut, RefusePage, ServePage, Receive, Then,
     Listens, page_vars
<1>5. CASE ScriptStep(q)
  BY <1>5 DEF ScriptStep, ScriptStarts, ScriptAddsUrls, ScriptAddsFiles, ScriptTrains,
     ScriptRefused, ScriptFrees, Then, page_vars
<1>6. CASE UserLeaves(q)
  BY <1>6 DEF UserLeaves, Then, page_vars
<1> QED BY <1>1, <1>2, <1>3, <1>4, <1>5, <1>6 DEF ClientNext, ServerWorks, ClientStep

\* States are only added to what was announced.
LEMMA PostedGrows ==
  ASSUME ServerInv, [ClientNext]_client_vars, NEW q \in Queries
  PROVE  \/ posted'[q] = posted[q]
         \/ \E s \in States : posted'[q] = Append(posted[q], s)
<1> USE DEF ServerInv, TypeInv, RestTypes
<1>1. CASE Work \/ \E b \in Batches : TakeImage(b)
  <2>1. PICK t \in Threads : Visible(t)
    BY <1>1, WorkDoes
  <2>2. CASE Posts(t)
    <3>1. posted' = [posted EXCEPT ![qry[t]] = Append(posted[qry[t]], read[t])]
      BY <2>2 DEF Posts
    <3>2. CASE qry[t] = q
      BY <3>1, <3>2
    <3>3. CASE qry[t] # q
      BY <3>1, <3>3
    <3> QED BY <3>2, <3>3
  <2>3. CASE ~Posts(t)
    BY <2>1, <2>3 DEF Visible, Passes, Throws, ReadsState, GoesOn, EndsProcess, Takes,
       SetsState
  <2> QED BY <2>2, <2>3
<1>2. ASSUME NEW p \in Queries, ClientStep(p) \/ UserLeaves(p)
      PROVE  \/ UNCHANGED posted
             \/ StartQuery(p)
  <2>1. CASE ScriptStep(p) \/ UserLeaves(p)
    BY <2>1 DEF UserLeaves, ScriptStep, ScriptStarts, ScriptAddsUrls, ScriptAddsFiles,
       ScriptTrains, ScriptRefused, ScriptFrees, AddTrs, AddTrsFromFile, Block, FreeQuery,
       vars, report_vars
  <2>2. CASE PageStep(p)
    BY <2>2 DEF PageStep, PageOpens, PageTimesOut, RefusePage, ServePage, AddTrs, SkipTrs,
       Detach, GetRanking, vars, report_vars
  <2> QED BY <1>2, <2>1, <2>2 DEF ClientStep
<1>3. ASSUME NEW p \in Queries, StartQuery(p)
      PROVE  \/ posted'[q] = posted[q]
             \/ \E s \in States : posted'[q] = Append(posted[q], s)
  <2>1. posted' = [posted EXCEPT ![p] = Append(posted[p], state[p])]
    BY <1>3 DEF StartQuery
  <2>2. CASE p = q
    BY <2>1, <2>2
  <2>3. CASE p # q
    BY <2>1, <2>3
  <2> QED BY <2>2, <2>3
<1>4. CASE UNCHANGED client_vars
  BY <1>4 DEF client_vars, vars, report_vars
<1> QED BY <1>1, <1>2, <1>3, <1>4 DEF ClientNext, ServerWorks

LEMMA HurriedGrows ==
  ASSUME ServerInv, ClientTypes, [ClientNext]_client_vars
  PROVE  Hurried \subseteq Hurried'
<1> SUFFICES ASSUME NEW q \in Queries, q \in Hurried PROVE q \in Hurried'
  BY DEF Hurried
<1>1. timer[q] = "trained" => timer'[q] = "trained"
  BY ClientKeeps
<1>2. Repeats(q) => Repeats(q)'
  BY PostedGrows, RepeatsStays DEF ServerInv, RestTypes
<1> QED BY <1>1, <1>2 DEF Hurried

\* A query has no trace before its client starts it.
LEMMA StartStep ==
  ASSUME ServerInv, ClientTypes, StartInv, [ClientNext]_client_vars
  PROVE  StartInv'
<1> USE ServerAssumption
    DEF ServerInv, TypeInv, RestTypes, PlaceInv, LoopInv, ClientTypes, Threads
<1> SUFFICES ASSUME NEW q \in Queries
             PROVE  /\ client'[q] = "start" <=> q \notin created'
                    /\ client'[q] = "start" =>
                         /\ state'[q] = "DATACOLL" /\ posted'[q] = <<>>
                         /\ timer'[q] = "armed"
                         /\ sent'[q]["train"] = 0 /\ sent'[q]["rank"] = 0
                         /\ \A t \in Threads : qry'[t] # q
                         /\ \A b \in Batches : owner'[b] # q
  BY DEF StartInv
<1>1. CASE UNCHANGED client_vars
  BY <1>1 DEF client_vars, page_vars, vars, query_vars, thread_vars, report_vars,
     download_vars, StartInv
<1>2. CASE (Work \/ \E b \in Batches : TakeImage(b)) /\ Notice
  <2>1. PICK t \in Threads : Visible(t)
    BY <1>2, WorkDoes
  <2>2. UNCHANGED <<created, owner>>
    BY <2>1 DEF Visible, Passes, Throws, ReadsState, Posts, GoesOn, EndsProcess, Takes,
       SetsState, Fixed
  <2>3. client[q] # "start" => client'[q] # "start"
    BY <1>2, ClientKeeps DEF ClientNext, ServerWorks
  <2>4. ASSUME client[q] = "start" PROVE SameFor(q) /\ \A u \in Threads : qry'[u] # q
    <3>1. qry[t] # q /\ \A b \in Batches : owner[b] # q
      BY <2>4 DEF StartInv
    <3>2. \A u \in Threads : qry'[u] # q
      BY <2>1, <2>4, <3>1 DEF Visible, Passes, Throws, ReadsState, Posts, GoesOn,
         EndsProcess,
         Takes, SetsState, StartInv
    <3>3. SameFor(q)
      BY <1>2, <2>1, <3>1, <3>2, Elsewhere
    <3> QED BY <3>2, <3>3
  <2> QED BY <2>2, <2>3, <2>4 DEF SameFor, StartInv
<1>3. ASSUME NEW p \in Queries, ClientStep(p) \/ UserLeaves(p)
      PROVE  /\ \/ UNCHANGED created /\ client[p] # "start"
                \/ created' = created \cup {p} /\ client[p] = "start"
             /\ client'[p] # "start"
             /\ \A b \in Batches : owner'[b] \in {owner[b], p}
             /\ \A u \in Threads : qry'[u] \in {qry[u], p}
  <2> USE DEF Then, Start, query_vars, thread_vars, download_vars
  <2>1. CASE PageOpens(p) \/ ScriptStarts(p)
    BY <2>1 DEF PageOpens, ScriptStarts, StartQuery
  <2>2. CASE PageTimesOut(p) \/ RefusePage(p) \/ ScriptRefused(p)
    BY <2>2 DEF PageTimesOut, RefusePage, ScriptRefused, vars, Receive, Listens
  <2>3. ASSUME NEW k \in PageRequests, ServePage(p, k)
        PROVE  /\ UNCHANGED created /\ client'[p] = client[p] /\ client[p] # "start"
               /\ \A b \in Batches : owner'[b] \in {owner[b], p}
               /\ \A u \in Threads : qry'[u] \in {qry[u], p}
    <3>1. UNCHANGED created /\ client'[p] = client[p] /\ client[p] # "start"
      BY <2>3 DEF ServePage, Receive, Listens, AddTrs, SkipTrs, Detach, GetRanking, vars
    <3>2. \A b \in Batches : owner'[b] \in {owner[b], p}
      BY <2>3 DEF ServePage, AddTrs, SkipTrs, Detach, GetRanking, vars
    <3>3. \A u \in Threads : qry'[u] \in {qry[u], p}
      BY <2>3, NewThreadIsIdle DEF ServePage, AddTrs, SkipTrs, Detach, GetRanking, vars
    <3> QED BY <3>1, <3>2, <3>3
  <2>4. CASE UserLeaves(p)
    BY <2>4 DEF UserLeaves, FreeQuery
  <2>5. CASE ScriptAddsUrls(p) \/ ScriptAddsFiles(p) \/ ScriptTrains(p) \/ ScriptFrees(p)
    <3>1. CASE ScriptAddsUrls(p)
      BY <3>1 DEF ScriptAddsUrls, AddTrs
    <3>2. CASE ScriptAddsFiles(p)
      BY <3>2 DEF ScriptAddsFiles, AddTrsFromFile
    <3>3. CASE ScriptTrains(p) \/ ScriptFrees(p)
      BY <3>3 DEF ScriptTrains, ScriptFrees, Block, FreeQuery
    <3> QED BY <2>5, <3>1, <3>2, <3>3
  <2> QED BY <1>3, <2>1, <2>2, <2>3, <2>4, <2>5 DEF ClientStep, PageStep, ScriptStep
<1>4. ASSUME NEW p \in Queries, ClientStep(p) \/ UserLeaves(p)
      PROVE  /\ client'[q] = "start" <=> q \notin created'
             /\ client'[q] = "start" => SameFor(q) /\ client[q] = "start" /\ q # p
  <2>1. q # p => SameFor(q)
    BY <1>4, ClientElsewhere
  <2> QED BY <1>3, <1>4, <2>1 DEF SameFor, StartInv
<1>5. ASSUME NEW p \in Queries, ClientStep(p) \/ UserLeaves(p), client'[q] = "start"
      PROVE  /\ \A u \in Threads : qry'[u] # q
             /\ \A b \in Batches : owner'[b] # q
  <2>1. client[q] = "start" /\ q # p
    BY <1>4, <1>5
  <2> QED BY <1>3, <1>5, <2>1 DEF StartInv
<1>6. ASSUME NEW p \in Queries, ClientStep(p) \/ UserLeaves(p), client'[q] = "start"
      PROVE  /\ state'[q] = "DATACOLL" /\ posted'[q] = <<>> /\ timer'[q] = "armed"
             /\ sent'[q]["train"] = 0 /\ sent'[q]["rank"] = 0
  BY <1>4, <1>6 DEF SameFor, StartInv
<1> QED BY <1>1, <1>2, <1>4, <1>5, <1>6 DEF ClientNext, ServerWorks

\* Requests that start no thread.
Idles(q) ==
  \/ PageOpens(q) \/ PageTimesOut(q) \/ RefusePage(q) \/ UserLeaves(q)
  \/ \E k \in PageRequests : ServePage(q, k) /\ SkipTrs(q)
  \/ ScriptStarts(q) \/ ScriptRefused(q) \/ ScriptFrees(q)

LEMMA IdlesDo ==
  ASSUME NEW q \in Queries, Idles(q)
  PROVE  UNCHANGED <<pc, job, qry, todo, owner, read, state, feats, terminated>>
BY DEF Idles, PageOpens, PageTimesOut, RefusePage, UserLeaves, SkipTrs, ScriptStarts,
   ScriptRefused, ScriptFrees, StartQuery, FreeQuery, vars, thread_vars, download_vars, data_vars

LEMMA ClientStepCases ==
  ASSUME NEW q \in Queries, ClientStep(q) \/ UserLeaves(q)
  PROVE  \/ Idles(q)
         \/ \E b \in Batches : ServePage(q, "add_trs") /\ AddTrs(q, b, MaxUrls)
         \/ \E task \in {"train", "rank"} :
              /\ ServePage(q, task) /\ NewThread \in Workers
              /\ Detach(NewThread, task, task, q)
         \/ ServePage(q, "get_ranking") /\ GetRanking(q)
         \/ ScriptAddsUrls(q) \/ ScriptAddsFiles(q) \/ ScriptTrains(q)
<1>1. ASSUME NEW k \in PageRequests, ServePage(q, k)
      PROVE  \/ Idles(q)
             \/ \E b \in Batches : ServePage(q, "add_trs") /\ AddTrs(q, b, MaxUrls)
             \/ \E task \in {"train", "rank"} :
                  /\ ServePage(q, task) /\ NewThread \in Workers
                  /\ Detach(NewThread, task, task, q)
             \/ ServePage(q, "get_ranking") /\ GetRanking(q)
  <2>1. \/ k = "add_trs" /\ ((\E b \in Batches : AddTrs(q, b, MaxUrls)) \/ SkipTrs(q))
        \/ /\ k \in {"train", "rank"} /\ NewThread \in Workers
           /\ Detach(NewThread, k, k, q)
        \/ k = "get_ranking" /\ GetRanking(q)
    BY <1>1, NewThreadIsIdle DEF ServePage
  <2> QED BY <1>1, <2>1 DEF Idles
<1> QED BY <1>1 DEF ClientStep, PageStep, ScriptStep, Idles

\* Pages have detached threads, and images of theirs may arrive whenever they do.
LEMMA WhoStep ==
  ASSUME ServerInv, ClientTypes, WhoInv, [ClientNext]_client_vars
  PROVE  WhoInv'
<1> USE ServerAssumption
    DEF ServerInv, TypeInv, RestTypes, PlaceInv, LoopInv, ClientTypes, Threads, Busy
<1>0. \A q \in Queries : /\ IsPage(q) => IsPage(q)'
                         /\ timer[q] = "trained" => timer'[q] = "trained"
  BY ClientKeeps DEF IsPage, PageStates
<1> DEFINE Owned(q) == IsPage(q) \/ timer[q] = "trained"
           pages == {q \in Queries : IsPage(q)'}
           owners == {q \in Queries : Owned(q)'}
<1>1. ASSUME \A w \in Workers : Busy(w)' =>
               /\ qry'[w] \in pages /\ job'[w] \in {"train", "rank"}
               /\ pc'[w] \in Training \cup {"get", "announce_done", "post_done"},
             \A b \in Batches : owner'[b] \in Queries => owner'[b] \in owners,
             Busy(Post)' => qry'[Post] \in owners
      PROVE  WhoInv'
  BY <1>1 DEF WhoInv, IsPage
<1>2. CASE UNCHANGED client_vars
  BY <1>2 DEF client_vars, page_vars, vars, thread_vars, download_vars, WhoInv, IsPage
<1>3. CASE (Work \/ \E b \in Batches : TakeImage(b)) /\ Notice
  <2>1. PICK t \in Threads : Visible(t)
    BY <1>3, WorkDoes
  <2>2. owner' = owner
    BY <2>1 DEF Visible, Passes, Throws, ReadsState, Posts, GoesOn, EndsProcess, Takes,
       SetsState, Fixed
  <2>3. ASSUME NEW w \in Workers, Busy(w)'
        PROVE  /\ Busy(w) /\ qry'[w] = qry[w] /\ job'[w] = job[w]
               /\ pc'[w] \in Training \cup {"get", "announce_done", "post_done"}
    <3>1. CASE w = t
      BY <2>1, <2>3, <3>1 DEF Visible, Passes, Throws, ReadsState, Posts, GoesOn,
         EndsProcess,
         Takes, SetsState, Goes, Goto, Terminate, Done, Training, Images, WhoInv
    <3>2. CASE w # t
      <4>1. ~EndsProcess(t)
        BY <2>3 DEF EndsProcess, Terminate
      <4>2. pc'[w] = pc[w] /\ qry'[w] = qry[w] /\ job'[w] = job[w]
        BY <2>1, <3>2, <4>1 DEF Visible, Passes, Throws, ReadsState, Posts, GoesOn,
           Takes, SetsState, Goto
      <4> QED BY <2>3, <4>2 DEF WhoInv
    <3> QED BY <3>1, <3>2
  <2>4. ASSUME Busy(Post)'
        PROVE  qry'[Post] \in Queries /\ qry'[Post] \in {q \in Queries : Owned(q)}
    <3>1. CASE Takes(t)
      <4>1. PICK b \in Batches : owner[b] \in Queries /\ qry' = [qry EXCEPT ![t] = owner[b]]
        BY <3>1 DEF Takes
      <4> QED BY <3>1, <4>1 DEF WhoInv, Takes
    <3>2. CASE ~Takes(t)
      <4>1. qry' = qry
        BY <2>1, <3>2 DEF Visible, Passes, Throws, ReadsState, Posts, GoesOn,
           EndsProcess, SetsState
      <4>2. Busy(Post)
        BY <2>1, <2>4, <3>2 DEF Visible, Passes, Throws, ReadsState, Posts, GoesOn,
           EndsProcess,
           SetsState, Terminate, Goto, Goes, Images, Training
      <4> QED BY <4>1, <4>2 DEF WhoInv
    <3> QED BY <3>1, <3>2
  <2> QED BY <1>0, <1>1, <2>2, <2>3, <2>4 DEF WhoInv
<1>4. ASSUME NEW q \in Queries, ClientStep(q) \/ UserLeaves(q) PROVE WhoInv'
  <2> USE DEF Start, Call
  <2>1. CASE Idles(q)
    BY <1>0, <1>1, <2>1, IdlesDo DEF WhoInv
  <2>2. ASSUME NEW b \in Batches, AddTrs(q, b, MaxUrls), Owned(q)' PROVE WhoInv'
    BY <1>0, <1>1, <2>2 DEF WhoInv, AddTrs
  <2>3. ASSUME NEW b \in Batches, ServePage(q, "add_trs"), AddTrs(q, b, MaxUrls)
        PROVE  WhoInv'
    BY <1>0, <2>2, <2>3 DEF ServePage, Receive, Listens, IsPage, PageStates
  <2>4. ASSUME NEW task \in {"train", "rank"}, ServePage(q, task), NewThread \in Workers,
               Detach(NewThread, task, task, q)
        PROVE  WhoInv'
    <3>1. IsPage(q)'
      BY <1>0, <2>4 DEF ServePage, Receive, Listens, IsPage, PageStates
    <3>2. owner' = owner
      BY <2>4 DEF Detach, download_vars
    <3> QED BY <1>0, <1>1, <2>4, <3>1, <3>2 DEF WhoInv, Detach
  <2>5. CASE GetRanking(q)
    BY <1>0, <1>1, <2>5 DEF WhoInv, GetRanking, download_vars
  <2>6. CASE ScriptAddsUrls(q)
    <3>1. timer'[q] = "trained"
      BY <2>6 DEF ScriptAddsUrls
    <3> QED BY <2>2, <2>6, <3>1 DEF ScriptAddsUrls
  <2>7. CASE ScriptAddsFiles(q)
    BY <1>0, <1>1, <2>7 DEF WhoInv, ScriptAddsFiles, AddTrsFromFile, download_vars
  <2>8. CASE ScriptTrains(q)
    BY <1>0, <1>1, <2>8 DEF WhoInv, ScriptTrains, Block, download_vars
  <2> QED BY <1>4, <2>1, <2>3, <2>4, <2>5, <2>6, <2>7, <2>8, ClientStepCases
<1> QED BY <1>2, <1>3, <1>4 DEF ClientNext, ServerWorks

\* The calls of trainAndRank, one after the other.
LEMMA Todo ==
  /\ Head(<<"rank", "get_ranking">>) = "rank"
  /\ Tail(<<"rank", "get_ranking">>) = <<"get_ranking">>
  /\ Head(<<"get_ranking">>) = "get_ranking"
  /\ Tail(<<"get_ranking">>) = <<>>
<1>1. Head(<<"rank", "get_ranking">>) = "rank" /\ Head(<<"get_ranking">>) = "get_ranking"
  OBVIOUS
<1>2. ASSUME NEW a, NEW b PROVE Tail(<<a, b>>) = <<b>>
  OBVIOUS
<1>3. ASSUME NEW a PROVE Tail(<<a>>) = <<>>
  OBVIOUS
<1> QED BY <1>1, <1>2, <1>3

\* The serve thread does one thing for a page, and for a script what it waits for.
LEMMA ServeStepKeeps ==
  ASSUME ServerInv, ClientTypes, StartInv, ServeInv, [ClientNext]_client_vars
  PROVE  ServeInv'
<1> USE DEF Busy
<1>t. /\ Serve \in Threads /\ Post \in Threads /\ Serve # Post
      /\ Workers \subseteq Threads /\ Serve \notin Workers
      /\ pc \in [Threads -> Labels] /\ job \in [Threads -> Jobs \cup {None}]
      /\ qry \in [Threads -> Queries \cup {None}] /\ client \in [Queries -> ClientStates]
      /\ DOMAIN timer = Queries
      /\ Busy(Serve) => qry[Serve] \in Queries /\ client[qry[Serve]] # "start"
  BY ServerAssumption DEF StartInv, ServerInv, TypeInv, PlaceInv, ClientTypes, Threads
<1>0. \A q \in Queries : /\ client[q] # "start" => (IsPage(q)' <=> IsPage(q))
                         /\ timer[q] = "trained" => timer'[q] = "trained"
  BY ClientKeeps
<1>1. CASE UNCHANGED client_vars
  BY <1>t, <1>1 DEF client_vars, page_vars, vars, thread_vars, ServeInv, IsPage
<1>2. CASE (Work \/ \E b \in Batches : TakeImage(b)) /\ Notice
  <2>1. PICK t \in Threads : Visible(t)
    BY <1>2, WorkDoes DEF ServerInv
  <2>2. CASE t # Serve \/ EndsProcess(t)
    <3>1. /\ pc'[Serve] \in {pc[Serve], "dead"} /\ job'[Serve] = job[Serve]
          /\ qry'[Serve] = qry[Serve] /\ todo' = todo
      BY <1>t, <2>1, <2>2 DEF Visible, Passes, Throws, ReadsState, Posts, GoesOn,
         EndsProcess, Takes,
         SetsState, Terminate, Goto
    <3>2. CASE Busy(Serve)'
      <4>1. pc'[Serve] = pc[Serve] /\ qry[Serve] \in Queries
        BY <1>t, <3>1, <3>2
      <4>2. \A q \in Queries : client[q] = "wait" => client'[q] = "wait"
        BY <1>t, <1>2, <4>1, NoticeDoes DEF ServerInv, RepliesError, RepliesRanking
      <4> QED BY <1>t, <1>0, <3>1, <3>2, <4>1, <4>2 DEF ServeInv, IsPage
    <3>3. CASE ~Busy(Serve)'
      BY <1>t, <3>1, <3>3 DEF ServeInv, Images
    <3> QED BY <1>t, <3>2, <3>3
  <2>3. CASE t = Serve /\ ~EndsProcess(t)
    <3>1. qry[Serve] \in Queries /\ Busy(Serve) /\ qry'[Serve] = qry[Serve]
      BY <1>t, <2>1, <2>3 DEF Visible, Passes, Throws, ReadsState, Posts, GoesOn,
         EndsProcess, Takes,
         SetsState, Terminate, Goto, Goes, Training, Images
    <3>2. CASE Busy(Serve)'
      <4>1. \A q \in Queries : client[q] = "wait" => client'[q] = "wait"
        BY <1>t, <1>2, <3>2, NoticeDoes DEF ServerInv, RepliesError, RepliesRanking
      <4>2. CASE Passes(t)
        BY <1>t, <1>0, <2>3, <3>1, <3>2, <4>1, <4>2
           DEF ServeInv, IsPage, Passes, Goes, Done, Images, Training
      <4>3. CASE ReadsState(t) \/ \E s \in States \ {"DATACOLL"} : SetsState(t, s)
        BY <1>t, <1>0, <2>3, <3>1, <3>2, <4>1, <4>3
           DEF ServeInv, IsPage, ReadsState, SetsState, Goto, Images, Training
      <4>4. CASE Posts(t)
        BY <1>t, <1>0, <2>3, <3>1, <3>2, <4>1, <4>4
           DEF ServeInv, IsPage, Posts, Done, Goto, Images, Training
      <4>5. CASE GoesOn(t)
        <5>1. /\ client[qry[Serve]] = "wait"
              /\ \/ job[Serve] = "train" /\ todo = <<"rank", "get_ranking">>
                 \/ job[Serve] = "rank" /\ todo = <<"get_ranking">>
          BY <1>t, <2>3, <3>1, <4>5 DEF ServeInv, GoesOn, Images
        <5>2. client'[qry'[Serve]] = "wait"
          BY <1>t, <3>1, <4>1, <5>1
        <5>3. CASE job[Serve] = "train"
          <6>1. /\ pc'[Serve] = "check" /\ job'[Serve] = "rank" /\ todo' = <<"get_ranking">>
            BY <1>t, <2>3, <4>5, <5>1, <5>3, Todo DEF GoesOn
          <6> QED BY <1>t, <5>2, <6>1 DEF ServeInv, IsPage, PageStates, Images, Training
        <5>4. CASE job[Serve] = "rank"
          <6>1. pc'[Serve] = "fetch" /\ todo' = <<>>
            BY <1>t, <2>3, <4>5, <5>1, <5>4, Todo DEF GoesOn
          <6> QED BY <1>t, <5>2, <6>1 DEF ServeInv, IsPage, PageStates, Images, Training
        <5> QED BY <1>t, <5>1, <5>3, <5>4
      <4>6. CASE Throws(t)
        BY <1>t, <2>3, <3>2, <4>6 DEF Throws
      <4> QED BY <1>t, <2>1, <2>3, <4>2, <4>3, <4>4, <4>5, <4>6 DEF Visible, Takes
    <3>3. CASE ~Busy(Serve)'
      BY <1>t, <2>1, <2>3, <3>1, <3>3 DEF Visible, Passes, Throws, ReadsState, Posts,
         GoesOn, Takes,
         SetsState, Goto, Goes, Done, ServeInv, Images, Training
    <3> QED BY <1>t, <3>2, <3>3
  <2> QED BY <1>t, <2>2, <2>3
<1>3. ASSUME NEW q \in Queries, ClientStep(q) \/ UserLeaves(q) PROVE ServeInv'
  <2> USE DEF Start, Call
  <2>1. CASE Idles(q)
    <3>1. \A p \in Queries : client[p] = "wait" => client'[p] = "wait"
      BY <1>t, <2>1 DEF Idles, PageOpens, PageTimesOut, RefusePage, UserLeaves,
         ScriptStarts,
         ScriptRefused, ScriptFrees, ServePage, Then, Receive, Listens
    <3> QED BY <1>t, <1>0, <2>1, <3>1, IdlesDo DEF ServeInv, IsPage
  <2>2. ASSUME NEW b \in Batches, ServePage(q, "add_trs"), AddTrs(q, b, MaxUrls)
        PROVE  ServeInv'
    <3>1. pc'[Serve] = "queue" /\ qry'[Serve] = q /\ todo' = <<>>
      BY <1>t, <2>2 DEF ServeInv, AddTrs
    <3>2. IsPage(q)'
      BY <1>t, <2>2 DEF ServePage, Receive, Listens, IsPage, PageStates
    <3> QED BY <1>t, <3>1, <3>2 DEF ServeInv, IsPage, Images
  <2>3. ASSUME NEW task \in {"train", "rank"}, ServePage(q, task), NewThread \in Workers,
               Detach(NewThread, task, task, q)
        PROVE  ServeInv'
    BY <1>t, <2>3 DEF ServeInv, Detach, ServePage, IsPage, Images
  <2>4. CASE ServePage(q, "get_ranking") /\ GetRanking(q)
    BY <1>t, <2>4 DEF ServeInv, GetRanking, ServePage, Receive, Listens, IsPage,
       PageStates, Images
  <2>5. CASE ScriptAddsUrls(q)
    <3>1. pc'[Serve] = "queue" /\ qry'[Serve] = q /\ todo' = <<>>
      BY <1>t, <2>5 DEF ServeInv, ScriptAddsUrls, AddTrs
    <3>2. timer'[q] = "trained" /\ client'[q] = "train"
      BY <1>t, <2>5 DEF ScriptAddsUrls, Then
    <3> QED BY <3>1, <3>2 DEF ServeInv, IsPage, PageStates, Images
  <2>6. CASE ScriptAddsFiles(q)
    BY <1>t, <2>6 DEF ServeInv, ScriptAddsFiles, AddTrsFromFile, Then, IsPage,
       PageStates, Images
  <2>7. CASE ScriptTrains(q)
    BY <1>t, <2>7 DEF ServeInv, ScriptTrains, Block, Then, IsPage, PageStates, Images,
       Training
  <2> QED BY <1>t, <1>3, <2>1, <2>2, <2>3, <2>4, <2>5, <2>6, <2>7, ClientStepCases
<1> QED BY <1>1, <1>2, <1>3 DEF ClientNext, ServerWorks

-----------------------------------------------------------------------------
(* A page that does not hurry                                                *)

\* What a thread that works for a page can be doing.
LEMMA PageThreads ==
  ASSUME ServerInv, WhoInv, ServeInv, NEW q \in Queries, IsPage(q), NEW t \in Threads,
         qry[t] = q, Busy(t)
  PROVE  \/ /\ t \in Workers /\ job[t] \in {"train", "rank"}
            /\ pc[t] \in Training \cup {"get", "announce_done", "post_done"}
         \/ t = Serve /\ pc[t] \in {"queue", "add", "fetch"}
         \/ /\ t = Post
            /\ pc[t] \in Images \cup {"count", "subtract", "remaining", "callback",
                 "complete", "announce_all", "announce_complete", "post_complete"}
<1>1. CASE t \in Workers
  BY <1>1 DEF WhoInv
<1>2. CASE t = Serve
  BY <1>2 DEF ServeInv, Busy, IsPage, PageStates
<1>3. CASE t = Post
  BY <1>3 DEF ServerInv, PlaceInv, Busy
<1> QED BY <1>1, <1>2, <1>3 DEF Threads

\* The facts on the frame that the following proofs share.
Types ==
  /\ Serve \in Threads /\ Post \in Threads /\ Serve # Post
  /\ Workers \subseteq Threads /\ Serve \notin Workers /\ Post \notin Workers
  /\ pc \in [Threads -> Labels] /\ job \in [Threads -> Jobs \cup {None}]
  /\ qry \in [Threads -> Queries \cup {None}] /\ read \in [Threads -> States]
  /\ state \in [Queries -> States] /\ posted \in [Queries -> Seq(States)]
  /\ owner \in [Batches -> Queries \cup {None}]
  /\ ClientTypes

LEMMA TypesHold == ServerInv /\ ClientTypes => Types
  BY ServerAssumption DEF ServerInv, TypeInv, RestTypes, Threads, Types

\* A thread that passes on stays in its task.
LEMMA PagePasses ==
  ASSUME ServerInv, ClientTypes, WhoInv, ServeInv, NEW q \in Queries, IsPage(q), PageInv(q),
         NEW t \in Threads, qry[t] = q, Passes(t), Notice
  PROVE  PageInv(q)'
<1>t. Types
  BY TypesHold
<1>1. PICK to \in Labels : Goes(t, to) /\ pc' = [pc EXCEPT ![t] = to]
  BY DEF Passes
<1>2. UNCHANGED <<state, posted, job, qry, read>>
  BY DEF Passes
<1>3. Busy(t)
  BY <1>1 DEF Goes, Busy, Images
<1>4. /\ t \in Workers => pc[t] \in Training \cup {"get"} /\ to \in Training
      /\ Entered(t)' <=> Entered(t)
      /\ to \notin Announcing
      /\ t = Post /\ to \in {"complete", "push"} => state[q] = "DATACOLL"
  <2>1. CASE t \in Workers
    BY <1>t, <1>1, <1>3, <2>1, PageThreads
       DEF Types, Goes, Training, Announcing, Images, Entered
  <2>2. CASE t = Serve
    BY <1>t, <1>1, <1>3, <2>2, PageThreads DEF Types, Goes, Announcing, Entered, Images
  <2>3. CASE t = Post
    BY <1>t, <1>1, <1>3, <2>3, PageThreads DEF Types, Goes, Announcing, Entered, Images
  <2> QED BY <2>1, <2>2, <2>3 DEF Threads
<1>5. /\ sent'[q] = sent[q]
      /\ client'[q] = client[q] \/ (client'[q] = "ranking" /\ state[q] = "RANKED")
  <2>1. ~PostsError(q)
    BY <1>t, <1>1, <1>4 DEF PostsError, Types, Training
  <2>2. RepliesRanking(q) => state[q] = "RANKED"
    BY DEF RepliesRanking
  <2> QED BY <1>2, <2>1, <2>2, NoticeDoes DEF IsPage, PageStates, ServerInv
<1>6. /\ \A w \in Workers : OnTask(w, q)' <=> OnTask(w, q)
      /\ \A w \in Workers : pc'[w] = "post" => pc[w] = "post"
      /\ \A w \in Workers : Entered(w)' <=> Entered(w)
  BY <1>t, <1>1, <1>2, <1>4 DEF Types, OnTask, Entered, Training, Announcing
<1>7. /\ \A s : Posted(q, s)' <=> Posted(q, s)
      /\ \A s : Announced(q, s)' => Announced(q, s)
      /\ NoTask(q)' <=> NoTask(q)
  BY <1>t, <1>1, <1>2, <1>4, <1>6 DEF Posted, Announced, NoTask, Announcing, Types
<1>8. TaskInv(q)'
  BY <1>2, <1>6 DEF PageInv, TaskInv
<1>9. SentInv(q)' /\ ToldInv(q)' /\ ShownInv(q)'
  BY <1>2, <1>5, <1>6, <1>7 DEF PageInv, SentInv, ToldInv, ShownInv
<1>10. qry'[Post] = q /\ pc'[Post] \in {"complete", "push"} => state'[q] = "DATACOLL"
  BY <1>t, <1>1, <1>2, <1>4 DEF PageInv, Types
<1> QED BY <1>8, <1>9, <1>10 DEF PageInv

\* The test of the state does not throw; train_ or rank_ may, and then the page shows
\* an error.
LEMMA PageThrows ==
  ASSUME ServerInv, ClientTypes, WhoInv, ServeInv, NEW q \in Queries, IsPage(q), PageInv(q),
         NEW t \in Threads, qry[t] = q, Throws(t), Notice
  PROVE  PageInv(q)'
<1>t. Types
  BY TypesHold
<1>1. pc' = [pc EXCEPT ![t] = "idle"] /\ UNCHANGED <<state, posted, job, qry, read>>
  BY DEF Throws
<1>2. Busy(t)
  BY DEF Throws, Busy
<1>3. \/ t \in Workers /\ pc[t] = "compute" /\ job[t] \in {"train", "rank"}
      \/ t = Serve /\ pc[t] = "fetch"
  <2>1. ASSUME t \in Workers, pc[t] = "check", state[q] \notin From[job[t]] PROVE FALSE
    <3>1. OnTask(t, q) /\ job[t] \in {"train", "rank"} /\ ~Entered(t)
      BY <1>t, <1>2, <2>1, PageThreads DEF Types, OnTask, Training, Entered
    <3> QED BY <2>1, <3>1 DEF PageInv, TaskInv, From
  <2> QED BY <1>t, <1>2, <2>1, PageThreads DEF Throws, Types, Images
<1>4. /\ \A w \in Workers : OnTask(w, q)' => OnTask(w, q) /\ w # t
      /\ \A w \in Workers : w # t =>
           pc'[w] = pc[w] /\ (Entered(w)' <=> Entered(w))
  BY <1>t, <1>1 DEF Types, OnTask, Entered, Training
<1>5. /\ \A s : Posted(q, s)' <=> Posted(q, s)
      /\ \A s : Announced(q, s)' => Announced(q, s)
      /\ NoTask(q) => NoTask(q)'
  BY <1>t, <1>1, <1>4 DEF Posted, Announced, NoTask, Announcing, Types
<1>6. sent'[q] = sent[q]
  BY <1>1, NoticeDoes DEF ServerInv
<1>7. TaskInv(q)'
  BY <1>1, <1>4 DEF PageInv, TaskInv
<1>8. SentInv(q)' /\ ToldInv(q)'
  BY <1>1, <1>4, <1>5, <1>6 DEF PageInv, SentInv, ToldInv
<1>9. ShownInv(q)'
  <2>1. CASE t = Serve
    <3>1. ~PostsError(q) /\ client[q] # "wait" /\ ~RepliesRanking(q)
      BY <1>t, <1>1, <2>1 DEF PostsError, Types, IsPage, PageStates, RepliesRanking,
         Throws
    <3>2. client'[q] = client[q]
      BY <3>1, NoticeDoes DEF ServerInv
    <3> QED BY <1>1, <1>5, <1>6, <3>2 DEF PageInv, ShownInv
  <2>2. CASE t \in Workers
    <3>1. OnTask(t, q) /\ Entered(t) /\ job[t] \in {"train", "rank"}
      BY <1>t, <1>3, <2>2 DEF Types, OnTask, Training, Entered
    <3>2. state[q] \in {"TRAINING", "RANKING"}
      BY <2>2, <3>1 DEF PageInv, TaskInv
    <3>3. NoTask(q)'
      BY <1>4, <2>2, <3>1 DEF PageInv, TaskInv, NoTask
    <3>4. sent[q]["train"] = 0 /\ sent[q]["rank"] = 0
      BY <1>t, <2>2, <3>1 DEF PageInv, SentInv, NoTask, Types, ClientTypes, PageRequests
    <3>5. Posted(q, "DATACOLL_COMPLETE")
      BY <2>2, <3>1 DEF PageInv, ToldInv, NoTask
    <3>6. client'[q] \in {client[q], "error"}
      BY <3>2, NoticeDoes DEF ServerInv, RepliesRanking, IsPage, PageStates
    <3> QED BY <1>1, <1>5, <1>6, <3>2, <3>3, <3>4, <3>5, <3>6 DEF PageInv, ShownInv
  <2> QED BY <1>3, <2>1, <2>2
<1>10. qry'[Post] = q /\ pc'[Post] \in {"complete", "push"} => state'[q] = "DATACOLL"
  BY <1>t, <1>1 DEF PageInv, Types
<1> QED BY <1>7, <1>8, <1>9, <1>10 DEF PageInv

\* The state that a job enters or leaves for is the next one.
LEMMA PageSets ==
  ASSUME ServerInv, ClientTypes, WhoInv, ServeInv, NEW q \in Queries, IsPage(q), PageInv(q),
         NEW t \in Threads, qry[t] = q, NEW s \in States, SetsState(t, s), Notice
  PROVE  PageInv(q)'
<1>t. Types
  BY TypesHold
<1>1. /\ state'[q] = s /\ UNCHANGED <<posted, job, qry, read>>
      /\ \A u \in Threads \ {t} : pc'[u] = pc[u]
      /\ pc[t] \in {"set", "finish", "complete"} /\ Busy(t)
      /\ pc'[t] \in {"announce", "announce_done", "announce_all"}
  BY <1>t DEF SetsState, Goto, Types, Busy
<1>2. /\ sent'[q] = sent[q] /\ client'[q] = client[q]
  <2>1. ~PostsError(q) /\ ~RepliesRanking(q) /\ client[q] # "wait"
    BY <1>t, <1>1 DEF PostsError, RepliesRanking, IsPage, PageStates, Types
  <2> QED BY <1>1, <2>1, NoticeDoes DEF ServerInv
<1>3. /\ \A x : Posted(q, x)' <=> Posted(q, x)
      /\ \A x : Announced(q, x)' => Announced(q, x)
  BY <1>t, <1>1 DEF Posted, Announced, Announcing, Types
<1>4. CASE t \in Workers
  <2>1. OnTask(t, q) /\ job[t] \in {"train", "rank"} /\ pc[t] \in {"set", "finish"}
    BY <1>t, <1>1, <1>4, PageThreads DEF Types, OnTask, Training
  <2>2. /\ \A w \in Workers \ {t} : ~OnTask(w, q)'
        /\ OnTask(t, q)' => pc[t] = "set" /\ pc'[t] = "announce"
    BY <1>t, <1>1, <1>4, <2>1 DEF PageInv, TaskInv, OnTask, SetsState, Goto, Types,
       Training
  <2>3. \/ pc[t] = "set" /\ job[t] = "train" /\ s = "TRAINING" /\ state[q] = "DATACOLL_COMPLETE"
        \/ pc[t] = "set" /\ job[t] = "rank" /\ s = "RANKING" /\ state[q] = "TRAINED"
        \/ pc[t] = "finish" /\ job[t] = "train" /\ s = "TRAINED" /\ state[q] = "TRAINING"
        \/ pc[t] = "finish" /\ job[t] = "rank" /\ s = "RANKED" /\ state[q] = "RANKING"
    <3>1. /\ pc[t] = "set" => s = During[job[t]] /\ ~Entered(t)
          /\ pc[t] = "finish" => s = After[job[t]] /\ Entered(t)
      BY <1>t, <1>4, <2>1 DEF SetsState, Goto, Entered, Types
    <3>2. state[q] = IF job[t] = "train"
                       THEN IF Entered(t) THEN "TRAINING" ELSE "DATACOLL_COMPLETE"
                       ELSE IF Entered(t) THEN "RANKING" ELSE "TRAINED"
      BY <1>4, <2>1 DEF PageInv, TaskInv
    <3>3. /\ During["train"] = "TRAINING" /\ During["rank"] = "RANKING"
          /\ After["train"] = "TRAINED" /\ After["rank"] = "RANKED"
      BY DEF During, After
    <3> QED BY <2>1, <3>1, <3>2, <3>3
  <2>4. /\ sent[q]["train"] = 0 /\ sent[q]["rank"] = 0 /\ client[q] \notin {"error", "ranking"}
        /\ Posted(q, "DATACOLL_COMPLETE")
        /\ job[t] = "rank" => Posted(q, "TRAINED")
        /\ ~(qry[Post] = q /\ pc[Post] \in {"complete", "push"})
    BY <1>t, <1>4, <2>1, <2>3
       DEF PageInv, SentInv, ToldInv, ShownInv, NoTask, Types, ClientTypes, PageRequests
  <2>5. TaskInv(q)'
    BY <1>t, <1>1, <1>4, <2>1, <2>2, <2>3 DEF TaskInv, Entered, Types
  <2>6. SentInv(q)' /\ ShownInv(q)'
    BY <1>2, <2>4 DEF SentInv, ShownInv
  <2>7. ToldInv(q)'
    BY <1>1, <1>2, <1>3, <2>2, <2>3, <2>4 DEF ToldInv, PageInv
  <2> QED BY <1>t, <1>1, <1>4, <2>4, <2>5, <2>6, <2>7 DEF PageInv, Types
<1>5. CASE t = Post
  <2>1. pc[t] = "complete" /\ state[q] = "DATACOLL" /\ s = "DATACOLL_COMPLETE"
    BY <1>t, <1>1, <1>5, PageThreads DEF Types, PageInv, SetsState, Goto, Images
  <2>2. NoTask(q)
    BY <2>1 DEF PageInv, TaskInv, NoTask
  <2>3. NoTask(q)' /\ \A w \in Workers : ~OnTask(w, q)'
    BY <1>t, <1>1, <1>5, <2>2 DEF NoTask, OnTask, Types
  <2>4. sent[q]["train"] = 0 /\ sent[q]["rank"] = 0 /\ client[q] \notin {"error", "ranking"}
    BY <1>t, <2>1 DEF PageInv, SentInv, ShownInv, Types, ClientTypes, PageRequests
  <2>5. TaskInv(q)' /\ SentInv(q)' /\ ShownInv(q)'
    BY <1>2, <2>3, <2>4 DEF TaskInv, SentInv, ShownInv
  <2>6. ToldInv(q)'
    BY <1>1, <1>2, <1>3, <2>1, <2>3, <2>4 DEF ToldInv, PageInv
  <2> QED BY <1>1, <1>5, <2>5, <2>6 DEF PageInv
<1>6. t # Serve
  BY <1>1, PageThreads, <1>t DEF Types
<1> QED BY <1>4, <1>5, <1>6 DEF Threads

\* What is read to be announced is the state that the query has.
LEMMA PageReads ==
  ASSUME ServerInv, ClientTypes, WhoInv, ServeInv, NEW q \in Queries, IsPage(q), PageInv(q),
         NEW t \in Threads, qry[t] = q, ReadsState(t), Notice
  PROVE  PageInv(q)'
<1>t. Types
  BY TypesHold
<1>1. /\ UNCHANGED <<state, posted, job, qry>>
      /\ \A u \in Threads \ {t} : pc'[u] = pc[u] /\ read'[u] = read[u]
      /\ \/ pc[t] = "announce" /\ pc'[t] = "post"
         \/ pc[t] = "announce_done" /\ pc'[t] = "post_done"
         \/ pc[t] = "announce_complete" /\ pc'[t] = "post_complete"
      /\ read'[t] = state[q]
  BY <1>t DEF ReadsState, Goto, Types
<1>2. sent'[q] = sent[q] /\ client'[q] = client[q]
  <2>1. ~PostsError(q) /\ ~RepliesRanking(q) /\ client[q] # "wait"
    BY <1>t, <1>1 DEF PostsError, RepliesRanking, IsPage, PageStates, Types
  <2> QED BY <1>1, <2>1, NoticeDoes DEF ServerInv
<1>3. /\ \A x : Posted(q, x)' <=> Posted(q, x)
      /\ \A x : Announced(q, x)' => Announced(q, x) \/ x = state[q]
  BY <1>t, <1>1 DEF Posted, Announced, Announcing, Types
<1>4. /\ \A w \in Workers : OnTask(w, q)' <=> OnTask(w, q)
      /\ \A w \in Workers : Entered(w)' <=> Entered(w)
      /\ NoTask(q)' <=> NoTask(q)
  BY <1>t, <1>1 DEF OnTask, Entered, NoTask, Training, Types
<1>5. TaskInv(q)'
  BY <1>t, <1>1, <1>4 DEF PageInv, TaskInv, Types
<1>6. SentInv(q)' /\ ToldInv(q)' /\ ShownInv(q)'
  BY <1>1, <1>2, <1>3, <1>4 DEF PageInv, SentInv, ToldInv, ShownInv
<1> QED BY <1>t, <1>1, <1>5, <1>6 DEF PageInv, Types

\* The page reacts to a state only once, and its query is still in that state.
LEMMA PagePosts ==
  ASSUME ServerInv, ClientTypes, WhoInv, ServeInv, NEW q \in Queries, IsPage(q), PageInv(q),
         NEW t \in Threads, qry[t] = q, Posts(t), Notice, ~Repeats(q)'
  PROVE  PageInv(q)'
<1>t. Types
  BY TypesHold
<1> DEFINE s == read[t]
<1>1. /\ UNCHANGED <<state, job, qry, read>> /\ s \in States
      /\ posted'[q] = Append(posted[q], s)
      /\ \A u \in Threads \ {t} : pc'[u] = pc[u]
      /\ pc[t] \in Announcing /\ pc'[t] \notin Announcing
      /\ \/ pc[t] = "post" /\ pc'[t] = "compute"
         \/ pc[t] # "post" /\ pc'[t] \in {"idle", "next"}
  BY <1>t DEF Posts, Goto, Types, Announcing, Done
<1>2. client'[q] = client[q]
  <2>1. ~PostsError(q) /\ ~RepliesRanking(q) /\ client[q] # "wait"
    BY <1>t, <1>1 DEF PostsError, RepliesRanking, IsPage, PageStates, Types, Announcing
  <2> QED BY <1>1, <2>1, NoticeDoes DEF ServerInv
<1>3. \A k \in PageRequests :
         sent'[q][k] = IF Listens(q) /\ s \in DOMAIN Reaction /\ Reaction[s] = k
                         THEN sent[q][k] + 1 ELSE sent[q][k]
  BY <1>1, PostingSends DEF ServerInv
<1>4. Announced(q, s) /\ (s \in DOMAIN Reaction => ~Posted(q, s))
  BY <1>t, <1>1, PostedTwice DEF Announced, Types
<1>5. /\ \A x : Posted(q, x)' <=> Posted(q, x) \/ x = s
      /\ \A x : Announced(q, x)' => Announced(q, x)
  <2>1. \A x : Posted(q, x)' <=> Posted(q, x) \/ x = s
    <3>1. posted[q] \in Seq(States)
      BY <1>t DEF Types
    <3>2. /\ DOMAIN posted'[q] = 1..(Len(posted[q]) + 1)
          /\ \A i \in DOMAIN posted[q] : posted'[q][i] = posted[q][i]
          /\ posted'[q][Len(posted[q]) + 1] = s
          /\ DOMAIN posted[q] = 1..Len(posted[q]) /\ Len(posted[q]) \in Nat
      BY <1>1, <3>1
    <3> HIDE DEF s
    <3> QED BY <3>2 DEF Posted
  <2> QED BY <1>t, <1>1, <2>1 DEF Announced, Types
<1>6. /\ \A w \in Workers : OnTask(w, q)' <=> OnTask(w, q)
      /\ \A w \in Workers : Entered(w)' <=> Entered(w)
      /\ \A w \in Workers : pc'[w] = "post" => pc[w] = "post"
      /\ NoTask(q)' <=> NoTask(q)
  BY <1>t, <1>1 DEF OnTask, Entered, NoTask, Training, Types, Announcing
<1>7. TaskInv(q)'
  BY <1>t, <1>1, <1>6 DEF PageInv, TaskInv, Types
<1>8. qry'[Post] = q /\ pc'[Post] \in {"complete", "push"} => state'[q] = "DATACOLL"
  BY <1>t, <1>1 DEF PageInv, Types
<1>n. sent[q]["train"] \in Nat /\ sent[q]["rank"] \in Nat
  BY <1>t DEF Types, ClientTypes, PageRequests
<1> HIDE DEF s
<1>9. CASE s = "DATACOLL_COMPLETE"
  <2>1. /\ state[q] = "DATACOLL_COMPLETE" /\ sent[q]["train"] = 0 /\ NoTask(q)
        /\ ~Posted(q, "DATACOLL_COMPLETE") /\ sent[q]["rank"] = 0
        /\ client[q] \notin {"error", "ranking"}
    BY <1>4, <1>9, <1>n DEF PageInv, ToldInv, SentInv, ShownInv, Reaction
  <2>2. sent'[q]["train"] \in {0, 1} /\ sent'[q]["rank"] = 0
    BY <1>3, <1>9, <2>1 DEF PageRequests, Reaction
  <2>3. SentInv(q)' /\ ShownInv(q)'
    BY <1>1, <1>2, <1>6, <2>1, <2>2 DEF SentInv, ShownInv
  <2>4. ToldInv(q)'
    BY <1>1, <1>5, <1>6, <1>9, <2>1, <2>2 DEF ToldInv, PageInv
  <2> QED BY <1>7, <1>8, <2>3, <2>4 DEF PageInv
<1>10. CASE s = "TRAINED"
  <2>1. state[q] = "TRAINED" /\ sent[q]["train"] = 0 /\ sent[q]["rank"] = 0
    BY <1>4, <1>10, <1>n DEF PageInv, ToldInv, SentInv, Reaction
  <2>2. NoTask(q) /\ client[q] \notin {"error", "ranking"}
    <3>1. \A w \in Workers : OnTask(w, q) => job[w] \in {"train", "rank"} /\ job[w] # "rank"
      BY <1>t, <1>4, <1>10 DEF PageInv, ToldInv, WhoInv, OnTask, Busy, Training, Reaction
    <3> QED BY <2>1, <3>1 DEF PageInv, TaskInv, NoTask, ShownInv
  <2>3. sent'[q]["train"] = 0 /\ sent'[q]["rank"] \in {0, 1}
    BY <1>3, <1>10, <2>1 DEF PageRequests, Reaction
  <2>4. SentInv(q)' /\ ShownInv(q)'
    BY <1>1, <1>2, <1>6, <2>1, <2>2, <2>3 DEF SentInv, ShownInv
  <2>5. ToldInv(q)'
    BY <1>1, <1>5, <1>6, <1>10, <2>1, <2>2, <2>3 DEF ToldInv, PageInv
  <2> QED BY <1>7, <1>8, <2>4, <2>5 DEF PageInv
<1>11. CASE s \notin {"DATACOLL_COMPLETE", "TRAINED"}
  <2>1. sent'[q]["train"] = sent[q]["train"] /\ sent'[q]["rank"] = sent[q]["rank"]
    BY <1>3, <1>11 DEF PageRequests, Reaction
  <2>2. SentInv(q)' /\ ToldInv(q)' /\ ShownInv(q)'
    BY <1>1, <1>2, <1>5, <1>6, <1>11, <2>1 DEF PageInv, SentInv, ToldInv, ShownInv
  <2> QED BY <1>7, <1>8, <2>2 DEF PageInv
<1> QED BY <1>9, <1>10, <1>11

\* The post-processing thread turns from one query to another.
LEMMA PageTakes ==
  ASSUME ServerInv, ClientTypes, NEW q \in Queries, IsPage(q), PageInv(q),
         NEW t \in Threads, Takes(t), Notice
  PROVE  PageInv(q)'
<1>t. Types
  BY TypesHold
<1>1. /\ UNCHANGED <<state, posted, job, read>>
      /\ \A u \in Threads \ {t} : pc'[u] = pc[u] /\ qry'[u] = qry[u]
      /\ t = Post /\ pc[t] = "idle" /\ pc'[t] \in {"process", "count"}
  BY <1>t DEF Takes, Types
<1>2. sent'[q] = sent[q] /\ client'[q] = client[q]
  <2>1. ~PostsError(q) /\ ~RepliesRanking(q) /\ client[q] # "wait"
    BY <1>t, <1>1 DEF PostsError, RepliesRanking, IsPage, PageStates, Types
  <2> QED BY <1>1, <2>1, NoticeDoes DEF ServerInv
<1>3. /\ \A x : Posted(q, x)' <=> Posted(q, x)
      /\ \A x : Announced(q, x)' => Announced(q, x)
  BY <1>t, <1>1 DEF Posted, Announced, Announcing, Types
<1>4. /\ \A w \in Workers : OnTask(w, q)' <=> OnTask(w, q)
      /\ \A w \in Workers : Entered(w)' <=> Entered(w)
      /\ \A w \in Workers : pc'[w] = pc[w]
      /\ NoTask(q)' <=> NoTask(q)
  BY <1>t, <1>1 DEF OnTask, Entered, NoTask, Types
<1>5. TaskInv(q)'
  BY <1>1, <1>4 DEF PageInv, TaskInv
<1>6. SentInv(q)' /\ ToldInv(q)' /\ ShownInv(q)'
  BY <1>1, <1>2, <1>3, <1>4 DEF PageInv, SentInv, ToldInv, ShownInv
<1> QED BY <1>1, <1>5, <1>6 DEF PageInv

LEMMA PageServed ==
  ASSUME ServerInv, ClientTypes, WhoInv, ServeInv, NEW q \in Queries, IsPage(q), PageInv(q),
         NEW t \in Threads, Visible(t), Notice, ~Repeats(q)'
  PROVE  PageInv(q)'
<1>t. Types
  BY TypesHold
<1>1. CASE Takes(t)
  BY <1>1, PageTakes
<1>2. CASE EndsProcess(t) \/ (~Takes(t) /\ qry[t] # q)
  <2>1. EndsProcess(t) \/ qry'[t] = qry[t]
    BY <1>2 DEF Visible, Passes, Throws, ReadsState, Posts, GoesOn, SetsState
  <2> QED BY <1>2, <2>1, Elsewhere, SameForPage
<1>3. CASE ~Takes(t) /\ ~EndsProcess(t) /\ qry[t] = q
  <2>1. ~GoesOn(t)
    BY <1>t, <1>3, PageThreads DEF Types, GoesOn, Busy, Images
  <2> QED BY <1>3, <2>1, PagePasses, PageThrows, PageSets, PageReads, PagePosts DEF Visible
<1> QED BY <1>1, <1>2, <1>3

\* A step of a page that starts no thread, and leaves the requests to train and to
\* rank and what it shows alone.
LEMMA PageIdles ==
  ASSUME NEW q \in Queries, PageInv(q),
         UNCHANGED <<pc, job, qry, read, state, posted>>,
         client'[q] \notin {"error", "ranking"} \/ client'[q] = client[q],
         sent'[q]["train"] = sent[q]["train"], sent'[q]["rank"] = sent[q]["rank"]
  PROVE  PageInv(q)'
<1>1. TaskInv(q)'
  BY DEF PageInv, TaskInv, OnTask, Entered
<1>2. SentInv(q)' /\ ShownInv(q)'
  BY DEF PageInv, SentInv, ShownInv, NoTask, OnTask, Posted
<1>3. ToldInv(q)'
  BY DEF PageInv, ToldInv, NoTask, OnTask, Posted, Announced
<1> QED BY <1>1, <1>2, <1>3 DEF PageInv

\* The query is new.
LEMMA PageBegins ==
  ASSUME ServerInv, ClientTypes, StartInv, NEW q \in Queries, PageOpens(q)
  PROVE  PageInv(q)'
<1>t. Types
  BY TypesHold
<1>1. /\ UNCHANGED <<pc, job, qry, read, state>> /\ client'[q] = "open"
      /\ posted'[q] = Append(posted[q], state[q])
      /\ sent'[q]["train"] = sent[q]["train"] /\ sent'[q]["rank"] = sent[q]["rank"]
  BY <1>t DEF PageOpens, StartQuery, Send, Then, thread_vars, Types, ClientTypes,
     PageRequests
<1>2. /\ state[q] = "DATACOLL" /\ posted[q] = <<>> /\ \A t \in Threads : qry[t] # q
      /\ sent[q]["train"] = 0 /\ sent[q]["rank"] = 0
  BY DEF PageOpens, Then, StartInv
<1>3. \A x : Posted(q, x)' => x = "DATACOLL"
  <2>1. posted'[q] = <<"DATACOLL">>
    BY <1>1, <1>2
  <2> QED BY <2>1 DEF Posted
<1>4. \A x : Announced(q, x)' => x = "DATACOLL"
  BY <1>1, <1>2, <1>3 DEF Announced
<1>5. \A w \in Workers : ~OnTask(w, q)'
  BY <1>t, <1>1, <1>2 DEF OnTask, Types
<1>6. TaskInv(q)' /\ SentInv(q)' /\ ShownInv(q)'
  BY <1>1, <1>2, <1>5 DEF TaskInv, SentInv, ShownInv
<1>7. ToldInv(q)'
  BY <1>1, <1>2, <1>4, <1>5 DEF ToldInv, NoTask
<1> QED BY <1>t, <1>1, <1>2, <1>6, <1>7 DEF PageInv, Types

\* The thread that a request starts finds the state that it expects.
LEMMA PageDetaches ==
  ASSUME ServerInv, ClientTypes, NEW q \in Queries, PageInv(q),
         NEW task \in {"train", "rank"}, ServePage(q, task), NewThread \in Workers,
         Detach(NewThread, task, task, q)
  PROVE  PageInv(q)'
<1>t. Types
  BY TypesHold
<1>v. PICK v \in Workers : v = NewThread
  OBVIOUS
<1>1. /\ UNCHANGED <<state, posted, read>> /\ client' = client
      /\ \A u \in Threads \ {v} : pc'[u] = pc[u] /\ qry'[u] = qry[u] /\ job'[u] = job[u]
      /\ pc[v] = "idle" /\ pc'[v] = "get" /\ qry'[v] = q /\ job'[v] = task
      /\ v \in Threads
  BY <1>t, <1>v DEF ServePage, Detach, Start, Types, report_vars
<1>2. /\ sent[q][task] > 0 /\ sent'[q][task] = sent[q][task] - 1
      /\ \A k \in PageRequests \ {task} : sent'[q][k] = sent[q][k]
      /\ task \in PageRequests
  BY <1>t DEF ServePage, Receive, Types, ClientTypes, PageRequests
<1>3. sent[q]["train"] \in Nat /\ sent[q]["rank"] \in Nat
  BY <1>t DEF Types, ClientTypes, PageRequests
<1>4. /\ \/ task = "train" /\ state[q] = "DATACOLL_COMPLETE"
         \/ task = "rank" /\ state[q] = "TRAINED"
      /\ NoTask(q)
      /\ sent'[q]["train"] = 0 /\ sent'[q]["rank"] = 0
  <2>1. CASE task = "train"
    BY <1>2, <1>3, <2>1 DEF PageInv, SentInv, PageRequests
  <2>2. CASE task = "rank"
    BY <1>2, <1>3, <2>2 DEF PageInv, SentInv, PageRequests
  <2> QED BY <2>1, <2>2
<1>5. /\ Posted(q, "DATACOLL_COMPLETE") /\ (task = "rank" => Posted(q, "TRAINED"))
      /\ client[q] \notin {"error", "ranking"}
  BY <1>2, <1>3, <1>4 DEF PageInv, ToldInv, ShownInv
<1>6. /\ \A w \in Workers : OnTask(w, q)' => w = v
      /\ ~Entered(v)' /\ pc'[v] # "post"
  BY <1>t, <1>1, <1>4 DEF NoTask, OnTask, Types, Entered
<1>7. TaskInv(q)'
  BY <1>1, <1>4, <1>6 DEF TaskInv
<1>8. /\ \A x : Posted(q, x)' <=> Posted(q, x)
      /\ \A x : Announced(q, x)' => Announced(q, x)
  BY <1>t, <1>1 DEF Posted, Announced, Announcing, Types
<1>9. SentInv(q)' /\ ShownInv(q)'
  BY <1>1, <1>4, <1>5 DEF SentInv, ShownInv
<1>10. ToldInv(q)'
  BY <1>1, <1>4, <1>5, <1>6, <1>8 DEF PageInv, ToldInv
<1> QED BY <1>t, <1>1, <1>7, <1>9, <1>10 DEF PageInv, Types

\* The serve thread starts on a request that is none to train or to rank.
LEMMA PageAsks ==
  ASSUME ServerInv, ClientTypes, NEW q \in Queries, PageInv(q), NEW k \in PageRequests,
         ServePage(q, k), k \notin {"train", "rank"},
         GetRanking(q) \/ \E b \in Batches : AddTrs(q, b, MaxUrls)
  PROVE  PageInv(q)'
<1>t. Types
  BY TypesHold
<1>1. /\ UNCHANGED <<state, posted, read>> /\ client' = client
      /\ \A u \in Threads \ {Serve} : pc'[u] = pc[u] /\ qry'[u] = qry[u] /\ job'[u] = job[u]
      /\ pc'[Serve] \in {"queue", "fetch"}
      /\ Serve \notin Workers /\ Serve # Post
  BY <1>t DEF ServePage, GetRanking, AddTrs, Start, Types, report_vars
<1>2. sent'[q]["train"] = sent[q]["train"] /\ sent'[q]["rank"] = sent[q]["rank"]
  BY <1>t DEF ServePage, Receive, Types, ClientTypes, PageRequests
<1>3. /\ \A x : Posted(q, x)' <=> Posted(q, x)
      /\ \A x : Announced(q, x)' => Announced(q, x)
  BY <1>t, <1>1 DEF Posted, Announced, Announcing, Types
<1>4. /\ \A w \in Workers : OnTask(w, q)' <=> OnTask(w, q)
      /\ \A w \in Workers : Entered(w)' <=> Entered(w)
      /\ \A w \in Workers : pc'[w] = pc[w] /\ job'[w] = job[w]
      /\ NoTask(q)' <=> NoTask(q)
  BY <1>t, <1>1 DEF OnTask, Entered, NoTask, Types
<1>5. TaskInv(q)'
  BY <1>1, <1>4 DEF PageInv, TaskInv
<1>6. SentInv(q)' /\ ToldInv(q)' /\ ShownInv(q)'
  BY <1>1, <1>2, <1>3, <1>4 DEF PageInv, SentInv, ToldInv, ShownInv
<1> QED BY <1>t, <1>1, <1>5, <1>6 DEF PageInv, Types

\* There is nothing to train on: the page shows an error.
LEMMA PageRefused ==
  ASSUME ServerInv, ClientTypes, NEW q \in Queries, PageInv(q), RefusePage(q)
  PROVE  PageInv(q)'
<1>t. Types
  BY TypesHold
<1>1. UNCHANGED <<pc, job, qry, read, state, posted>>
  BY DEF RefusePage, vars, thread_vars, report_vars
<1>2. /\ sent[q]["train"] > 0 /\ sent'[q]["train"] = sent[q]["train"] - 1
      /\ sent'[q]["rank"] = sent[q]["rank"] /\ client'[q] = "error"
      /\ sent[q]["rank"] \in Nat
  BY <1>t DEF RefusePage, Receive, Types, ClientTypes, PageRequests
<1>3. /\ sent'[q]["train"] = 0 /\ sent'[q]["rank"] = 0 /\ NoTask(q)
      /\ state[q] = "DATACOLL_COMPLETE" /\ Posted(q, "DATACOLL_COMPLETE")
  BY <1>2 DEF PageInv, SentInv, ToldInv
<1>4. TaskInv(q)'
  BY <1>1 DEF PageInv, TaskInv, OnTask, Entered
<1>5. SentInv(q)' /\ ShownInv(q)'
  <2>1. /\ NoTask(q)' /\ Posted(q, "DATACOLL_COMPLETE")'
        /\ state'[q] = "DATACOLL_COMPLETE"
    BY <1>1, <1>3 DEF NoTask, OnTask, Posted
  <2>2. SentInv(q)'
    BY <1>3 DEF SentInv
  <2>3. ShownInv(q)'
    BY <1>2, <1>3, <2>1 DEF ShownInv
  <2> QED BY <2>2, <2>3
<1>6. ToldInv(q)'
  BY <1>1, <1>3 DEF PageInv, ToldInv, NoTask, OnTask, Posted, Announced
<1> QED BY <1>1, <1>4, <1>5, <1>6 DEF PageInv

LEMMA PageActs ==
  ASSUME ServerInv, ClientTypes, StartInv, NEW q \in Queries, IsPage(q)',
         IsPage(q) => PageInv(q), ClientStep(q) \/ UserLeaves(q), timer'[q] # "trained"
  PROVE  PageInv(q)'
<1>t. Types
  BY TypesHold
<1>1. IsPage(q) \/ PageOpens(q)
  BY <1>t DEF ClientStep, PageStep, ScriptStep, PageOpens, PageTimesOut, RefusePage,
     ServePage,
     UserLeaves, Receive, Listens, ScriptStarts, ScriptAddsUrls, ScriptAddsFiles,
     ScriptTrains, ScriptRefused, ScriptFrees, Then, IsPage, PageStates, Types,
     ClientTypes
<1>2. CASE PageOpens(q)
  BY <1>2, PageBegins
<1>3. CASE PageTimesOut(q)
  <2>1. client' = client /\ sent' = sent /\ UNCHANGED vars
    BY <1>t, <1>3 DEF PageTimesOut, Types, ClientTypes
  <2> QED BY <1>1, <1>3, <2>1, PageIdles
          DEF vars, thread_vars, report_vars, PageTimesOut, PageOpens, Then, Listens
<1>4. CASE RefusePage(q)
  BY <1>1, <1>4, PageRefused DEF PageOpens, RefusePage, Receive, Then, Listens
<1>5. ASSUME NEW k \in PageRequests, ServePage(q, k) PROVE PageInv(q)'
  <2>1. PageInv(q)
    BY <1>1, <1>5 DEF PageOpens, ServePage, Receive, Then, Listens
  <2>2. CASE k = "add_trs" /\ SkipTrs(q)
    <3>1. /\ client' = client /\ UNCHANGED vars
          /\ sent'[q]["train"] = sent[q]["train"] /\ sent'[q]["rank"] = sent[q]["rank"]
      BY <1>t, <1>5, <2>2 DEF ServePage, Receive, SkipTrs, Types, ClientTypes,
         PageRequests
    <3> QED BY <2>1, <3>1, PageIdles DEF vars, thread_vars, report_vars
  <2>3. CASE k \in {"train", "rank"} /\ NewThread # None /\ Detach(NewThread, k, k, q)
    BY <1>5, <2>1, <2>3, PageDetaches, NewThreadIsIdle
  <2>4. CASE /\ k \notin {"train", "rank"}
             /\ GetRanking(q) \/ \E b \in Batches : AddTrs(q, b, MaxUrls)
    BY <1>5, <2>1, <2>4, PageAsks
  <2> QED BY <1>5, <2>2, <2>3, <2>4 DEF ServePage
<1>6. CASE UserLeaves(q)
  <2>1. /\ UNCHANGED <<pc, job, qry, read, state, posted>> /\ sent' = sent
        /\ client'[q] \notin {"error", "ranking"}
    BY <1>t, <1>6 DEF UserLeaves, FreeQuery, Then, Types, ClientTypes, page_vars,
       thread_vars,
       report_vars
  <2> QED BY <1>1, <1>2, <2>1, PageIdles
<1>7. CASE ScriptStep(q)
  BY <1>t, <1>7 DEF ScriptStep, ScriptStarts, ScriptAddsUrls, ScriptAddsFiles,
     ScriptTrains,
     ScriptRefused, ScriptFrees, Then, IsPage, PageStates, Types, ClientTypes
<1> QED BY <1>2, <1>3, <1>4, <1>5, <1>6, <1>7 DEF ClientStep, PageStep

-----------------------------------------------------------------------------
(* A script that waits for its replies                                       *)

LEMMA ScriptServed ==
  ASSUME ServerInv, ClientTypes, WhoInv, ServeInv, NEW q \in Queries, ~IsPage(q),
         client[q] # "start", ScriptInv(q), NEW t \in Threads, Visible(t), Notice,
         timer'[q] # "trained"
  PROVE  ScriptInv(q)'
<1>t. Types
  BY TypesHold
<1>0. /\ client'[q] \in {"add", "train"} => client'[q] = client[q]
      /\ timer[q] # "trained"
  BY NoticeDoes DEF ServerInv
<1>1. CASE t \in Workers
  <2>1. qry'[t] = qry[t] /\ Busy(t)
    BY <1>t, <1>1 DEF Types, Visible, Passes, Goes, Images, Throws, ReadsState, Posts,
       GoesOn,
       EndsProcess, Takes, SetsState, Goto, Busy
  <2>2. qry[t] # q
    BY <1>1, <2>1 DEF WhoInv
  <2> QED BY <2>1, <2>2, Elsewhere, SameForScript
<1>2. CASE t = Post /\ Takes(t)
  <2>1. state' = state /\ pc'[Serve] = pc[Serve] /\ qry'[Serve] = qry[Serve] /\ job' = job
    BY <1>t, <1>2 DEF Types, Takes
  <2> QED BY <1>0, <2>1 DEF ScriptInv, Entered
<1>3. CASE t = Post /\ ~Takes(t)
  <2>1. qry'[t] = qry[t] /\ Busy(t)
    BY <1>t, <1>3 DEF Types, Visible, Passes, Goes, Images, Throws, ReadsState, Posts,
       GoesOn,
       EndsProcess, SetsState, Goto, Busy
  <2>2. qry[t] # q
    BY <1>0, <1>3, <2>1 DEF WhoInv
  <2> QED BY <2>1, <2>2, Elsewhere, SameForScript
<1>4. CASE t = Serve /\ (EndsProcess(t) \/ qry[t] # q)
  <2>1. EndsProcess(t) \/ qry'[t] = qry[t]
    BY <1>t, <1>4 DEF Types, Visible, Passes, Throws, ReadsState, Posts, GoesOn, Takes,
       SetsState
  <2> QED BY <1>4, <2>1, Elsewhere, SameForScript
<1>5. CASE t = Serve /\ ~EndsProcess(t) /\ qry[t] = q
  <2>1. Busy(Serve) /\ ~Takes(t) /\ qry'[Serve] = q
    BY <1>t, <1>5 DEF Types, Visible, Passes, Goes, Images, Throws, ReadsState, Posts,
       GoesOn,
       Takes, SetsState, Goto, Busy
  <2>2. \/ pc[Serve] \in Images \cup {"file"} /\ todo = <<>>
        \/ client[q] = "wait" /\ pc[Serve] = "fetch" /\ todo = <<>>
        \/ /\ client[q] = "wait"
           /\ pc[Serve] \in Training \cup {"announce_done", "post_done", "next"}
           /\ \/ job[Serve] = "train" /\ todo = <<"rank", "get_ranking">>
              \/ job[Serve] = "rank" /\ todo = <<"get_ranking">>
    BY <1>0, <1>5, <2>1 DEF ServeInv
  <2>3. CASE pc[Serve] \in Images \cup {"file"} /\ todo = <<>>
    <3>1. /\ state' = state /\ state[q] = "DATACOLL"
          /\ pc'[Serve] \in Images \cup {"idle"}
      BY <1>t, <1>5, <2>1, <2>3 DEF Types, Visible, Passes, Goes, Done, Throws,
         ReadsState, Posts,
         GoesOn, SetsState, Goto, Images, ScriptInv
    <3> QED BY <1>0, <2>1, <3>1 DEF ScriptInv, Entered, Images
  <2>4. CASE client[q] = "wait" /\ pc[Serve] = "fetch"
    <3>1. pc'[Serve] = "idle"
      BY <1>t, <1>5, <2>1, <2>4 DEF Types, Visible, Passes, Goes, Throws, ReadsState,
         Posts,
         GoesOn, SetsState, Goto, Images
    <3> QED BY <1>0, <2>4, <3>1 DEF ScriptInv, Entered, Images
  <2>5. CASE /\ client[q] = "wait"
             /\ pc[Serve] \in Training \cup {"announce_done", "post_done", "next"}
             /\ \/ job[Serve] = "train" /\ todo = <<"rank", "get_ranking">>
                \/ job[Serve] = "rank" /\ todo = <<"get_ranking">>
    <3>0. client'[q] \notin {"add", "train"}
      BY <1>0, <2>5
    <3>1. CASE Passes(t)
      <4>1. /\ state' = state /\ job' = job
            /\ \/ pc[Serve] = "check" /\ pc'[Serve] = "set"
               \/ Entered(Serve) /\ pc'[Serve] \in {"sort", "finish"}
        BY <1>t, <1>5, <2>5, <3>1 DEF Types, Passes, Goes, Training, Images, Entered
      <4> QED BY <1>5, <3>0, <4>1 DEF ScriptInv, Entered, Images
    <3>2. CASE Throws(t)
      <4>1. pc'[Serve] = "idle"
        BY <1>t, <1>5, <3>2 DEF Types, Throws
      <4> QED BY <3>0, <4>1 DEF ScriptInv, Entered, Images
    <3>3. ASSUME NEW s \in States, SetsState(t, s) PROVE ScriptInv(q)'
      <4>1. /\ state'[q] = s /\ job' = job
            /\ \/ pc'[Serve] = "announce" /\ s = During[job[Serve]]
               \/ pc'[Serve] = "announce_done" /\ s = After[job[Serve]]
        BY <1>t, <1>5, <3>3 DEF Types, SetsState, Goto
      <4> QED BY <2>5, <3>0, <4>1 DEF ScriptInv, Entered, Images, During, After
    <3>4. CASE ReadsState(t)
      <4>1. /\ state' = state /\ job' = job
            /\ \/ pc[Serve] = "announce" /\ pc'[Serve] = "post"
               \/ pc[Serve] = "announce_done" /\ pc'[Serve] = "post_done"
        BY <1>t, <1>5, <2>5, <3>4 DEF Types, ReadsState, Goto, Training
      <4> QED BY <1>5, <3>0, <4>1 DEF ScriptInv, Entered, Images
    <3>5. CASE Posts(t)
      <4>1. /\ state' = state /\ job' = job
            /\ \/ pc[Serve] = "post" /\ pc'[Serve] = "compute"
               \/ pc[Serve] = "post_done" /\ pc'[Serve] = "next"
        <5>1. Done(Serve) = "next"
          BY <2>5 DEF Done
        <5>2. pc[Serve] # "post_complete" /\ Serve \in Threads /\ pc \in [Threads -> Labels]
          BY <1>t, <2>5 DEF Types, Training
        <5> QED BY <1>5, <3>5, <5>1, <5>2 DEF Posts, Goto
      <4> QED BY <1>5, <3>0, <4>1 DEF ScriptInv, Entered, Images
    <3>6. CASE GoesOn(t)
      <4>1. /\ state' = state
            /\ \/ job[Serve] = "train" /\ pc'[Serve] = "check" /\ job'[Serve] = "rank"
               \/ pc'[Serve] = "fetch"
            /\ pc[Serve] = "next"
        BY <1>t, <1>5, <2>5, <3>6, Todo DEF Types, GoesOn
      <4> QED BY <1>5, <3>0, <4>1 DEF ScriptInv, Entered, Images
    <3> QED BY <1>5, <2>1, <3>1, <3>2, <3>3, <3>4, <3>5, <3>6 DEF Visible
  <2> QED BY <2>2, <2>3, <2>4, <2>5
<1> QED BY <1>1, <1>2, <1>3, <1>4, <1>5 DEF Threads

LEMMA ScriptActs ==
  ASSUME ServerInv, ClientTypes, StartInv, ServeInv, NEW q \in Queries, ~IsPage(q)',
         client[q] # "start" => ScriptInv(q), ClientStep(q) \/ UserLeaves(q),
         timer'[q] # "trained"
  PROVE  ScriptInv(q)'
<1>t. Types
  BY TypesHold
<1>1. ScriptStep(q)
  BY <1>t DEF ClientStep, PageStep, PageOpens, PageTimesOut, RefusePage, ServePage,
     UserLeaves, Receive, Listens, Then, IsPage, PageStates, Types, ClientTypes
<1>2. CASE ScriptStarts(q)
  <2>1. UNCHANGED <<pc, job, qry, state>>
    BY <1>2 DEF ScriptStarts, StartQuery, thread_vars
  <2>2. state[q] = "DATACOLL" /\ qry[Serve] # q
    BY <1>t, <1>2 DEF ScriptStarts, Then, StartInv, Types
  <2> QED BY <2>1, <2>2 DEF ScriptInv
<1>3. CASE ScriptAddsFiles(q)
  <2>1. state' = state /\ state[q] = "DATACOLL" /\ pc'[Serve] = "file"
    BY <1>t, <1>3 DEF ScriptAddsFiles, AddTrsFromFile, Start, Types
  <2> QED BY <2>1 DEF ScriptInv, Entered
<1>4. CASE ScriptTrains(q)
  <2>1. /\ state' = state /\ pc'[Serve] = "check" /\ job'[Serve] = "train"
        /\ client[q] = "train" /\ client'[q] = "wait"
    BY <1>t, <1>4 DEF ScriptTrains, Block, Start, Then, Types, ClientTypes
  <2> QED BY <2>1 DEF ScriptInv, Entered, Images
<1>5. CASE ScriptRefused(q) \/ ScriptFrees(q)
  <2>1. /\ UNCHANGED <<pc, job, qry, state>>
        /\ client'[q] \in {"failed", "done"} /\ client[q] # "start"
    BY <1>t, <1>5 DEF ScriptRefused, ScriptFrees, FreeQuery, Then, vars, thread_vars,
       Types, ClientTypes
  <2> QED BY <2>1 DEF ScriptInv, Entered
<1>6. ~ScriptAddsUrls(q)
  BY <1>t DEF ScriptAddsUrls, Types, ClientTypes
<1> QED BY <1>1, <1>2, <1>3, <1>4, <1>5, <1>6 DEF ScriptStep

LEMMA CalmStep ==
  ASSUME ServerInv, ClientTypes, StartInv, WhoInv, ServeInv, CalmInv,
         [ClientNext]_client_vars
  PROVE  CalmInv'
<1> SUFFICES ASSUME NEW q \in Queries, timer'[q] # "trained", ~Repeats(q)'
             PROVE  /\ IsPage(q)' => PageInv(q)'
                    /\ ~IsPage(q)' => ScriptInv(q)'
  BY DEF CalmInv, Hurried
<1>0. q \notin Hurried
  BY HurriedGrows DEF Hurried
<1>1. /\ IsPage(q) => PageInv(q)
      /\ ~IsPage(q) => ScriptInv(q)
      /\ client[q] # "start" => (IsPage(q)' <=> IsPage(q))
  BY <1>0, ClientKeeps DEF CalmInv
<1>2. ASSUME SameFor(q) PROVE IsPage(q)' <=> IsPage(q)
  BY <1>2 DEF SameFor, IsPage
<1>3. CASE UNCHANGED client_vars
  <2>1. SameFor(q)
    BY <1>3 DEF SameFor, client_vars, page_vars, vars, thread_vars, report_vars, Busy
  <2> QED BY <1>1, <1>2, <2>1, SameForPage, SameForScript
<1>4. CASE (Work \/ \E b \in Batches : TakeImage(b)) /\ Notice
  <2>1. PICK t \in Threads : Visible(t)
    BY <1>4, WorkDoes DEF ServerInv
  <2>2. CASE client[q] = "start"
    <3>1. client'[q] = "start" /\ SameFor(q)
      <4>1. qry[t] # q /\ qry'[t] # q
        BY <2>1, <2>2, TypesHold
           DEF Types, StartInv, Visible, Passes, Throws, ReadsState, Posts, GoesOn,
               EndsProcess, Takes, SetsState
      <4>2. SameFor(q)
        BY <1>4, <2>1, <4>1, Elsewhere
      <4> QED BY <2>2, <4>2 DEF SameFor
    <3> QED BY <1>1, <1>2, <3>1, SameForPage, SameForScript
  <2>3. CASE client[q] # "start" /\ IsPage(q)
    BY <1>1, <1>4, <2>1, <2>3, PageServed
  <2>4. CASE client[q] # "start" /\ ~IsPage(q)
    BY <1>1, <1>4, <2>1, <2>4, ScriptServed
  <2> QED BY <2>2, <2>3, <2>4
<1>5. ASSUME NEW p \in Queries, ClientStep(p) \/ UserLeaves(p)
      PROVE  /\ IsPage(q)' => PageInv(q)'
             /\ ~IsPage(q)' => ScriptInv(q)'
  <2>1. CASE p # q
    <3>1. SameFor(q)
      BY <1>5, <2>1, ClientElsewhere
    <3> QED BY <1>1, <1>2, <3>1, SameForPage, SameForScript
  <2>2. CASE p = q
    <3>1. client[q] # "start" /\ ~IsPage(q)' => ScriptInv(q)
      BY <1>1
    <3> QED BY <1>1, <1>5, <2>2, <3>1, PageActs, ScriptActs
  <2> QED BY <2>1, <2>2
<1> QED BY <1>3, <1>4, <1>5 DEF ClientNext, ServerWorks

-----------------------------------------------------------------------------
(* What ends the process                                                     *)

\* A thread that does not find its query is a detached one, of a hasty page.
LEMMA HastyEnds ==
  ASSUME ServerInv, WhoInv, HastyInv, NEW t \in Threads, pc[t] \in {"get", "file"},
         qry[t] \notin queries
  PROVE  qry[t] \in Queries /\ Hasty(qry[t])
<1>1. t \in Workers /\ pc[t] = "get"
  BY ServerAssumption
     DEF Threads, WhoInv, Busy, Training, HastyInv, ServerInv, PlaceInv, Images
<1>2. qry[t] \in Queries
  BY <1>1, ServerAssumption DEF ServerInv, PlaceInv, Threads
<1> QED BY <1>1, <1>2 DEF HastyInv

\* A user who leaves a page that shows a ranking or an error leaves no thread behind
\* that has still to look its query up.
LEMMA LeavesNoThread ==
  ASSUME ServerInv, ClientTypes, WhoInv, CalmInv, NEW q \in Queries,
         \/ UserLeaves(q) /\ client[q] # "open"
         \/ ScriptFrees(q)
  PROVE  \A w \in Workers : pc[w] = "get" /\ qry[w] = q => Hasty(q)
<1> SUFFICES ASSUME NEW w \in Workers, pc[w] = "get", qry[w] = q, ~Hasty(q)
             PROVE  FALSE
  OBVIOUS
<1>1. IsPage(q) /\ job[w] \in {"train", "rank"} /\ OnTask(w, q) /\ ~Entered(w)
  BY DEF WhoInv, Busy, OnTask, Entered
<1>2. PageInv(q)
  BY <1>1 DEF CalmInv, Hasty
<1>3. client[q] \in {"ranking", "error"}
  BY <1>1 DEF UserLeaves, ScriptFrees, Then, IsPage, PageStates
<1>4. state[q] \in {"DATACOLL_COMPLETE", "TRAINED"} /\ ~NoTask(q)
  BY <1>1, <1>2 DEF PageInv, TaskInv, NoTask
<1> QED BY <1>2, <1>3, <1>4 DEF PageInv, ShownInv

LEMMA HastyStep ==
  ASSUME ServerInv, ClientTypes, WhoInv, ServeInv, CalmInv, HastyInv,
         [ClientNext]_client_vars
  PROVE  HastyInv'
<1>t. Types
  BY TypesHold
<1> DEFINE hasty == {q \in Queries : Hasty(q)'}
<1>0. \A q \in Queries : Hasty(q) => q \in hasty
  BY ClientKeeps, HurriedGrows DEF Hasty, IsPage, PageStates
<1>1. ASSUME \A end \in terminated' : end.why = "lookup" => qry'[end.thread] \in hasty,
             terminated' # {} => \A t \in Threads : pc'[t] = "dead",
             \A w \in Workers : pc'[w] = "get" => qry'[w] \in queries' \cup hasty,
             pc'[Serve] = "file" => qry'[Serve] \in queries'
      PROVE  HastyInv'
  <2>1. OnlyHastyPagesLoseQueries'
    BY <1>1 DEF OnlyHastyPagesLoseQueries, Hasty
  <2>2. (\A w \in Workers : pc[w] = "get" => qry[w] \in queries \/ Hasty(qry[w]))'
    BY <1>1
  <2>3. (\A end \in terminated : end.why = "lookup" => qry[end.thread] \in Queries)'
    BY <1>1
  <2> QED BY <1>1, <2>1, <2>2, <2>3 DEF HastyInv
<1>2. CASE terminated # {}
  <2>1. \A t \in Threads : pc[t] = "dead"
    BY <1>2 DEF HastyInv
  <2>2. UNCHANGED vars
    BY <2>1, ClientsUseServer, DeadStays
  <2>3. UNCHANGED <<terminated, pc, qry, queries>>
    BY <2>2 DEF vars, query_vars, thread_vars
  <2>4. ASSUME NEW end \in terminated, end.why = "lookup" PROVE qry[end.thread] \in hasty
    <3>1. Hasty(qry[end.thread])
      BY <2>4 DEF HastyInv, OnlyHastyPagesLoseQueries, Hasty
    <3>2. qry[end.thread] \in Queries
      BY <2>4 DEF HastyInv
    <3> QED BY <1>0, <3>1, <3>2
  <2> QED BY <1>t, <1>1, <2>1, <2>3, <2>4 DEF Types
<1>3. \A w \in Workers : pc[w] = "get" => qry[w] \in queries \cup hasty
  <2>1. \A w \in Workers : pc[w] = "get" => qry[w] \in Queries
    BY ServerAssumption DEF ServerInv, PlaceInv, Threads
  <2> QED BY <1>0, <2>1 DEF HastyInv
<1>4. CASE UNCHANGED client_vars /\ terminated = {}
  BY <1>1, <1>3, <1>4 DEF client_vars, vars, query_vars, thread_vars, HastyInv
<1>5. CASE terminated = {} /\ (Work \/ \E b \in Batches : TakeImage(b))
  <2>1. PICK t \in Threads : Visible(t)
    BY <1>5, WorkDoes DEF ServerInv
  <2>2. CASE EndsProcess(t)
    <3>1. PICK why \in Reasons :
            /\ why = "lookup" => pc[t] \in {"get", "file"} /\ qry[t] \notin queries
            /\ Terminate(t, why)
      BY <2>2 DEF EndsProcess
    <3>2. /\ terminated' = {[thread |-> t, why |-> why]} /\ qry' = qry
          /\ \A u \in Threads : pc'[u] = "dead"
      BY <2>2, <3>1 DEF EndsProcess, Terminate
    <3>3. why = "lookup" => qry'[t] \in hasty
      BY <1>0, <3>1, <3>2, HastyEnds
    <3> HIDE DEF hasty
    <3> QED BY <1>t, <1>1, <3>2, <3>3 DEF Types
  <2>3. CASE ~EndsProcess(t)
    <3>1. /\ terminated' = terminated /\ queries' = queries
          /\ \A u \in Threads : pc'[u] \in {"get", "file"} => pc'[u] = pc[u] /\ qry'[u] = qry[u]
      BY <1>t, <2>1, <2>3 DEF Types, Visible, Passes, Goes, Images, Throws, ReadsState,
         Posts,
         GoesOn, Takes, SetsState, Goto, Done, Fixed
    <3>2. \A w \in Workers : pc'[w] = "get" => qry'[w] \in queries' \cup hasty
      BY <1>t, <1>3, <3>1 DEF Types
    <3> HIDE DEF hasty
    <3> QED BY <1>t, <1>1, <1>5, <3>1, <3>2 DEF Types, HastyInv
  <2> QED BY <2>2, <2>3
<1>6. ASSUME NEW q \in Queries, ClientStep(q) \/ UserLeaves(q), terminated = {}
      PROVE  HastyInv'
  <2>1. CASE Idles(q)
    <3>1. UNCHANGED <<pc, qry, terminated>>
      BY <2>1, IdlesDo
    <3>2. /\ queries \ {q} \subseteq queries'
          /\ UserLeaves(q) \/ ScriptFrees(q) \/ queries \subseteq queries'
          /\ pc[Serve] = "file" => queries \subseteq queries'
      BY <2>1 DEF Idles, PageOpens, PageTimesOut, RefusePage, UserLeaves, SkipTrs,
         ScriptStarts,
         ScriptRefused, ScriptFrees, StartQuery, FreeQuery, Call, vars, query_vars
    <3>3. \A w \in Workers : pc[w] = "get" => qry[w] \in queries' \cup hasty
      <4>1. CASE queries \subseteq queries'
        BY <1>3, <4>1
      <4>2. CASE UserLeaves(q) /\ client[q] = "open"
        <5>1. client'[q] = "abandoned"
          BY <1>t, <4>2 DEF UserLeaves, Then, Types, ClientTypes
        <5>2. q \in hasty
          BY <5>1 DEF Hasty, IsPage, PageStates
        <5> HIDE DEF hasty
        <5> QED BY <1>3, <3>2, <5>2
      <4>3. CASE ScriptFrees(q) \/ (UserLeaves(q) /\ client[q] # "open")
        <5>1. \A w \in Workers : pc[w] = "get" /\ qry[w] = q => q \in hasty
          BY <1>0, <4>3, LeavesNoThread
        <5> HIDE DEF hasty
        <5> QED BY <1>3, <3>2, <5>1
      <4> QED BY <3>2, <4>1, <4>2, <4>3
    <3> HIDE DEF hasty
    <3> QED BY <1>1, <1>6, <3>1, <3>2, <3>3 DEF HastyInv
  <2>2. ASSUME NEW task \in {"train", "rank"}, NewThread \in Workers,
               Detach(NewThread, task, task, q)
        PROVE  HastyInv'
    <3>1. PICK v \in Workers : v = NewThread
      BY <2>2
    <3>2. /\ \A u \in Threads \ {v} : pc'[u] = pc[u] /\ qry'[u] = qry[u]
          /\ qry'[v] = q /\ q \in queries
          /\ queries' = queries /\ terminated' = terminated
      BY <1>t, <2>2, <3>1 DEF Types, Detach, Start, query_vars
    <3>3. \A w \in Workers : pc'[w] = "get" => qry'[w] \in queries' \cup hasty
      BY <1>t, <1>3, <3>2 DEF Types
    <3> HIDE DEF hasty
    <3> QED BY <1>t, <1>1, <1>6, <3>1, <3>2, <3>3 DEF Types, HastyInv
  <2>3. CASE \/ GetRanking(q) \/ ScriptAddsUrls(q) \/ ScriptAddsFiles(q) \/ ScriptTrains(q)
             \/ \E b \in Batches : AddTrs(q, b, MaxUrls)
    <3>1. /\ \A u \in Threads \ {Serve} : pc'[u] = pc[u] /\ qry'[u] = qry[u]
          /\ qry'[Serve] = q /\ q \in queries
          /\ queries' = queries /\ terminated' = terminated
      BY <1>t, <2>3 DEF Types, GetRanking, AddTrs, ScriptAddsUrls, ScriptAddsFiles,
         AddTrsFromFile, ScriptTrains, Block, Start, query_vars
    <3>2. \A w \in Workers : pc'[w] = "get" => qry'[w] \in queries' \cup hasty
      BY <1>t, <1>3, <3>1 DEF Types
    <3> HIDE DEF hasty
    <3> QED BY <1>1, <1>6, <3>1, <3>2
  <2> QED BY <1>6, <2>1, <2>2, <2>3, ClientStepCases
<1> QED BY <1>2, <1>4, <1>5, <1>6 DEF ClientNext, ServerWorks

-----------------------------------------------------------------------------
(* Training sets and lifecycles                                              *)

ClientInv == ServerInv /\ ClientTypes /\ StartInv /\ WhoInv /\ ServeInv /\ CalmInv

LEMMA ClientBegins == ClientInit => ClientInv /\ HastyInv /\ Hurried = {}
<1> SUFFICES ASSUME ClientInit PROVE ClientInv /\ HastyInv /\ Hurried = {}
  OBVIOUS
<1>1. ServerInv
  BY InitPlace, InitTypes, InitData DEF ClientInit, ServerInv
<1>2. /\ pc = [t \in Threads |-> "idle"] /\ qry = [t \in Threads |-> None]
      /\ client = [q \in Queries |-> "start"] /\ timer = [q \in Queries |-> "armed"]
      /\ owner = [b \in Batches |-> None] /\ posted = [q \in Queries |-> <<>>]
      /\ state = [q \in Queries |-> "DATACOLL"] /\ created = {} /\ todo = <<>>
      /\ sent = [q \in Queries |-> [k \in PageRequests |-> 0]] /\ terminated = {}
      /\ None \notin Queries
      /\ Serve \in Threads /\ Post \in Threads /\ Workers \subseteq Threads
  BY ServerAssumption DEF ClientInit, Init, Threads
<1>3. ClientTypes
  BY <1>2 DEF ClientTypes, ClientStates
<1>4. StartInv
  BY <1>2 DEF StartInv, PageRequests
<1>5. WhoInv /\ ServeInv
  BY <1>2 DEF WhoInv, ServeInv, Busy
<1>6. CalmInv
  BY <1>2 DEF CalmInv, IsPage, PageStates, ScriptInv
<1>7. HastyInv
  BY <1>2 DEF HastyInv, OnlyHastyPagesLoseQueries
<1>8. Hurried = {}
  <2>1. ASSUME NEW q \in Queries, NEW s
        PROVE  Cardinality({i \in DOMAIN posted[q] : posted[q][i] = s}) = 0
    <3>1. {i \in DOMAIN posted[q] : posted[q][i] = s} = {}
      BY <1>2
    <3> QED BY <3>1, FS_EmptySet
  <2>2. ASSUME NEW q \in Queries PROVE ~Repeats(q)
    <3>1. ASSUME NEW s \in DOMAIN Reaction
          PROVE  ~(Cardinality({i \in DOMAIN posted[q] : posted[q][i] = s}) > 1)
      <4>1. Cardinality({i \in DOMAIN posted[q] : posted[q][i] = s}) = 0
        BY <2>1
      <4> QED BY <4>1
    <3> QED BY <3>1 DEF Repeats
  <2> QED BY <1>2, <2>2 DEF Hurried
<1> QED BY <1>1, <1>3, <1>4, <1>5, <1>6, <1>7, <1>8 DEF ClientInv

LEMMA ClientInvStep == ClientInv /\ [ClientNext]_client_vars => ClientInv'
<1> SUFFICES ASSUME ClientInv, [ClientNext]_client_vars PROVE ClientInv'
  OBVIOUS
<1>1. ServerInv'
  BY ClientsUseServer, TypeStep, PlaceStep, RestStep, LoopStep, RankingStep
     DEF ClientInv, ServerInv
<1> QED BY <1>1, ClientTypesStep, StartStep, WhoStep, ServeStepKeeps, CalmStep DEF ClientInv

\* Features are pushed by the thread that tested the state.
LEMMA FeatsGrow ==
  ASSUME [Next]_vars
  PROVE  \/ feats' = feats
         \/ \E t \in Threads : /\ pc[t] = "push"
                               /\ feats' = [feats EXCEPT ![qry[t]] = @ + 1]
<1> USE DEF data_vars
<1>1. ASSUME NEW t \in Threads, Step(t)
      PROVE  feats' = feats \/ PushFeat(t)
  BY <1>1 DEF Step, GetQueryIfo, CheckState, EnterState, ReadState, PostStateChange,
     TrainModel, LoadModel, ScoreDataset, SortScores, ComputeFails, LeaveState,
     GetQueryIfoForFile, TestCollecting, ComputeFeat, FeatFails, InvalidImage
<1>2. CASE ServeStep \/ PostStep \/ \E b \in Batches : TakeImage(b)
  BY <1>2 DEF ServeStep, SkipHttps, FolderFails, ReadToAdd, QueueUrl, NextUrl, ServeNext,
     FetchRanking, PostStep, ReadToSubtract, WriteSubtracted, TestRemaining, TestDataColl,
     SetDataCollComplete, AnnounceAllImages, TakeImage
<1>3. CASE Accept
  BY <1>3 DEF Accept, Dispatch, StartQuery, SetTag, AddTrs, Detach, Block, GetRanking,
     FreeQuery, AddTrsFromFile, SaveClassifier
<1>4. CASE UNCHANGED vars
  BY <1>4 DEF vars
<1> QED BY <1>1, <1>2, <1>3, <1>4 DEF Next, Work, PushFeat

\* A thread that pushes a feature to a query whose client does not hurry finds it in
\* data collection.
LEMMA CalmPush ==
  ASSUME ClientInv, NEW q \in Queries \ Hurried, NEW t \in Threads, pc[t] = "push", qry[t] = q
  PROVE  state[q] = "DATACOLL"
<1> USE DEF ClientInv
<1>1. CASE IsPage(q)
  <2>1. t = Post
    BY <1>1, PageThreads, TypesHold DEF Busy, Training, Types
  <2> QED BY <1>1, <2>1 DEF CalmInv, PageInv
<1>2. CASE ~IsPage(q)
  <2>1. t = Serve
    BY <1>2 DEF WhoInv, Busy, Threads, Hurried
  <2> QED BY <1>2, <2>1 DEF CalmInv, ScriptInv, Images
<1> QED BY <1>1, <1>2

LEMMA FrozenStep ==
  ClientInv /\ [ClientNext]_client_vars
    => \A q \in Queries \ Hurried' : feats'[q] # feats[q] => state[q] = "DATACOLL"
<1> SUFFICES ASSUME ClientInv, [ClientNext]_client_vars, NEW q \in Queries, q \notin Hurried',
                    feats'[q] # feats[q]
             PROVE  state[q] = "DATACOLL"
  OBVIOUS
<1>1. q \notin Hurried
  BY HurriedGrows DEF ClientInv
<1>2. PICK t \in Threads : pc[t] = "push" /\ feats' = [feats EXCEPT ![qry[t]] = @ + 1]
  BY ClientsUseServer, FeatsGrow
<1>3. qry[t] = q
  BY <1>2 DEF ClientInv, ServerInv, TypeInv
<1> QED BY <1>1, <1>2, <1>3, CalmPush

\* A state that is set follows the one before it.
LEMMA CalmFollows ==
  ASSUME ClientInv, NEW q \in Queries \ Hurried, NEW t \in Threads, qry[t] = q,
         NEW s \in States, SetsState(t, s)
  PROVE  <<state[q], s>> \in Lifecycle!Follows
<1> USE DEF ClientInv
<1>t. Types
  BY TypesHold
<1>1. /\ pc[t] \in {"set", "finish", "complete"} /\ Busy(t)
      /\ pc[t] = "set" => s = During[job[t]]
      /\ pc[t] = "finish" => s = After[job[t]]
      /\ pc[t] = "complete" => t = Post /\ s = "DATACOLL_COMPLETE"
  BY DEF SetsState, Goto, Busy
<1>2. /\ During["train"] = "TRAINING" /\ During["rank"] = "RANKING"
      /\ After["train"] = "TRAINED" /\ After["rank"] = "RANKED"
  BY DEF During, After
<1>3. CASE IsPage(q) /\ t = Post
  <2>1. pc[t] = "complete" /\ state[q] = "DATACOLL"
    BY <1>t, <1>1, <1>3, PageThreads DEF Types, Images, CalmInv, PageInv
  <2> QED BY <1>1, <2>1 DEF Lifecycle!Follows
<1>4. CASE IsPage(q) /\ t # Post
  <2>1. /\ t \in Workers /\ job[t] \in {"train", "rank"}
        /\ OnTask(t, q) /\ pc[t] \in {"set", "finish"}
    BY <1>t, <1>1, <1>4, PageThreads DEF Types, OnTask, Training
  <2>2. state[q] = IF job[t] = "train"
                     THEN IF pc[t] = "finish" THEN "TRAINING" ELSE "DATACOLL_COMPLETE"
                     ELSE IF pc[t] = "finish" THEN "RANKING" ELSE "TRAINED"
    BY <1>4, <2>1 DEF CalmInv, PageInv, TaskInv, Entered
  <2> QED BY <1>1, <1>2, <2>1, <2>2 DEF Lifecycle!Follows
<1>5. CASE ~IsPage(q)
  <2>1. t = Serve
    BY <1>1, <1>5 DEF WhoInv, Threads, Hurried
  <2>2. pc[t] \in {"set", "finish"} /\ job[t] \in {"train", "rank"}
    BY <1>t, <1>1, <1>5, <2>1 DEF ServeInv, Images, Types
  <2>3. state[q] = IF job[t] = "train"
                     THEN IF pc[t] = "finish" THEN "TRAINING" ELSE "DATACOLL"
                     ELSE IF pc[t] = "finish" THEN "RANKING" ELSE "TRAINED"
    BY <1>5, <2>1, <2>2 DEF CalmInv, ScriptInv, Entered
  <2> QED BY <1>1, <1>2, <2>2, <2>3 DEF Lifecycle!Follows
<1> QED BY <1>3, <1>4, <1>5

\* What clients do changes no state.
LEMMA ClientsLeaveStates ==
  ASSUME NEW q \in Queries, ClientStep(q) \/ UserLeaves(q)
  PROVE  state' = state
BY ClientStepCases, IdlesDo DEF AddTrs, Detach, GetRanking, ScriptAddsUrls,
   ScriptAddsFiles,
   AddTrsFromFile, ScriptTrains, Block

LEMMA LifecycleStep ==
  ClientInv /\ [ClientNext]_client_vars => [Lifecycle!Next]_<<state, Hurried>>
<1> SUFFICES ASSUME ClientInv, [ClientNext]_client_vars
             PROVE  [Lifecycle!Next]_<<state, Hurried>>
  OBVIOUS
<1> USE DEF ClientInv
<1>t. Types
  BY TypesHold
<1>1. ASSUME NEW q \in Queries, state' = state,
             \A p \in Queries \ {q} : timer'[p] = timer[p] /\ posted'[p] = posted[p]
      PROVE  Lifecycle!Hurry(q) \/ UNCHANGED <<state, Hurried>>
  <2>1. \A p \in Queries \ {q} : p \in Hurried' <=> p \in Hurried
    BY <1>1 DEF Hurried, Repeats
  <2>2. Hurried \subseteq Hurried' /\ Hurried' \subseteq Queries /\ Hurried \subseteq Queries
    BY HurriedGrows DEF Hurried
  <2>3. Hurried' = Hurried \/ Hurried' = Hurried \cup {q}
    BY <2>1, <2>2
  <2> QED BY <1>1, <2>3 DEF Lifecycle!Hurry
<1>2. ASSUME timer' = timer, posted' = posted PROVE Hurried' = Hurried
  BY <1>2 DEF Hurried, Repeats
<1>3. CASE UNCHANGED client_vars
  BY <1>2, <1>3 DEF client_vars, vars, report_vars, page_vars
<1>4. CASE (Work \/ \E b \in Batches : TakeImage(b)) /\ Notice
  <2>1. PICK t \in Threads : Visible(t)
    BY <1>4, WorkDoes DEF ServerInv
  <2>2. timer' = timer
    BY <1>4 DEF Notice
  <2>3. ASSUME NEW s \in States \ {"DATACOLL"}, SetsState(t, s)
        PROVE  Lifecycle!Next
    <3> DEFINE q == qry[t]
    <3>1. q \in Queries
      BY <2>3, ServerAssumption DEF SetsState, Goto, ServerInv, PlaceInv, TypeInv,
         LoopInv, Threads, Images
    <3>2. state' = [state EXCEPT ![q] = s] /\ posted' = posted
      BY <2>3 DEF SetsState
    <3>3. Hurried' = Hurried
      BY <1>2, <2>2, <3>2
    <3>4. <<state[q], s>> \in Lifecycle!Follows \/ q \in Hurried
      BY <2>3, <3>1, CalmFollows
    <3>5. s \in Lifecycle!States
      BY <2>3 DEF States, Lifecycle!States
    <3> HIDE DEF q
    <3>6. Lifecycle!Advance(q)
      BY <2>3, <3>2, <3>3, <3>4, <3>5 DEF Lifecycle!Advance
    <3> QED BY <3>1, <3>6 DEF Lifecycle!Next
  <2>4. CASE Posts(t)
    <3>1. qry[t] \in Queries
      BY <2>4, ServerAssumption DEF Posts, Goto, ServerInv, PlaceInv, TypeInv, LoopInv,
         Threads, Images
    <3>2. /\ state' = state
          /\ \A p \in Queries \ {qry[t]} : timer'[p] = timer[p] /\ posted'[p] = posted[p]
      BY <1>t, <2>2, <2>4 DEF Posts, Types
    <3> QED BY <1>1, <3>1, <3>2 DEF Lifecycle!Next
  <2>5. CASE ~Posts(t) /\ ~\E s \in States \ {"DATACOLL"} : SetsState(t, s)
    <3>1. state' = state /\ posted' = posted
      BY <2>1, <2>5 DEF Visible, Passes, Throws, ReadsState, GoesOn, EndsProcess, Takes
    <3> QED BY <1>2, <2>2, <3>1
  <2> QED BY <2>3, <2>4, <2>5
<1>5. ASSUME NEW q \in Queries, ClientStep(q) \/ UserLeaves(q)
      PROVE  Lifecycle!Next \/ UNCHANGED <<state, Hurried>>
  <2>1. \A p \in Queries \ {q} : timer'[p] = timer[p] /\ posted'[p] = posted[p]
    BY <1>5, ClientElsewhere DEF SameFor
  <2> QED BY <1>1, <1>5, <2>1, ClientsLeaveStates DEF Lifecycle!Next
<1> QED BY <1>3, <1>4, <1>5 DEF ClientNext, ServerWorks

-----------------------------------------------------------------------------

\* Clients do nothing to the server but what QueryServer allows to anybody, so that
\* what is proved of it above holds with them.
THEOREM ClientsAreServed == ClientSpec => Spec
<1>1. ClientInit => Init
  BY DEF ClientInit
<1> QED BY <1>1, ClientsUseServer, PTL DEF ClientSpec, Spec

\* Whatever else ends the process, a lookup only fails in a thread of a page whose
\* requests were repeated, or whose user left before anything was shown.
THEOREM ClientOnlyHastyPagesLose == ClientSpec => []OnlyHastyPagesLoseQueries
<1>1. ClientInit => ClientInv /\ HastyInv
  BY ClientBegins
<1>2. ClientInv /\ HastyInv /\ [ClientNext]_client_vars => (ClientInv /\ HastyInv)'
  BY ClientInvStep, HastyStep DEF ClientInv
<1>3. HastyInv => OnlyHastyPagesLoseQueries
  BY DEF HastyInv
<1> QED BY <1>1, <1>2, <1>3, PTL DEF ClientSpec

\* The features of a query whose client does not hurry are those of data collection.
THEOREM ClientSetFrozen == ClientSpec => ClientTrainingSetFrozen
<1>1. ClientInit => ClientInv
  BY ClientBegins
<1>2. ClientInv /\ [ClientNext]_client_vars => ClientInv'
  BY ClientInvStep
<1>3. ClientInv /\ [ClientNext]_client_vars
        => [\A q \in Queries \ Hurried' : feats'[q] # feats[q] => state[q] = "DATACOLL"]_client_vars
  BY FrozenStep
<1> QED BY <1>1, <1>2, <1>3, PTL DEF ClientSpec, ClientTrainingSetFrozen

\* Whatever the threads of the server and the clients do, the state of a query whose
\* client does not hurry goes from one to the next, and no query returns to data
\* collection.
THEOREM ClientImplementsLifecycle == ClientSpec => ImplementsLifecycle
<1>1. ClientInit => ClientInv /\ Lifecycle!Init
  BY ClientBegins DEF ClientInit, Init, Lifecycle!Init
<1>2. ClientInv /\ [ClientNext]_client_vars => ClientInv'
  BY ClientInvStep
<1>3. ClientInv /\ [ClientNext]_client_vars => [Lifecycle!Next]_<<state, Hurried>>
  BY LifecycleStep
<1> QED BY <1>1, <1>2, <1>3, PTL DEF ClientSpec, ImplementsLifecycle, Lifecycle!Spec
=============================================================================
