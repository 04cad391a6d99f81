--------------------------- MODULE MCQueryServer ---------------------------
(* Definitions for the configurations of QueryServer. *)
EXTENDS QueryServer, FiniteSets

\* The task of a thread, without what it will not look at again.
Task(t) ==
  CASE pc[t] \in {"idle", "dead", "next"} -> <<pc[t]>>
    [] pc[t] \in {"post", "post_done", "post_complete"} ->
         <<pc[t], job[t], qry[t], read[t]>>
    [] pc[t] \in {"queue", "add"} ->
         <<pc[t], left[t], batch[t], IF pc[t] = "add" THEN value[t] ELSE 0>>
    [] pc[t] \in {"get", "check", "set", "announce", "compute", "sort", "finish",
                  "announce_done", "fetch", "callback", "complete", "announce_all",
                  "announce_complete"} -> <<pc[t], job[t], qry[t]>>
    [] t = Post -> <<pc[t], qry[t], batch[t], IF pc[t] = "subtract" THEN value[t] ELSE 0>>
    [] OTHER -> <<pc[t], qry[t], left[t]>>

\* One detached thread is as good as another, also for the fairness that is assumed.
WorkerTasks ==
  {<<Task(w), Cardinality({v \in Workers : Task(v) = Task(w)})>> : w \in Workers}

\* No step depends on what was announced before, and nothing happens after the process
\* has ended.
Present ==
  IF terminated # {}
  THEN <<queries, state, data_vars, overlap,
         {<<end.why, IF end.thread \in Workers THEN Workers ELSE {end.thread},
            qry[end.thread], batch[Post]>> : end \in terminated}>>
  ELSE <<query_vars, state, data_vars, owner, image_count, arriving, overlap, todo,
         Task(Serve), qry[Serve], Task(Post), WorkerTasks, reported, requests>>
=============================================================================
