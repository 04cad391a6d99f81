--------------------------- MODULE MCQueryClient ---------------------------
(* Definitions for the configurations of QueryClient. *)
EXTENDS QueryClient, TLC

\* The task of a thread, without what it will not look at again.
Task(t) ==
  CASE pc[t] \in {"idle", "dead", "next"} -> <<pc[t]>>
    [] pc[t] \in {"post", "post_done", "post_complete"} ->
         <<pc[t], job[t], qry[t], read[t]>>
    [] pc[t] \in {"queue", "add"} ->
         <<pc[t], left[t], batch[t], IF pc[t] = "add" THEN value[t] ELSE 0>>
    [] pc[t] \in {"get", "check", "set", "announce", "compute", "sort", "finish",
                  "announce_done", "fetch", "callback", "complete", "announce_all",
                  "announce_complete"} -> <<pc[t], job[t], qry[t]>>
    [] t = Post -> <<pc[t], qry[t], batch[t], IF pc[t] = "subtract" THEN value[t] ELSE 0>>
    [] OTHER -> <<pc[t], qry[t], left[t]>>

\* One detached thread is as good as another, also for the fairness that is assumed.
WorkerTasks ==
  {<<Task(w), Cardinality({v \in Workers : Task(v) = Task(w)})>> : w \in Workers}

\* How often a state was announced says nothing more once the client is a hurried one.
AnnouncedOnce(q) ==
  {s \in DOMAIN Reaction :
     q \notin Hurried /\ Cardinality({i \in DOMAIN posted[q] : posted[q][i] = s}) = 1}

Page(q) ==
  <<client[q], timer[q], q \in Hurried, AnnouncedOnce(q),
    IF timer[q] = "armed" THEN shown[q] ELSE "none",
    IF Listens(q) THEN sent[q] ELSE <<>>>>

\* All that a step or a property of these runs depends on, as long as MaxRequests is not
\* reached.  Nothing happens after the process has ended.
Present ==
  IF terminated # {}
  THEN <<{<<end.why, qry[end.thread]>> : end \in terminated}, state, feats, client, Hurried>>
  ELSE <<queries, created, state, data_vars, owner, image_count, arriving, todo,
         Task(Serve), qry[Serve], Task(Post), WorkerTasks, [q \in Queries |-> Page(q)]>>
=============================================================================
