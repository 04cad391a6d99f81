--------------------------- MODULE Notifications ---------------------------
(***************************************************************************)
(* The way of a notification from the thread that posts it to the web      *)
(* servers: the queues of StatusNotifier, each of which lets one reader in *)
(* at a time (status_notifier.cc, concurrent_queue_single_sub.h), the      *)
(* monitors of ZmqServer, which share one PUB socket (zmq_server.cc), and  *)
(* the subscribers of pyclient and webservice-node.                        *)
(* A push or a pop of a queue is one step: ConcurrentQueue has the details.*)
(***************************************************************************)
EXTENDS Integers, Sequences, FiniteSets, SequencesExt

CONSTANTS
  Monitored,   \* the kinds of notification that have a monitor
  Guests,      \* threads of a program around the server that wait for index updates
  Pythons, Nodes, \* the subscribers, by the language of their web server
  MaxPosts,    \* notifications posted (bound)
  HighWater    \* messages that ZeroMQ keeps for a slow subscriber

ASSUME NotificationAssumption ==
  /\ Monitored \subseteq {"state", "image", "all", "error"}
  /\ Guests \cap Monitored = {} /\ Pythons \cap Nodes = {}
  /\ IsFiniteSet(Monitored) /\ IsFiniteSet(Guests)
  /\ MaxPosts \in Nat /\ HighWater \in Nat \ {0}

Kinds       == Monitored \cup {"index"}
Subscribers == Pythons \cup Nodes
Readers     == Monitored \cup Guests  \* a monitor has the name of its queue

Queue(r) == IF r \in Monitored THEN r ELSE "index"

VARIABLES
  notify_socket, \* notify_socket_ is set
  serving,       \* serve_ receives requests
  log,           \* log[n]: the kind of the n-th notification posted
  queue,         \* queue[k]: the notifications in the queue of kind k
  sub_count,     \* sub_count[k]: sub_count_ of that queue
  pc, held,      \* pc[r], held[r]: the place of reader r and what it popped
  overlapped,    \* two sends have overlapped
  terminated,    \* the process of the server has ended
  subscribed,    \* the subscribers whose subscription has arrived
  running,       \* the subscribers whose process is running
  pipe,          \* pipe[s]: messages on their way to s
  received       \* received[s]: what s has passed on to its pages

server_vars == <<notify_socket, serving>>
queue_vars  == <<log, queue, sub_count>>
reader_vars == <<pc, held>>
sub_vars    == <<subscribed, running, pipe, received>>
vars == <<server_vars, queue_vars, reader_vars, overlapped, terminated, sub_vars>>

TypeOK ==
  /\ notify_socket \in BOOLEAN /\ serving \in BOOLEAN
  /\ log \in Seq(Kinds) /\ Len(log) <= MaxPosts
  /\ queue \in [Kinds -> Seq(DOMAIN log)]
  /\ sub_count \in [Kinds -> Nat]
  /\ pc \in [Readers -> {"idle", "inside", "popped", "returned", "sending"}]
  /\ held \in [Readers -> 0..Len(log)]
  /\ overlapped \in BOOLEAN /\ terminated \in BOOLEAN
  /\ subscribed \subseteq Subscribers /\ running \subseteq Subscribers
  /\ pipe \in [Subscribers -> Seq(DOMAIN log)]
  /\ received \in [Subscribers -> Seq(DOMAIN log)]

Init ==
  /\ notify_socket = FALSE /\ serving = FALSE
  /\ log = <<>>
  /\ queue = [k \in Kinds |-> <<>>] /\ sub_count = [k \in Kinds |-> 0]
  /\ pc = [r \in Readers |-> "idle"] /\ held = [r \in Readers |-> 0]
  /\ overlapped = FALSE /\ terminated = FALSE
  /\ subscribed = {} /\ running = Subscribers
  /\ pipe = [s \in Subscribers |-> <<>>]
  /\ received = [s \in Subscribers |-> <<>>]

Goto(r, from, to) == pc[r] = from /\ pc' = [pc EXCEPT ![r] = to]

\* Reader r is done with what it popped.
Finish(r, from) == Goto(r, from, "idle") /\ held' = [held EXCEPT ![r] = 0]

-----------------------------------------------------------------------------
(* The serve thread, and the threads that post *)

\* The sockets are bound, and notify_socket_ is stored for the monitors, which the
\* constructor has started.
StoreSocket ==
  /\ ~notify_socket /\ notify_socket' = TRUE
  /\ UNCHANGED <<serving, queue_vars, reader_vars, overlapped, terminated, sub_vars>>

\* Fault: requests are received before the socket is stored.
ServeAtOnce ==
  /\ ~serving /\ serving' = TRUE
  /\ UNCHANGED <<notify_socket, queue_vars, reader_vars, overlapped, terminated, sub_vars>>

Serve ==
  /\ notify_socket
  /\ ~serving /\ serving' = TRUE
  /\ UNCHANGED <<notify_socket, queue_vars, reader_vars, overlapped, terminated, sub_vars>>

\* post_state_change_ and the like: whatever is posted is due to a request.
Post(k) ==
  /\ serving
  /\ Len(log) < MaxPosts
  /\ log' = Append(log, k)
  /\ queue' = [queue EXCEPT ![k] = Append(@, Len(log) + 1)]
  /\ UNCHANGED <<server_vars, sub_count, reader_vars, overlapped, terminated, sub_vars>>

-----------------------------------------------------------------------------
(* wait_state_change and the like: waitAndPop of ConcurrentQueueSingleSub *)

\* Fault: incSubCount_ does not look who is there.
SubscribeUntested(r) ==
  /\ Goto(r, "idle", "inside")
  /\ sub_count' = [sub_count EXCEPT ![Queue(r)] = @ + 1]
  /\ UNCHANGED <<server_vars, log, queue, held, overlapped, terminated, sub_vars>>

\* incSubCount_ holds sub_mutex_ from its test to its end.
Subscribe(r) ==
  /\ Goto(r, "idle", "inside")
  /\ sub_count[Queue(r)] = 0
  /\ sub_count' = [sub_count EXCEPT ![Queue(r)] = @ + 1]
  /\ UNCHANGED <<server_vars, log, queue, held, overlapped, terminated, sub_vars>>

\* AlreadyHasSubscriberError is thrown before anything is changed.  It is the guest's
\* to handle; no monitor handles it.
Refuse(r) ==
  /\ pc[r] = "idle"
  /\ sub_count[Queue(r)] > 0
  /\ terminated' = (r \in Monitored)
  /\ UNCHANGED <<server_vars, queue_vars, reader_vars, overlapped, sub_vars>>

\* Fault: the front of the queue is read and not popped.
PeekHead(r) ==
  /\ Goto(r, "inside", "popped")
  /\ queue[Queue(r)] # <<>>
  /\ held' = [held EXCEPT ![r] = Head(queue[Queue(r)])]
  /\ UNCHANGED <<server_vars, queue_vars, overlapped, terminated, sub_vars>>

PopHead(r) ==
  /\ Goto(r, "inside", "popped")
  /\ queue[Queue(r)] # <<>>
  /\ held' = [held EXCEPT ![r] = Head(queue[Queue(r)])]
  /\ queue' = [queue EXCEPT ![Queue(r)] = Tail(@)]
  /\ UNCHANGED <<server_vars, log, sub_count, overlapped, terminated, sub_vars>>

\* Fault: decSubCount_ is forgotten.
ReturnCounted(r) ==
  /\ IF r \in Monitored THEN Goto(r, "popped", "returned") /\ UNCHANGED held
                         ELSE Finish(r, "popped")
  /\ UNCHANGED <<server_vars, queue_vars, overlapped, terminated, sub_vars>>

\* decSubCount_, and the return of the notification.
Return(r) ==
  /\ IF r \in Monitored THEN Goto(r, "popped", "returned") /\ UNCHANGED held
                         ELSE Finish(r, "popped")
  /\ sub_count' = [sub_count EXCEPT ![Queue(r)] = @ - 1]
  /\ UNCHANGED <<server_vars, log, queue, overlapped, terminated, sub_vars>>

-----------------------------------------------------------------------------
(* The monitors *)

Sending == {m \in Monitored : pc[m] = "sending"}

\* Fault: the notification is dropped if another monitor is sending.
TestSocketBusy(m) ==
  /\ \/ /\ notify_socket /\ Sending = {}
        /\ Goto(m, "returned", "sending")
        /\ UNCHANGED held
     \/ /\ ~notify_socket \/ Sending # {}
        /\ Finish(m, "returned")
  /\ UNCHANGED <<server_vars, queue_vars, overlapped, terminated, sub_vars>>

\* The test of notify_socket_ and the call of send.  Without a socket the notification
\* is dropped.
TestSocket(m) ==
  /\ \/ /\ notify_socket
        /\ Goto(m, "returned", "sending")
        /\ overlapped' = (overlapped \/ Sending # {})
        /\ UNCHANGED held
     \/ /\ ~notify_socket
        /\ Finish(m, "returned")
        /\ UNCHANGED overlapped
  /\ UNCHANGED <<server_vars, queue_vars, terminated, sub_vars>>

\* A PUB socket drops what a slow subscriber has no room for.
HasRoom(s) == Len(pipe[s]) < HighWater

EndSend(m) ==
  /\ Finish(m, "sending")
  /\ pipe' = [s \in Subscribers |-> IF s \in subscribed /\ HasRoom(s)
                                     THEN Append(pipe[s], held[m]) ELSE pipe[s]]
  /\ UNCHANGED <<server_vars, queue_vars, overlapped, terminated, subscribed, running,
                 received>>

\* Two threads were in the socket at once, which is undefined: an assertion of the
\* library may end the process, then or in a later send.
EndClash(m) ==
  /\ overlapped
  /\ pc[m] = "sending" /\ terminated' = TRUE
  /\ UNCHANGED <<server_vars, queue_vars, reader_vars, overlapped, sub_vars>>

-----------------------------------------------------------------------------
(* The subscribers *)

\* A subscription travels to the server; what is sent before it arrives is missed.
SubscriptionArrives(s) ==
  /\ notify_socket
  /\ s \notin subscribed /\ subscribed' = subscribed \cup {s}
  /\ UNCHANGED <<server_vars, queue_vars, reader_vars, overlapped, terminated,
                 running, pipe, received>>

\* The loop of VisorNotifier passes message n on to all pages.  The node one throws when
\* it is sent an error, which ends its process.
PassOn(s, n) ==
  /\ s \in running
  /\ \/ /\ s \in Pythons \/ log[n] # "error"
        /\ received' = [received EXCEPT ![s] = Append(@, n)]
        /\ UNCHANGED running
     \/ /\ s \in Nodes /\ log[n] = "error"
        /\ running' = running \ {s}
        /\ UNCHANGED received
  /\ UNCHANGED <<server_vars, queue_vars, reader_vars, overlapped, terminated, subscribed>>

Receive(s) ==
  /\ pipe[s] # <<>> /\ pipe' = [pipe EXCEPT ![s] = Tail(@)]
  /\ PassOn(s, Head(pipe[s]))

\* After two sends have overlapped whatever was posted may arrive, again or in any order,
\* and a garbled message may end who receives it; or nothing arrives any more.
ReceiveClashed(s) ==
  /\ overlapped
  /\ \/ \E n \in DOMAIN log : PassOn(s, n)
     \/ /\ s \in running /\ running' = running \ {s}
        /\ UNCHANGED <<server_vars, queue_vars, reader_vars, overlapped, terminated,
                       subscribed, received>>
  /\ UNCHANGED pipe

-----------------------------------------------------------------------------
StartServing == StoreSocket \/ Serve

Read(r)    == Subscribe(r) \/ Refuse(r) \/ PopHead(r) \/ Return(r)
Monitor(m) == Read(m) \/ TestSocket(m) \/ EndSend(m) \/ EndClash(m)

\* Nothing moves in a process that has ended; the subscribers are processes of
\* their own.
Next ==
  \/ /\ ~terminated
     /\ \/ StartServing
        \/ \E k \in Kinds : Post(k)
        \/ \E m \in Monitored : Monitor(m)
        \/ \E g \in Guests : Read(g)
        \/ \E s \in Subscribers : SubscriptionArrives(s)
  \/ \E s \in Subscribers : Receive(s) \/ ReceiveClashed(s)

Spec == Init /\ [][Next]_vars

\* Monitors and subscribers run in a loop.  Nobody has to post, no guest has to wait,
\* and a subscription may take any time.
FairSpec ==
  /\ Spec
  /\ \A m \in Monitored : WF_vars(~terminated /\ Monitor(m))
  /\ \A s \in Subscribers : WF_vars(Receive(s))

-----------------------------------------------------------------------------
(* Properties *)

Promise == INSTANCE NotificationLog WITH broken <- overlapped

\* Until two sends overlap, each kind of notification reaches each web server in the
\* order of posting and none twice, whatever subscribers are slow and subscriptions late.
\* After that nothing is promised.
ImplementsLog == Promise!Spec

\* No monitor looks at notify_socket_ before serve_ has stored it: the field is not
\* read while it is written, and nothing is dropped for want of a socket, although
\* the monitors start long before (zmq_server.cc:18-21 and 61).
SocketStoredFirst == \A m \in Monitored : held[m] # 0 => notify_socket

\* However calls are refused, one call of waitAndPop at most is under way in each
\* queue, and the count is right (concurrent_queue_single_sub.h:31-39).
OneSubscriber ==
  \A k \in Kinds :
    LET inside == {r \in Readers : Queue(r) = k /\ pc[r] \in {"inside", "popped"}}
    IN sub_count[k] = Cardinality(inside) /\ sub_count[k] <= 1

\* The notifications end the process only if two monitors send at once: a monitor is
\* never refused by its queue.
OnlyOverlapsTerminate == terminated => overlapped

\* Unless sends overlap or the subscriber is late, slow or gone, it receives
\* everything that is posted for a monitor.
ForMonitor(n)  == n \in DOMAIN log /\ log[n] \in Monitored
Received(s, n) == n \in ToSet(received[s])

Undisturbed(s) ==
  /\ ~overlapped /\ HasRoom(s) /\ s \in running
  /\ s \in subscribed \/ log = <<>>

DeliveredIfUndisturbed ==
  \A s \in Subscribers :
    []Undisturbed(s) => \A n \in 1..MaxPosts : ForMonitor(n) ~> Received(s, n)

\* A socket of ZeroMQ may be used by one thread at a time.
OneSender == Cardinality(Sending) <= 1

\* base_server.cc:135-136 announces that all images were processed, and then the
\* state: a web server receives notifications in the order of posting.
OrderAcrossKinds ==
  \A s \in Subscribers : \A i, j \in DOMAIN received[s] :
    i < j => received[s][i] < received[s][j]

\* controllers.js:100-102 shows errors: they reach every web server to which nothing
\* else is lost.
ErrorsReachPages ==
  \A s \in Subscribers :
    [](~overlapped /\ HasRoom(s) /\ (s \in subscribed \/ log = <<>>)) =>
      \A n \in 1..MaxPosts : ForMonitor(n) ~> Received(s, n)

\* Updates of the index do not pile up when nobody waits for them.
IndexUpdatesTaken ==
  \A n \in 1..MaxPosts : n \in ToSet(queue["index"]) ~> n \notin ToSet(queue["index"])
=============================================================================
