------------------------------ MODULE NetPool ------------------------------
(***************************************************************************)
(* The pool of Caffe networks (src/src/directencode/netpool) as used by    *)
(* CaffeEncoder::compute: a thread obtains a network that is ready,        *)
(* computes on it and makes it ready again.  The ready_ flag of a network  *)
(* is a plain bool: getReadyNet reads and clears it under ready_net_mutex_ *)
(* while CaffeNetInst::compute sets it without that mutex.                 *)
(***************************************************************************)
EXTENDS Integers

CONSTANTS
  Threads,       \* the threads that extract features
  NoThread,      \* the owner of a mutex that is free
  PoolSize,      \* netpool_sz
  MaxRequests,   \* bound: calls of compute per thread
  MayThrow       \* whether compute_ may throw (an image without 3 channels)

ASSUME PoolAssumption ==
  /\ NoThread \notin Threads
  /\ PoolSize \in Nat \ {0}         \* CHECK_GE(pool_sz, 1)
  /\ MaxRequests \in Nat
  /\ MayThrow \in BOOLEAN

Nets == 1..PoolSize

VARIABLES
  ready,           \* ready[n]: CaffeNetInst::ready_
  ready_net_mutex, \* the thread that owns ready_net_mutex_
  compute_mutex,   \* compute_mutex[n]: the thread that owns compute_mutex_
  pc,              \* pc[t]: where thread t is
  idx,             \* idx[t]: i of the scan, then the network returned by it
  requests         \* requests[t]: calls of compute made by thread t

vars == <<ready, ready_net_mutex, compute_mutex, pc, idx, requests>>

Scanning  == {"scan", "take"}
Computing == {"enter", "prepare", "forward", "forwarding", "publish", "catch"}
Labels    == {"idle", "lock", "waiting", "notify"} \cup Scanning \cup Computing

TypeOK ==
  /\ ready \in [Nets -> BOOLEAN]
  /\ ready_net_mutex \in Threads \cup {NoThread}
  /\ compute_mutex \in [Nets -> Threads \cup {NoThread}]
  /\ pc \in [Threads -> Labels]
  /\ idx \in [Threads -> 1..(PoolSize + 1)]
  /\ requests \in [Threads -> 0..MaxRequests]

Init ==
  /\ ready = [n \in Nets |-> TRUE]
  /\ ready_net_mutex = NoThread
  /\ compute_mutex = [n \in Nets |-> NoThread]
  /\ pc = [t \in Threads |-> "idle"]
  /\ idx = [t \in Threads |-> 1]
  /\ requests = [t \in Threads |-> 0]

Goto(t, from, to) == pc[t] = from /\ pc' = [pc EXCEPT ![t] = to]

\* A thread computes on the network idx[t].
Holds(t, n) == pc[t] \in Computing /\ idx[t] = n

-----------------------------------------------------------------------------
(* Seeded faults: actions as a plausible bug would have them.  No action    *)
(* uses them; each shows that a property below can be broken.              *)

\* getReadyNet without its scoped_lock.
LockUnguarded(t) ==
  /\ Goto(t, "lock", "scan")
  /\ ready_net_mutex' = t
  /\ idx' = [idx EXCEPT ![t] = 1]
  /\ UNCHANGED <<ready, compute_mutex, requests>>

\* set_ready(false) is left to compute.
TakeStillReady(t) ==
  /\ Goto(t, "take", "enter")
  /\ ready_net_mutex' = NoThread
  /\ UNCHANGED <<ready, compute_mutex, idx, requests>>

\* compute_mutex_ is not released.
ForwardPropKeepsLock(t) ==
  /\ Goto(t, "forwarding", "publish")
  /\ UNCHANGED <<ready, ready_net_mutex, compute_mutex, idx, requests>>

\* The handler does not restore ready_.
CatchLeaks(t) ==
  /\ Goto(t, "catch", "idle")
  /\ UNCHANGED <<ready, ready_net_mutex, compute_mutex, idx, requests>>

-----------------------------------------------------------------------------
(* CaffeNetPool::getReadyNet *)

\* CaffeEncoder::compute is called.
Request(t) ==
  /\ requests[t] < MaxRequests
  /\ Goto(t, "idle", "lock")
  /\ requests' = [requests EXCEPT ![t] = @ + 1]
  /\ UNCHANGED <<ready, ready_net_mutex, compute_mutex, idx>>

\* The scoped_lock, or the end of a wait, which owns the mutex again.  Either
\* way the scan starts at the first network.
Lock(t) ==
  /\ Goto(t, "lock", "scan")
  /\ ready_net_mutex = NoThread
  /\ ready_net_mutex' = t
  /\ idx' = [idx EXCEPT ![t] = 1]
  /\ UNCHANGED <<ready, compute_mutex, requests>>

SkipBusy(t) ==
  /\ pc[t] = "scan" /\ idx[t] \in Nets
  /\ ~ready[idx[t]]
  /\ idx' = [idx EXCEPT ![t] = @ + 1]
  /\ UNCHANGED <<ready, ready_net_mutex, compute_mutex, pc, requests>>

FindReady(t) ==
  /\ idx[t] \in Nets
  /\ ready[idx[t]]
  /\ Goto(t, "scan", "take")
  /\ UNCHANGED <<ready, ready_net_mutex, compute_mutex, idx, requests>>

\* set_ready(false), and the return that destroys the scoped_lock.
Take(t) ==
  /\ Goto(t, "take", "enter")
  /\ ready' = [ready EXCEPT ![idx[t]] = FALSE]
  /\ ready_net_mutex' = NoThread
  /\ UNCHANGED <<compute_mutex, idx, requests>>

\* No network was found: the wait gives up the mutex and sleeps in one step.
Wait(t) ==
  /\ idx[t] \notin Nets
  /\ Goto(t, "scan", "waiting")
  /\ ready_net_mutex' = NoThread
  /\ UNCHANGED <<ready, compute_mutex, idx, requests>>

\* A condition variable may wake a thread that nobody notified.
SpuriousWakeup(t) ==
  /\ Goto(t, "waiting", "lock")
  /\ UNCHANGED <<ready, ready_net_mutex, compute_mutex, idx, requests>>

-----------------------------------------------------------------------------
(* CaffeNetInst::compute *)

Enter(t) ==
  /\ Goto(t, "enter", "prepare")
  /\ ready' = [ready EXCEPT ![idx[t]] = FALSE]
  /\ UNCHANGED <<ready_net_mutex, compute_mutex, idx, requests>>

Prepare(t) ==
  /\ Goto(t, "prepare", "forward")
  /\ UNCHANGED <<ready, ready_net_mutex, compute_mutex, idx, requests>>

\* prepareImages throws InvalidImageError.
Throw(t) ==
  /\ MayThrow
  /\ Goto(t, "prepare", "catch")
  /\ UNCHANGED <<ready, ready_net_mutex, compute_mutex, idx, requests>>

LockNet(t) ==
  /\ Goto(t, "forward", "forwarding")
  /\ compute_mutex[idx[t]] = NoThread
  /\ compute_mutex' = [compute_mutex EXCEPT ![idx[t]] = t]
  /\ UNCHANGED <<ready, ready_net_mutex, idx, requests>>

ForwardProp(t) ==
  /\ Goto(t, "forwarding", "publish")
  /\ compute_mutex' = [compute_mutex EXCEPT ![idx[t]] = NoThread]
  /\ UNCHANGED <<ready, ready_net_mutex, idx, requests>>

\* ready_ = true, without ready_net_mutex_.
Publish(t) ==
  /\ Goto(t, "publish", "notify")
  /\ ready' = [ready EXCEPT ![idx[t]] = TRUE]
  /\ UNCHANGED <<ready_net_mutex, compute_mutex, idx, requests>>

\* notify_all, and the return of the features.
NotifyAll(t) ==
  /\ pc[t] = "notify"
  /\ pc' = [u \in Threads |-> CASE u = t              -> "idle"
                                [] pc[u] = "waiting"  -> "lock"
                                [] OTHER              -> pc[u]]
  /\ UNCHANGED <<ready, ready_net_mutex, compute_mutex, idx, requests>>

\* The handler makes the network ready and throws again: it does not notify.
Catch(t) ==
  /\ Goto(t, "catch", "idle")
  /\ ready' = [ready EXCEPT ![idx[t]] = TRUE]
  /\ UNCHANGED <<ready_net_mutex, compute_mutex, idx, requests>>

-----------------------------------------------------------------------------
Running(t) ==
  \/ Lock(t) \/ SkipBusy(t) \/ FindReady(t) \/ Take(t) \/ Wait(t)
  \/ Enter(t) \/ Prepare(t) \/ Throw(t) \/ LockNet(t) \/ ForwardProp(t)
  \/ Publish(t) \/ NotifyAll(t) \/ Catch(t)

Next == \E t \in Threads : Request(t) \/ Running(t) \/ SpuriousWakeup(t)

Spec == Init /\ [][Next]_vars

\* A thread inside compute keeps running.  Nobody has to call compute again,
\* and no spurious wakeup can be counted on.
FairSpec == Spec /\ \A t \in Threads : WF_vars(Running(t))

-----------------------------------------------------------------------------
(* Properties *)

\* A Caffe network has one set of input and output blobs: two threads never
\* compute on the same one (getReadyNet hands each ready network to one thread).
Exclusive ==
  \A t, u \in Threads, n \in Nets : Holds(t, n) /\ Holds(u, n) => t = u

\* The flag and the holders agree: a network that is ready is not in use, and
\* one that is not ready is in use, so that no exception in compute_ leaks a
\* network out of the pool.
FlagAgrees ==
  \A n \in Nets : ready[n] <=> ~ \E t \in Threads : Holds(t, n)

\* compute_mutex_ is never contended: whoever is about to lock it finds it free.
NetUncontended ==
  \A t \in Threads : pc[t] = "forward" => compute_mutex[idx[t]] = NoThread

\* With at least as many networks as threads nobody ever waits for one,
\* although networks change state in the middle of a scan.
NoWaiting == \A t \in Threads : pc[t] # "waiting"

\* Every call of compute returns or throws.
Served == \A t \in Threads : pc[t] = "lock" ~> pc[t] = "idle"

\* What the pool implements: the network held by each thread.
Held == [t \in Threads |-> IF pc[t] \in Computing THEN idx[t] ELSE 0]

Allocator == INSTANCE NetAllocator WITH held <- Held, NoNet <- 0

\* Every step of the pool is an acquire, a release or invisible to an observer
\* of who holds which network.
ImplementsAllocator == Allocator!Spec

\* caffe_netpool.cc:19, "wait on condition variable (which should be posted to
\* by any networks transitioning to ready state)": a step that makes a network
\* ready leaves its thread about to post.
ReadyIsPosted ==
  [][\A n \in Nets : ~ready[n] /\ ready'[n] =>
       \E t \in Threads : pc'[t] = "notify" /\ idx'[t] = n]_vars

\* The purpose of that post: a thread that waits for a network is woken up.
WaiterIsWoken == \A t \in Threads : pc[t] = "waiting" ~> pc[t] # "waiting"
=============================================================================
