-------------------------- MODULE ConcurrentQueue --------------------------
(***************************************************************************)
(* The queue between the threads of the server                             *)
(* (src/src/server/util/concurrent_queue.h).  A push unlocks the mutex     *)
(* before it notifies one waiting thread, so that other threads may push   *)
(* and pop in between.                                                     *)
(***************************************************************************)
EXTENDS Integers, Sequences, FiniteSets

CONSTANTS
  Producers, Consumers, \* the threads that push and those that pop
  NoThread,             \* the owner of a mutex that is free
  MaxPushes             \* items pushed by each producer (bound)

ASSUME QueueAssumption ==
  /\ IsFiniteSet(Producers) /\ IsFiniteSet(Consumers)
  /\ Producers \cap Consumers = {}
  /\ NoThread \notin Producers \cup Consumers
  /\ MaxPushes \in Nat

Threads == Producers \cup Consumers

VARIABLES
  queue,  \* queue_
  mutex,  \* the owner of mutex_
  pc,     \* pc[t]: where thread t is
  pushed  \* pushed[p]: items pushed by p

vars == <<queue, mutex, pc, pushed>>

Items == Producers \X (1..MaxPushes)

\* waitAndPop: a thread in Awake will look at the queue before it sleeps again.
Awake  == {"lock", "test"}
Labels == {"idle", "push", "notify", "waiting", "take"} \cup Awake

TypeOK ==
  /\ queue \in Seq(Items)
  /\ mutex \in Threads \cup {NoThread}
  /\ pc \in [Threads -> Labels]
  /\ pushed \in [Producers -> 0..MaxPushes]

Init ==
  /\ queue = <<>> /\ mutex = NoThread
  /\ pc = [t \in Threads |-> "idle"]
  /\ pushed = [p \in Producers |-> 0]

Goto(t, from, to) == pc[t] = from /\ pc' = [pc EXCEPT ![t] = to]

-----------------------------------------------------------------------------
(* push *)

LockPush(p) ==
  /\ pushed[p] < MaxPushes
  /\ Goto(p, "idle", "push")
  /\ mutex = NoThread /\ mutex' = p
  /\ UNCHANGED <<queue, pushed>>

\* Fault: no thread is notified if the queue was not empty.
EnqueueAndNotifyFirst(p) ==
  /\ Goto(p, "push", IF queue = <<>> THEN "notify" ELSE "idle")
  /\ pushed' = [pushed EXCEPT ![p] = @ + 1]
  /\ queue' = Append(queue, <<p, pushed'[p]>>)
  /\ mutex' = NoThread

\* queue_.push and lock.unlock
Enqueue(p) ==
  /\ Goto(p, "push", "notify")
  /\ pushed' = [pushed EXCEPT ![p] = @ + 1]
  /\ queue' = Append(queue, <<p, pushed'[p]>>)
  /\ mutex' = NoThread

\* Fault: notify_one is left out.
NotifyNobody(p) ==
  /\ Goto(p, "notify", "idle")
  /\ UNCHANGED <<queue, mutex, pushed>>

\* notify_one wakes some thread that waits, if there is one.
NotifyOne(p) ==
  /\ pc[p] = "notify"
  /\ \/ \E c \in Consumers :
          /\ pc[c] = "waiting"
          /\ pc' = [pc EXCEPT ![p] = "idle", ![c] = "lock"]
     \/ /\ \A c \in Consumers : pc[c] # "waiting"
        /\ pc' = [pc EXCEPT ![p] = "idle"]
  /\ UNCHANGED <<queue, mutex, pushed>>

-----------------------------------------------------------------------------
(* waitAndPop and tryPop *)

WaitAndPop(c) ==
  /\ Goto(c, "idle", "lock")
  /\ UNCHANGED <<queue, mutex, pushed>>

\* The scoped_lock, or the end of a wait, which owns the mutex again.
LockPop(c) ==
  /\ Goto(c, "lock", "test")
  /\ mutex = NoThread /\ mutex' = c
  /\ UNCHANGED <<queue, pushed>>

\* The wait gives up the mutex and sleeps in one step.
Sleep(c) ==
  /\ Goto(c, "test", "waiting")
  /\ queue = <<>>
  /\ mutex' = NoThread
  /\ UNCHANGED <<queue, pushed>>

FindItem(c) ==
  /\ Goto(c, "test", "take")
  /\ queue # <<>>
  /\ UNCHANGED <<queue, mutex, pushed>>

\* front, pop, and the return that destroys the scoped_lock.
Take(c) ==
  /\ Goto(c, "take", "idle")
  /\ queue' = Tail(queue)
  /\ mutex' = NoThread
  /\ UNCHANGED pushed

\* A condition variable may wake a thread that nobody notified.
SpuriousWakeup(c) ==
  /\ Goto(c, "waiting", "lock")
  /\ UNCHANGED <<queue, mutex, pushed>>

\* tryPop holds the mutex from its test to its end.
TryPop(c) ==
  /\ pc[c] = "idle" /\ mutex = NoThread
  /\ queue # <<>> /\ queue' = Tail(queue)
  /\ UNCHANGED <<mutex, pc, pushed>>

-----------------------------------------------------------------------------
Push(p) == LockPush(p) \/ Enqueue(p) \/ NotifyOne(p)
Pop(c)  == WaitAndPop(c) \/ LockPop(c) \/ Sleep(c) \/ FindItem(c) \/ Take(c)

Next ==
  \/ \E p \in Producers : Push(p)
  \/ \E c \in Consumers : Pop(c) \/ TryPop(c) \/ SpuriousWakeup(c)

Spec == Init /\ [][Next]_vars

\* A push that began goes on; consumers call waitAndPop again and again, as
\* run_launch_, run_postprocess_ and the monitors do.
FairSpec ==
  /\ Spec
  /\ \A p \in Producers : WF_vars(Enqueue(p) \/ NotifyOne(p))
  /\ \A c \in Consumers : WF_vars(Pop(c))

-----------------------------------------------------------------------------
(* Properties *)

Notifying == {p \in Producers : pc[p] = "notify"}
Looking   == {c \in Consumers : pc[c] \in Awake \cup {"take"}}

\* While a thread sleeps in waitAndPop, every item in the queue has somebody who
\* cares: a producer about to notify or a consumer that is awake.
NoLostWakeup ==
  (\E c \in Consumers : pc[c] = "waiting") =>
    Len(queue) <= Cardinality(Notifying) + Cardinality(Looking)

\* queue_.front() of an empty queue is undefined: an item that was found is
\* still there when it is taken, whoever else pops.
TakeFindsItem == \A c \in Consumers : pc[c] = "take" => queue # <<>>

\* Every item is popped, although nobody is notified twice for it.
InQueue(i) == \E k \in 1..Len(queue) : queue[k] = i
Delivered  == \A i \in Items : InQueue(i) ~> ~InQueue(i)
=============================================================================
