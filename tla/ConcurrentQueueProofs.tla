----------------------- MODULE ConcurrentQueueProofs -----------------------
(***************************************************************************)
(* The queue loses no wakeup, for every number of producers, consumers and *)
(* items, although a push notifies after it released the mutex.            *)
(***************************************************************************)
EXTENDS ConcurrentQueue, FiniteSetTheorems, SequenceTheorems, TLAPS

\* The threads that own the mutex are those between locking and unlocking it.
Locked   == {"push", "test", "take"}
MutexInv == \A t \in Threads : pc[t] \in Locked <=> mutex = t

\* A producer that is about to push has not pushed all its items.
PushInv == \A p \in Producers : pc[p] = "push" => pushed[p] < MaxPushes

\* NoLostWakeup counts items and threads and is inductive by itself, but for the
\* pop, which needs TakeFindsItem, and that needs the mutex.
IInv == TypeOK /\ MutexInv /\ PushInv /\ TakeFindsItem /\ NoLostWakeup

LEMMA InitIInv == Init => IInv
  BY QueueAssumption
     DEF Init, IInv, TypeOK, MutexInv, PushInv, TakeFindsItem, NoLostWakeup,
         Threads, Labels, Awake, Locked

LEMMA TypeStep == TypeOK /\ PushInv /\ TakeFindsItem /\ [Next]_vars => TypeOK'
<1> SUFFICES ASSUME TypeOK, PushInv, TakeFindsItem, [Next]_vars PROVE TypeOK'
  OBVIOUS
<1> USE QueueAssumption DEF TypeOK, Threads, Labels, Awake, Goto
<1>1. ASSUME NEW p \in Producers, LockPush(p) \/ NotifyOne(p) PROVE TypeOK'
  BY <1>1 DEF LockPush, NotifyOne
<1>2. ASSUME NEW p \in Producers, Enqueue(p) PROVE TypeOK'
  <2>1. pushed[p] + 1 \in 1..MaxPushes
    BY <1>2 DEF Enqueue, PushInv
  <2>2. pushed' \in [Producers -> 0..MaxPushes] /\ pushed'[p] = pushed[p] + 1
    BY <1>2, <2>1 DEF Enqueue
  <2>3. <<p, pushed'[p]>> \in Items
    BY <2>1, <2>2 DEF Items
  <2>4. queue' \in Seq(Items)
    BY <1>2, <2>3 DEF Enqueue
  <2>5. QED
    BY <1>2, <2>2, <2>4 DEF Enqueue
<1>3. ASSUME NEW c \in Consumers,
             WaitAndPop(c) \/ LockPop(c) \/ Sleep(c) \/ FindItem(c) \/ SpuriousWakeup(c)
      PROVE TypeOK'
  BY <1>3 DEF WaitAndPop, LockPop, Sleep, FindItem, SpuriousWakeup
<1>4. ASSUME NEW c \in Consumers, Take(c) \/ TryPop(c) PROVE TypeOK'
  <2>1. queue # <<>>
    BY <1>4 DEF Take, TryPop, TakeFindsItem
  <2>2. queue' = Tail(queue)
    BY <1>4 DEF Take, TryPop
  <2>3. Tail(queue) \in Seq(Items)
    BY <2>1, HeadTailProperties
  <2>4. QED
    BY <1>4, <2>2, <2>3 DEF Take, TryPop
<1>5. CASE UNCHANGED vars
  BY <1>5 DEF vars
<1>6. QED
  BY <1>1, <1>2, <1>3, <1>4, <1>5 DEF Next, Push, Pop

LEMMA MutexStep == TypeOK /\ MutexInv /\ [Next]_vars => MutexInv'
<1> SUFFICES ASSUME TypeOK, MutexInv, [Next]_vars, NEW t \in Threads
             PROVE  (pc[t] \in Locked <=> mutex = t)'
  BY DEF MutexInv
<1> USE QueueAssumption DEF TypeOK, MutexInv, Threads, Locked, Goto
<1>1. ASSUME NEW p \in Producers, Push(p) PROVE (pc[t] \in Locked <=> mutex = t)'
  BY <1>1 DEF Push, LockPush, Enqueue, NotifyOne
<1>2. ASSUME NEW c \in Consumers, Pop(c) \/ TryPop(c) \/ SpuriousWakeup(c)
      PROVE (pc[t] \in Locked <=> mutex = t)'
  BY <1>2 DEF Pop, TryPop, SpuriousWakeup, WaitAndPop, LockPop, Sleep, FindItem, Take
<1>3. CASE UNCHANGED vars
  BY <1>3 DEF vars
<1>4. QED
  BY <1>1, <1>2, <1>3 DEF Next

LEMMA PushStep == TypeOK /\ PushInv /\ [Next]_vars => PushInv'
<1> SUFFICES ASSUME TypeOK, PushInv, [Next]_vars, NEW q \in Producers
             PROVE  (pc[q] = "push" => pushed[q] < MaxPushes)'
  BY DEF PushInv
<1> USE QueueAssumption DEF TypeOK, PushInv, Threads, Goto
<1>1. ASSUME NEW p \in Producers, Push(p)
      PROVE (pc[q] = "push" => pushed[q] < MaxPushes)'
  BY <1>1 DEF Push, LockPush, Enqueue, NotifyOne
<1>2. ASSUME NEW c \in Consumers, Pop(c) \/ TryPop(c) \/ SpuriousWakeup(c)
      PROVE (pc[q] = "push" => pushed[q] < MaxPushes)'
  BY <1>2 DEF Pop, TryPop, SpuriousWakeup, WaitAndPop, LockPop, Sleep, FindItem, Take
<1>3. CASE UNCHANGED vars
  BY <1>3 DEF vars
<1>4. QED
  BY <1>1, <1>2, <1>3 DEF Next

\* Between FindItem and Take the consumer owns the mutex, so nobody else pops.
LEMMA TakeStep ==
  TypeOK /\ MutexInv /\ TakeFindsItem /\ [Next]_vars => TakeFindsItem'
<1> SUFFICES ASSUME TypeOK, MutexInv, TakeFindsItem, [Next]_vars,
                    NEW d \in Consumers, pc'[d] = "take"
             PROVE  queue' # <<>>
  BY DEF TakeFindsItem
<1> USE QueueAssumption DEF TypeOK, Threads, Goto
<1>1. ASSUME NEW p \in Producers, Enqueue(p) PROVE queue' # <<>>
  BY <1>1 DEF Enqueue
<1>2. ASSUME NEW p \in Producers, LockPush(p) \/ NotifyOne(p) PROVE queue' # <<>>
  BY <1>2 DEF LockPush, NotifyOne, TakeFindsItem
<1>3. ASSUME NEW c \in Consumers,
             WaitAndPop(c) \/ LockPop(c) \/ Sleep(c) \/ FindItem(c) \/ SpuriousWakeup(c)
      PROVE queue' # <<>>
  BY <1>3 DEF WaitAndPop, LockPop, Sleep, FindItem, SpuriousWakeup, TakeFindsItem
<1>4. ASSUME NEW c \in Consumers, Take(c) \/ TryPop(c) PROVE queue' # <<>>
  <2>1. CASE Take(c)
    <3>1. d # c /\ pc[d] = "take"
      BY <2>1 DEF Take
    <3>2. QED
      BY <2>1, <3>1 DEF Take, MutexInv, Locked
  <2>2. CASE TryPop(c)
    BY <2>2 DEF TryPop, MutexInv, Locked
  <2>3. QED
    BY <1>4, <2>1, <2>2
<1>5. CASE UNCHANGED vars
  BY <1>5 DEF vars, TakeFindsItem
<1>6. QED
  BY <1>1, <1>2, <1>3, <1>4, <1>5 DEF Next, Push, Pop

-----------------------------------------------------------------------------
(* The items and the threads that care for them *)

\* Both sets are finite, now and in the next state.
LEMMA Finite ==
  /\ IsFiniteSet(Notifying) /\ Cardinality(Notifying) \in Nat
  /\ IsFiniteSet(Looking) /\ Cardinality(Looking) \in Nat
  /\ IsFiniteSet(Notifying') /\ Cardinality(Notifying') \in Nat
  /\ IsFiniteSet(Looking') /\ Cardinality(Looking') \in Nat
<1>1. IsFiniteSet(Notifying) /\ IsFiniteSet(Notifying')
  BY QueueAssumption, FS_Subset DEF Notifying
<1>2. IsFiniteSet(Looking) /\ IsFiniteSet(Looking')
  BY QueueAssumption, FS_Subset DEF Looking
<1>3. QED
  BY <1>1, <1>2, FS_CardinalityType

\* A push adds an item and a producer that will notify; a notification hands
\* over from the producer to the consumer it wakes; a pop removes one of each.
LEMMA WakeupStep == IInv /\ [Next]_vars => NoLostWakeup'
<1> SUFFICES ASSUME IInv, [Next]_vars,
                    NEW s \in Consumers, pc'[s] = "waiting"
             PROVE  Len(queue') <= Cardinality(Notifying') + Cardinality(Looking')
  BY DEF NoLostWakeup
<1> DEFINE Goal == Len(queue') <= Cardinality(Notifying') + Cardinality(Looking')
<1> USE QueueAssumption DEF IInv, TypeOK, Threads, Goto
<1>1. Len(queue) \in Nat
  OBVIOUS
<1>2. ASSUME NEW p \in Producers, LockPush(p) PROVE Goal
  <2>1. Notifying' = Notifying /\ Looking' = Looking
    BY <1>2 DEF LockPush, Notifying, Looking
  <2>2. pc[s] = "waiting" /\ queue' = queue
    BY <1>2 DEF LockPush
  <2>3. QED
    BY <2>1, <2>2 DEF NoLostWakeup
<1>3. ASSUME NEW p \in Producers, Enqueue(p) PROVE Goal
  <2>1. p \notin Notifying /\ Notifying' = Notifying \cup {p} /\ Looking' = Looking
    BY <1>3 DEF Enqueue, Notifying, Looking
  <2>2. Cardinality(Notifying') = Cardinality(Notifying) + 1
    BY <2>1, Finite, FS_AddElement
  <2>3. pc[s] = "waiting"
    BY <1>3 DEF Enqueue
  <2>4. Len(queue') = Len(queue) + 1
    BY <1>3 DEF Enqueue
  <2>5. QED
    BY <1>1, <2>1, <2>2, <2>3, <2>4, Finite DEF NoLostWakeup
<1>4. ASSUME NEW p \in Producers, NotifyOne(p) PROVE Goal
  <2>1. PICK c \in Consumers :
          pc[c] = "waiting" /\ pc' = [pc EXCEPT ![p] = "idle", ![c] = "lock"]
    BY <1>4 DEF NotifyOne
  <2>2. p \in Notifying /\ Notifying' = Notifying \ {p}
    BY <1>4, <2>1 DEF NotifyOne, Notifying
  <2>3. c \notin Looking /\ Looking' = Looking \cup {c}
    BY <1>4, <2>1 DEF NotifyOne, Looking, Awake
  <2>4. Cardinality(Notifying') = Cardinality(Notifying) - 1
    BY <2>2, Finite, FS_RemoveElement
  <2>5. Cardinality(Looking') = Cardinality(Looking) + 1
    BY <2>3, Finite, FS_AddElement
  <2>6. Len(queue) <= Cardinality(Notifying) + Cardinality(Looking)
    BY <2>1 DEF NoLostWakeup
  <2>7. queue' = queue
    BY <1>4 DEF NotifyOne
  <2>8. QED
    BY <1>1, <2>4, <2>5, <2>6, <2>7, Finite
<1>5. ASSUME NEW c \in Consumers, WaitAndPop(c) \/ SpuriousWakeup(c) PROVE Goal
  <2>1. Notifying' = Notifying /\ c \notin Looking /\ Looking' = Looking \cup {c}
    BY <1>5 DEF WaitAndPop, SpuriousWakeup, Notifying, Looking, Awake
  <2>2. Cardinality(Looking') = Cardinality(Looking) + 1
    BY <2>1, Finite, FS_AddElement
  <2>3. pc[s] = "waiting" /\ queue' = queue
    BY <1>5 DEF WaitAndPop, SpuriousWakeup
  <2>4. QED
    BY <1>1, <2>1, <2>2, <2>3, Finite DEF NoLostWakeup
<1>6. ASSUME NEW c \in Consumers, LockPop(c) \/ FindItem(c) PROVE Goal
  <2>1. Notifying' = Notifying /\ Looking' = Looking
    BY <1>6 DEF LockPop, FindItem, Notifying, Looking, Awake
  <2>2. pc[s] = "waiting" /\ queue' = queue
    BY <1>6 DEF LockPop, FindItem
  <2>3. QED
    BY <2>1, <2>2 DEF NoLostWakeup
<1>7. ASSUME NEW c \in Consumers, Sleep(c) PROVE Goal
  <2>1. Len(queue') = 0
    BY <1>7 DEF Sleep
  <2>2. QED
    BY <2>1, Finite
<1>8. ASSUME NEW c \in Consumers, Take(c) PROVE Goal
  <2>1. Notifying' = Notifying /\ c \in Looking /\ Looking' = Looking \ {c}
    BY <1>8 DEF Take, Notifying, Looking, Awake
  <2>2. Cardinality(Looking') = Cardinality(Looking) - 1
    BY <2>1, Finite, FS_RemoveElement
  <2>3. pc[s] = "waiting"
    BY <1>8 DEF Take
  <2>4. Len(queue') = Len(queue) - 1
    BY <1>8 DEF Take, TakeFindsItem
  <2>5. QED
    BY <1>1, <2>1, <2>2, <2>3, <2>4, Finite DEF NoLostWakeup
<1>9. ASSUME NEW c \in Consumers, TryPop(c) PROVE Goal
  <2>1. Notifying' = Notifying /\ Looking' = Looking /\ pc[s] = "waiting"
    BY <1>9 DEF TryPop, Notifying, Looking
  <2>2. Len(queue') = Len(queue) - 1
    BY <1>9 DEF TryPop
  <2>3. QED
    BY <1>1, <2>1, <2>2, Finite DEF NoLostWakeup
<1>10. CASE UNCHANGED vars
  BY <1>10 DEF vars, NoLostWakeup, Notifying, Looking
<1>11. QED
  BY <1>2, <1>3, <1>4, <1>5, <1>6, <1>7, <1>8, <1>9, <1>10 DEF Next, Push, Pop

LEMMA Invariance == Spec => []IInv
<1>1. IInv /\ [Next]_vars => IInv'
  BY TypeStep, MutexStep, PushStep, TakeStep, WakeupStep DEF IInv
<1>2. QED
  BY InitIInv, <1>1, PTL DEF Spec

-----------------------------------------------------------------------------
\* Every variable keeps its type; in particular no thread pushes too often.
THEOREM QueueTypeCorrect == Spec => []TypeOK
<1>1. IInv => TypeOK
  BY DEF IInv
<1>2. QED
  BY Invariance, <1>1, PTL

\* waitAndPop never pops an empty queue, whoever else pops meanwhile.
THEOREM QueueTakeFindsItem == Spec => []TakeFindsItem
<1>1. IInv => TakeFindsItem
  BY DEF IInv
<1>2. QED
  BY Invariance, <1>1, PTL

\* While a thread sleeps in waitAndPop, every item has a producer that is about to
\* notify or a consumer that is awake.
THEOREM QueueNoLostWakeup == Spec => []NoLostWakeup
<1>1. IInv => NoLostWakeup
  BY DEF IInv
<1>2. QED
  BY Invariance, <1>1, PTL
=============================================================================
