--------------------------- MODULE NetPoolProofs ---------------------------
(***************************************************************************)
(* The network pool is safe for every number of threads and networks: two  *)
(* threads never compute on the same network, the ready_ flags say which   *)
(* networks are in use, and the pool implements NetAllocator.              *)
(***************************************************************************)
EXTENDS NetPool, FiniteSetTheorems, TLAPS

\* ready_net_mutex_ is owned by the thread that scans, and by no other.
MutexInv ==
  \A t \in Threads : pc[t] \in Scanning <=> ready_net_mutex = t

\* A thread that takes or computes on a network has an index of the vector,
\* and the network it is about to take is still ready.
IndexInv ==
  \A t \in Threads :
    /\ pc[t] \in Computing \cup {"take", "notify"} => idx[t] \in Nets
    /\ pc[t] = "take" => ready[idx[t]]

\* compute_mutex_ is owned by the thread that forwards images.
ComputeMutexInv ==
  \A n \in Nets, t \in Threads :
    compute_mutex[n] = t <=> pc[t] = "forwarding" /\ idx[t] = n

\* Exclusive alone is not inductive: it needs that the network a thread takes
\* is still ready (IndexInv, by the mutex) and so held by nobody (FlagAgrees).
IInv == /\ TypeOK /\ MutexInv /\ IndexInv /\ ComputeMutexInv
        /\ Exclusive /\ FlagAgrees

LEMMA InitIInv == Init => IInv
  BY PoolAssumption
     DEF Init, IInv, TypeOK, MutexInv, IndexInv, ComputeMutexInv, Exclusive,
         FlagAgrees, Holds, Nets, Labels, Scanning, Computing

\* Types.
LEMMA TypeStep == TypeOK /\ IndexInv /\ [Next]_vars => TypeOK'
<1> SUFFICES ASSUME TypeOK, IndexInv, [Next]_vars PROVE TypeOK'
  OBVIOUS
<1> USE PoolAssumption DEF TypeOK, Nets, Labels, Scanning, Computing, Goto
<1>1. ASSUME NEW t \in Threads, Request(t) PROVE TypeOK'
  BY <1>1 DEF Request
<1>2. ASSUME NEW t \in Threads, Lock(t) PROVE TypeOK'
  BY <1>2 DEF Lock
<1>3. ASSUME NEW t \in Threads, SkipBusy(t) PROVE TypeOK'
  BY <1>3 DEF SkipBusy
<1>4. ASSUME NEW t \in Threads, FindReady(t) \/ Wait(t) \/ SpuriousWakeup(t)
      PROVE TypeOK'
  BY <1>4 DEF FindReady, Wait, SpuriousWakeup
<1>5. ASSUME NEW t \in Threads, Take(t) \/ Enter(t) \/ Publish(t) \/ Catch(t)
      PROVE TypeOK'
  BY <1>5 DEF IndexInv, Take, Enter, Publish, Catch
<1>6. ASSUME NEW t \in Threads, Prepare(t) \/ Throw(t)
      PROVE TypeOK'
  BY <1>6 DEF Prepare, Throw
<1>7. ASSUME NEW t \in Threads, LockNet(t) \/ ForwardProp(t)
      PROVE TypeOK'
  <2>1. compute_mutex' \in [Nets -> Threads \cup {NoThread}]
    BY <1>7 DEF LockNet, ForwardProp
  <2>2. QED
    BY <1>7, <2>1 DEF LockNet, ForwardProp
<1>8. ASSUME NEW t \in Threads, NotifyAll(t) PROVE TypeOK'
  BY <1>8 DEF NotifyAll
<1>9. CASE UNCHANGED vars
  BY <1>9 DEF vars
<1>10. QED
  BY <1>1, <1>2, <1>3, <1>4, <1>5, <1>6, <1>7, <1>8, <1>9 DEF Next, Running

LEMMA MutexStep == TypeOK /\ MutexInv /\ [Next]_vars => MutexInv'
<1> SUFFICES ASSUME TypeOK, MutexInv, [Next]_vars,
                    NEW u \in Threads
             PROVE  (pc[u] \in Scanning <=> ready_net_mutex = u)'
  BY DEF MutexInv
<1> USE PoolAssumption DEF TypeOK, MutexInv, Scanning, Computing, Labels, Goto
<1>1. ASSUME NEW t \in Threads, Request(t) \/ SkipBusy(t) \/ SpuriousWakeup(t)
      PROVE (pc[u] \in Scanning <=> ready_net_mutex = u)'
  BY <1>1 DEF Request, SkipBusy, SpuriousWakeup
<1>2. ASSUME NEW t \in Threads, Lock(t) \/ FindReady(t) \/ Take(t) \/ Wait(t)
      PROVE (pc[u] \in Scanning <=> ready_net_mutex = u)'
  BY <1>2 DEF Lock, FindReady, Take, Wait
<1>3. ASSUME NEW t \in Threads,
             \/ Enter(t) \/ Prepare(t) \/ Throw(t) \/ LockNet(t)
             \/ ForwardProp(t) \/ Publish(t) \/ Catch(t)
      PROVE (pc[u] \in Scanning <=> ready_net_mutex = u)'
  BY <1>3 DEF Enter, Prepare, Throw, LockNet, ForwardProp, Publish, Catch
<1>4. ASSUME NEW t \in Threads, NotifyAll(t)
      PROVE (pc[u] \in Scanning <=> ready_net_mutex = u)'
  BY <1>4 DEF NotifyAll
<1>5. CASE UNCHANGED vars
  BY <1>5 DEF vars
<1>6. QED
  BY <1>1, <1>2, <1>3, <1>4, <1>5 DEF Next, Running

\* While a thread is about to take a network no other thread clears its flag:
\* that takes the mutex, or being the holder of a network that is not ready.
LEMMA IndexStep == IInv /\ [Next]_vars => IndexInv'
<1> SUFFICES ASSUME IInv, [Next]_vars, NEW u \in Threads
             PROVE  /\ (pc[u] \in Computing \cup {"take", "notify"}
                          => idx[u] \in Nets)'
                    /\ (pc[u] = "take" => ready[idx[u]])'
  BY DEF IndexInv
<1> DEFINE Goal == /\ (pc[u] \in Computing \cup {"take", "notify"}
                          => idx[u] \in Nets)'
                   /\ (pc[u] = "take" => ready[idx[u]])'
<1> USE PoolAssumption
        DEF IInv, TypeOK, MutexInv, IndexInv, FlagAgrees, Holds, Scanning,
            Computing, Labels, Goto
<1>1. ASSUME NEW t \in Threads,
             Request(t) \/ SkipBusy(t) \/ SpuriousWakeup(t) \/ Lock(t)
      PROVE Goal
  BY <1>1 DEF Request, SkipBusy, SpuriousWakeup, Lock
<1>2. ASSUME NEW t \in Threads, FindReady(t) \/ Wait(t)
      PROVE Goal
  BY <1>2 DEF FindReady, Wait
<1>3. ASSUME NEW t \in Threads, Take(t)
      PROVE Goal
  <2>1. u # t => pc[u] # "take"
    BY <1>3 DEF Take
  <2>2. QED
    BY <1>3, <2>1 DEF Take
<1>4. ASSUME NEW t \in Threads, Enter(t)
      PROVE Goal
  <2>1. ~ready[idx[t]]
    BY <1>4 DEF Enter
  <2>2. QED
    BY <1>4, <2>1 DEF Enter
<1>5. ASSUME NEW t \in Threads,
             Prepare(t) \/ Throw(t) \/ LockNet(t) \/ ForwardProp(t)
      PROVE Goal
  BY <1>5 DEF Prepare, Throw, LockNet, ForwardProp
<1>6. ASSUME NEW t \in Threads, Publish(t) \/ Catch(t)
      PROVE Goal
  BY <1>6 DEF Publish, Catch
<1>7. ASSUME NEW t \in Threads, NotifyAll(t)
      PROVE Goal
  BY <1>7 DEF NotifyAll
<1>8. CASE UNCHANGED vars
  BY <1>8 DEF vars
<1>9. QED
  BY <1>1, <1>2, <1>3, <1>4, <1>5, <1>6, <1>7, <1>8 DEF Next, Running

\* The owner of compute_mutex_ changes only when its thread does, because no
\* other thread is at the same network.
LEMMA ComputeMutexStep == IInv /\ [Next]_vars => ComputeMutexInv'
<1> SUFFICES ASSUME IInv, [Next]_vars, NEW n \in Nets, NEW u \in Threads
             PROVE  (compute_mutex[n] = u <=>
                       pc[u] = "forwarding" /\ idx[u] = n)'
  BY DEF ComputeMutexInv
<1> DEFINE Goal == (compute_mutex[n] = u <=>
                      pc[u] = "forwarding" /\ idx[u] = n)'
<1> USE PoolAssumption
        DEF IInv, TypeOK, ComputeMutexInv, Scanning, Computing, Labels, Goto
<1>1. ASSUME NEW t \in Threads,
             \/ Request(t) \/ SkipBusy(t) \/ SpuriousWakeup(t) \/ Lock(t)
             \/ FindReady(t) \/ Wait(t)
      PROVE Goal
  BY <1>1 DEF Request, SkipBusy, SpuriousWakeup, Lock, FindReady, Wait
<1>2. ASSUME NEW t \in Threads,
             \/ Take(t) \/ Enter(t) \/ Publish(t) \/ Catch(t)
             \/ Prepare(t) \/ Throw(t)
      PROVE Goal
  BY <1>2 DEF Take, Enter, Publish, Catch, Prepare, Throw
<1>3. ASSUME NEW t \in Threads, LockNet(t)
      PROVE Goal
  <2>1. idx[t] \in Nets
    BY <1>3 DEF LockNet, IndexInv
  <2>2. QED
    BY <1>3, <2>1 DEF LockNet
<1>4. ASSUME NEW t \in Threads, ForwardProp(t)
      PROVE Goal
  <2>1. idx[t] \in Nets
    BY <1>4 DEF ForwardProp, IndexInv
  <2>2. compute_mutex[idx[t]] = t
    BY <1>4, <2>1 DEF ForwardProp
  <2>3. QED
    BY <1>4, <2>1, <2>2 DEF ForwardProp
<1>5. ASSUME NEW t \in Threads, NotifyAll(t)
      PROVE Goal
  BY <1>5 DEF NotifyAll
<1>6. CASE UNCHANGED vars
  BY <1>6 DEF vars
<1>7. QED
  BY <1>1, <1>2, <1>3, <1>4, <1>5, <1>6 DEF Next, Running

\* Only Take makes a thread a holder, of a network that was ready and that
\* therefore nobody held; only Publish and Catch end it.
LEMMA HolderStep == IInv /\ [Next]_vars => Exclusive' /\ FlagAgrees'
<1> SUFFICES ASSUME IInv, [Next]_vars PROVE Exclusive' /\ FlagAgrees'
  OBVIOUS
<1> USE PoolAssumption
        DEF IInv, TypeOK, Exclusive, FlagAgrees, Holds, Scanning, Computing,
            Labels, Goto
<1>1. ASSUME NEW t \in Threads,
             \/ Request(t) \/ SkipBusy(t) \/ SpuriousWakeup(t) \/ Lock(t)
             \/ FindReady(t) \/ Wait(t)
      PROVE Exclusive' /\ FlagAgrees'
  <2>1. /\ ready' = ready
        /\ \A u \in Threads, n \in Nets : Holds(u, n)' <=> Holds(u, n)
    BY <1>1 DEF Request, SkipBusy, SpuriousWakeup, Lock, FindReady, Wait
  <2>2. QED
    BY <2>1
<1>2. ASSUME NEW t \in Threads, Take(t)
      PROVE Exclusive' /\ FlagAgrees'
  <2>1. /\ idx[t] \in Nets
        /\ ready[idx[t]]
    BY <1>2 DEF Take, IndexInv
  <2>2. /\ ready' = [ready EXCEPT ![idx[t]] = FALSE]
        /\ \A u \in Threads, n \in Nets :
             Holds(u, n)' <=> Holds(u, n) \/ (u = t /\ n = idx[t])
    BY <1>2 DEF Take
  <2>3. \A u \in Threads : ~Holds(u, idx[t])
    BY <2>1
  <2>4. QED
    BY <2>1, <2>2, <2>3
<1>3. ASSUME NEW t \in Threads, Enter(t)
      PROVE Exclusive' /\ FlagAgrees'
  <2>1. /\ idx[t] \in Nets
        /\ ~ready[idx[t]]
    BY <1>3 DEF Enter, IndexInv
  <2>2. /\ ready' = ready
        /\ \A u \in Threads, n \in Nets : Holds(u, n)' <=> Holds(u, n)
    BY <1>3, <2>1 DEF Enter
  <2>3. QED
    BY <2>2
<1>4. ASSUME NEW t \in Threads,
             Prepare(t) \/ Throw(t) \/ LockNet(t) \/ ForwardProp(t)
      PROVE Exclusive' /\ FlagAgrees'
  <2>1. /\ ready' = ready
        /\ \A u \in Threads, n \in Nets : Holds(u, n)' <=> Holds(u, n)
    BY <1>4 DEF Prepare, Throw, LockNet, ForwardProp
  <2>2. QED
    BY <2>1
<1>5. ASSUME NEW t \in Threads, Publish(t) \/ Catch(t)
      PROVE Exclusive' /\ FlagAgrees'
  <2>1. idx[t] \in Nets /\ Holds(t, idx[t])
    BY <1>5 DEF Publish, Catch, IndexInv
  <2>2. /\ ready' = [ready EXCEPT ![idx[t]] = TRUE]
        /\ \A u \in Threads, n \in Nets :
             Holds(u, n)' <=> Holds(u, n) /\ u # t
    BY <1>5 DEF Publish, Catch
  <2>3. \A u \in Threads : Holds(u, idx[t]) => u = t
    BY <2>1
  <2>4. \A n \in Nets : Holds(t, n) => n = idx[t]
    OBVIOUS
  <2>5. QED
    BY <2>1, <2>2, <2>3, <2>4
<1>6. ASSUME NEW t \in Threads, NotifyAll(t)
      PROVE Exclusive' /\ FlagAgrees'
  <2>1. /\ ready' = ready
        /\ \A u \in Threads, n \in Nets : Holds(u, n)' <=> Holds(u, n)
    BY <1>6 DEF NotifyAll
  <2>2. QED
    BY <2>1
<1>7. CASE UNCHANGED vars
  BY <1>7 DEF vars
<1>8. QED
  BY <1>1, <1>2, <1>3, <1>4, <1>5, <1>6, <1>7 DEF Next, Running

LEMMA NextIInv == IInv /\ [Next]_vars => IInv'
  BY TypeStep, MutexStep, IndexStep, ComputeMutexStep, HolderStep DEF IInv

\* The inductive invariant holds in every reachable state.
THEOREM Invariance == Spec => []IInv
  BY InitIInv, NextIInv, PTL DEF Spec

\* The variables of the pool keep their types (Labels of every thread, indices
\* within one past the end of nets_).
THEOREM TypeCorrect == Spec => []TypeOK
  BY Invariance, PTL DEF IInv

\* Two threads never compute on the same network.
THEOREM PoolExclusive == Spec => []Exclusive
  BY Invariance, PTL DEF IInv

\* A network is ready exactly when nobody computes on it: none is leaked.
THEOREM PoolFlagAgrees == Spec => []FlagAgrees
  BY Invariance, PTL DEF IInv

\* compute_mutex_ is free whenever a thread is about to lock it: the pool makes
\* the mutex redundant.
THEOREM PoolUncontended == Spec => []NetUncontended
<1>1. IInv => NetUncontended
  <2> SUFFICES ASSUME IInv, NEW t \in Threads, pc[t] = "forward",
                      compute_mutex[idx[t]] # NoThread
               PROVE  FALSE
    BY DEF NetUncontended
  <2>1. idx[t] \in Nets
    BY DEF IInv, IndexInv, Computing
  <2>2. PICK u \in Threads : compute_mutex[idx[t]] = u
    BY <2>1 DEF IInv, TypeOK
  <2>3. pc[u] = "forwarding" /\ idx[u] = idx[t]
    BY <2>1, <2>2 DEF IInv, ComputeMutexInv
  <2>4. u = t
    BY <2>1, <2>3 DEF IInv, Exclusive, Holds, Computing
  <2>5. QED
    BY <2>3, <2>4
<1>2. QED
  BY <1>1, Invariance, PTL

-----------------------------------------------------------------------------
\* Who holds what changes only when a network is taken or made ready.
LEMMA AllocatorStep == IInv /\ [Next]_vars => [Allocator!Next]_Held
<1> SUFFICES ASSUME IInv, [Next]_vars
             PROVE  Held' = Held \/ Allocator!Next
  BY DEF Allocator!Next
<1> USE PoolAssumption DEF IInv, TypeOK, Held, Computing, Scanning, Labels, Goto
<1>1. ASSUME NEW t \in Threads,
             \/ Request(t) \/ SkipBusy(t) \/ SpuriousWakeup(t) \/ Lock(t)
             \/ FindReady(t) \/ Wait(t)
      PROVE Held' = Held
  BY <1>1 DEF Request, SkipBusy, SpuriousWakeup, Lock, FindReady, Wait
<1>2. ASSUME NEW t \in Threads, Take(t)
      PROVE Allocator!Acquire(t)
  <2>1. idx[t] \in Nets /\ ready[idx[t]]
    BY <1>2 DEF Take, IndexInv
  <2>2. Held[t] = 0
    BY <1>2 DEF Take
  <2>3. \A u \in Threads : Held[u] # idx[t]
    <3> SUFFICES ASSUME NEW u \in Threads, Held[u] = idx[t] PROVE FALSE
      OBVIOUS
    <3>1. pc[u] \in Computing /\ idx[u] = idx[t]
      BY <2>1 DEF Nets
    <3>2. QED
      BY <2>1, <3>1 DEF FlagAgrees, Holds
  <2>4. Held' = [Held EXCEPT ![t] = idx[t]]
    BY <1>2 DEF Take
  <2>5. QED
    BY <2>1, <2>2, <2>3, <2>4 DEF Allocator!Acquire, Allocator!Free
<1>3. ASSUME NEW t \in Threads,
             Enter(t) \/ Prepare(t) \/ Throw(t) \/ LockNet(t) \/ ForwardProp(t)
      PROVE Held' = Held
  BY <1>3 DEF Enter, Prepare, Throw, LockNet, ForwardProp
<1>4. ASSUME NEW t \in Threads, Publish(t) \/ Catch(t)
      PROVE Allocator!Release(t)
  <2>1. idx[t] \in Nets
    BY <1>4 DEF Publish, Catch, IndexInv
  <2>2. Held[t] # 0
    BY <1>4, <2>1 DEF Publish, Catch, Nets
  <2>3. Held' = [Held EXCEPT ![t] = 0]
    BY <1>4 DEF Publish, Catch
  <2>4. QED
    BY <2>2, <2>3 DEF Allocator!Release
<1>5. ASSUME NEW t \in Threads, NotifyAll(t)
      PROVE Held' = Held
  BY <1>5 DEF NotifyAll
<1>6. CASE UNCHANGED vars
  BY <1>6 DEF vars
<1>7. QED
  BY <1>1, <1>2, <1>3, <1>4, <1>5, <1>6 DEF Next, Running, Allocator!Next

\* The pool implements the allocator: each step is an acquire of a network
\* nobody holds, a release, or leaves who holds what unchanged.
THEOREM PoolImplementsAllocator == Spec => ImplementsAllocator
<1>1. Init => Allocator!Init
  BY DEF Init, Allocator!Init, Held, Computing
<1>2. QED
  BY <1>1, AllocatorStep, Invariance, PTL
     DEF Spec, ImplementsAllocator, Allocator!Spec

-----------------------------------------------------------------------------
(* With a network for each thread nobody waits.                              *)

\* What a scan has seen: the networks before idx[t] were found busy, each in the
\* hands of a different thread.  Those threads may have let go of them since, but
\* while t has ready_net_mutex_ they cannot have taken one of them again.
ScanInv ==
  \A t \in Threads : pc[t] = "scan" =>
    \E S \in SUBSET (Threads \ {t}) :
      /\ IsFiniteSet(S) /\ Cardinality(S) = idx[t] - 1
      /\ \A u \in S, n \in Nets : Holds(u, n) => n < idx[t]

\* Only Take makes a thread a holder, and it needs the mutex.
LEMMA HoldersDuringScan ==
  ASSUME IInv, Next, NEW t \in Threads, pc[t] = "scan", pc'[t] = "scan"
  PROVE  \A u \in Threads, n \in Nets : Holds(u, n)' => Holds(u, n)
<1> SUFFICES ASSUME NEW u \in Threads, NEW n \in Nets, Holds(u, n)'
             PROVE  Holds(u, n)
  OBVIOUS
<1> USE PoolAssumption
        DEF IInv, TypeOK, MutexInv, IndexInv, Holds, Scanning, Computing,
            Labels, Goto
<1>1. PICK v \in Threads : Request(v) \/ Running(v) \/ SpuriousWakeup(v)
  BY DEF Next
<1>2. CASE \/ Request(v) \/ SkipBusy(v) \/ SpuriousWakeup(v) \/ Lock(v)
           \/ FindReady(v) \/ Wait(v)
  BY <1>2 DEF Request, SkipBusy, SpuriousWakeup, Lock, FindReady, Wait
<1>3. CASE Take(v)
  BY <1>3 DEF Take
<1>4. CASE \/ Enter(v) \/ Prepare(v) \/ Throw(v) \/ LockNet(v)
           \/ ForwardProp(v) \/ Publish(v) \/ Catch(v)
  BY <1>4 DEF Enter, Prepare, Throw, LockNet, ForwardProp, Publish, Catch
<1>5. CASE NotifyAll(v)
  BY <1>5 DEF NotifyAll
<1>6. QED
  BY <1>1, <1>2, <1>3, <1>4, <1>5 DEF Running

\* A network that is found busy has a holder, who is none of those seen before.
LEMMA ScanStep == IInv /\ ScanInv /\ [Next]_vars => ScanInv'
<1> SUFFICES ASSUME IInv, ScanInv, [Next]_vars,
                    NEW t \in Threads, pc'[t] = "scan"
             PROVE  \E S \in SUBSET (Threads \ {t}) :
                      /\ IsFiniteSet(S) /\ Cardinality(S) = idx'[t] - 1
                      /\ \A u \in S, n \in Nets : Holds(u, n)' => n < idx'[t]
  BY DEF ScanInv
<1> DEFINE Seen(S) == /\ IsFiniteSet(S) /\ Cardinality(S) = idx'[t] - 1
                      /\ \A u \in S, n \in Nets : Holds(u, n)' => n < idx'[t]
<1>1. CASE UNCHANGED vars
  BY <1>1 DEF vars, ScanInv, Holds
<1>2. CASE Next /\ pc[t] # "scan"
  <2>1. Lock(t)
    BY <1>2, PoolAssumption
       DEF Next, Running, Request, Lock, SkipBusy, FindReady, Take, Wait,
           SpuriousWakeup, Enter, Prepare, Throw, LockNet, ForwardProp, Publish,
           NotifyAll, Catch, Goto, IInv, TypeOK, Labels, Scanning, Computing
  <2>2. idx'[t] = 1
    BY <2>1 DEF Lock, IInv, TypeOK
  <2>3. Seen({})
    BY <2>2, FS_EmptySet
  <2>4. QED
    BY <2>3
<1>3. CASE Next /\ pc[t] = "scan"
  <2>1. PICK S \in SUBSET (Threads \ {t}) :
          /\ IsFiniteSet(S) /\ Cardinality(S) = idx[t] - 1
          /\ \A u \in S, n \in Nets : Holds(u, n) => n < idx[t]
    BY <1>3 DEF ScanInv
  <2>2. \A u \in Threads, n \in Nets : Holds(u, n)' => Holds(u, n)
    BY <1>3, HoldersDuringScan
  <2>3. CASE SkipBusy(t)
    <3>1. /\ idx[t] \in Nets /\ ~ready[idx[t]] /\ idx'[t] = idx[t] + 1
          /\ idx[t] \in Int
      BY <2>3 DEF SkipBusy, IInv, TypeOK, Nets
    <3>2. PICK u \in Threads : Holds(u, idx[t])
      BY <3>1 DEF IInv, FlagAgrees
    <3>3. u # t /\ u \notin S
      BY <1>3, <2>1, <3>1, <3>2 DEF Holds, Computing
    <3>4. IsFiniteSet(S \cup {u}) /\ Cardinality(S \cup {u}) = idx'[t] - 1
      <4>1. S \in SUBSET Threads /\ Cardinality(S) \in Int
        BY <2>1, <3>1
      <4>2. /\ IsFiniteSet(S \cup {u})
            /\ Cardinality(S \cup {u}) = Cardinality(S) + 1
        BY <2>1, <3>3, FS_AddElement
      <4>3. QED
        BY <2>1, <3>1, <4>1, <4>2
    <3>5. \A v \in S \cup {u}, n \in Nets : Holds(v, n)' => n < idx'[t]
      <4> SUFFICES ASSUME NEW v \in S \cup {u}, NEW n \in Nets, Holds(v, n)'
                   PROVE  n < idx[t] + 1
        BY <3>1
      <4>1. Holds(v, n) /\ n \in Int
        BY <2>2 DEF Nets
      <4>2. CASE v \in S
        BY <2>1, <3>1, <4>1, <4>2
      <4>3. CASE v = u
        BY <3>1, <3>2, <4>1, <4>3 DEF Holds
      <4>4. QED
        BY <4>2, <4>3
    <3>6. QED
      BY <3>3, <3>4, <3>5
  <2>4. CASE ~SkipBusy(t)
    <3>1. idx'[t] = idx[t]
      BY <1>3, <2>4, PoolAssumption
         DEF Next, Running, Request, Lock, SkipBusy, FindReady, Take, Wait,
             SpuriousWakeup, Enter, Prepare, Throw, LockNet, ForwardProp,
             Publish, NotifyAll, Catch, Goto, IInv, TypeOK
    <3>2. Seen(S)
      BY <2>1, <2>2, <3>1
    <3>3. QED
      BY <3>2
  <2>5. QED
    BY <2>3, <2>4
<1>4. QED
  BY <1>1, <1>2, <1>3

\* A scan that finds nothing has seen as many other threads as there are networks.
LEMMA NoWaitingStep ==
  ASSUME IsFiniteSet(Threads), Cardinality(Threads) <= PoolSize
  PROVE  IInv /\ ScanInv /\ NoWaiting /\ [Next]_vars => NoWaiting'
<1> SUFFICES ASSUME IInv, ScanInv, NoWaiting, [Next]_vars,
                    NEW t \in Threads, pc'[t] = "waiting"
             PROVE  FALSE
  BY DEF NoWaiting
<1>1. Wait(t)
  BY PoolAssumption
     DEF NoWaiting, vars, Next, Running, Request, Lock, SkipBusy, FindReady,
         Take, Wait, SpuriousWakeup, Enter, Prepare, Throw, LockNet,
         ForwardProp, Publish, NotifyAll, Catch, Goto, IInv, TypeOK, Labels,
         Scanning, Computing
<1>2. pc[t] = "scan" /\ idx[t] = PoolSize + 1
  BY <1>1, PoolAssumption DEF Wait, Goto, IInv, TypeOK, Nets
<1>3. PICK S \in SUBSET (Threads \ {t}) : Cardinality(S) = idx[t] - 1
  BY <1>2 DEF ScanInv
<1>4. Cardinality(S) = PoolSize
  BY <1>2, <1>3, PoolAssumption
<1>5. /\ IsFiniteSet(Threads \ {t})
      /\ Cardinality(Threads \ {t}) = Cardinality(Threads) - 1
  BY FS_RemoveElement
<1>6. Cardinality(S) <= Cardinality(Threads \ {t})
  BY <1>3, <1>5, FS_Subset
<1>7. Cardinality(Threads) \in Nat
  BY FS_CardinalityType
<1>8. QED
  BY <1>4, <1>5, <1>6, <1>7, PoolAssumption

\* In a pool with at least as many networks as threads no thread ever waits, and
\* so the notification that Catch leaves out is missed by nobody.
THEOREM PoolNoWaiting ==
  ASSUME IsFiniteSet(Threads), Cardinality(Threads) <= PoolSize
  PROVE  Spec => []NoWaiting
<1>1. Init => ScanInv /\ NoWaiting
  BY DEF Init, ScanInv, NoWaiting
<1>2. QED
  BY <1>1, ScanStep, NoWaitingStep, Invariance, PTL DEF Spec
=============================================================================
