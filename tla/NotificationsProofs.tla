------------------------ MODULE NotificationsProofs ------------------------
(***************************************************************************)
(* However many monitors, guests and web servers there are: notifications  *)
(* of one kind arrive in the order of their posting and none twice, and    *)
(* only sends that overlap end the process.                                *)
(***************************************************************************)
EXTENDS Notifications, SequenceTheorems, FiniteSetTheorems, TLAPS

\* What is in a queue, on its way or received are numbers of notifications.  Whatever
\* of one kind is further on its way was posted before.
Before(l, X, Y) == \A x \in X, y \in Y : l[x] = l[y] => x < y

Ordered(l, q) == \A i, j \in DOMAIN q : i < j /\ l[q[i]] = l[q[j]] => q[i] < q[j]

Held(m)   == {held[m]} \ {0}
Passed(s) == ToSet(received[s]) \cup ToSet(pipe[s])

QueueInv ==
  \A k \in Kinds : Ordered(log, queue[k]) /\ \A n \in ToSet(queue[k]) : log[n] = k

HeldInv ==
  \A m \in Monitored : \A n \in Held(m) : log[n] = m /\ Before(log, {n}, ToSet(queue[m]))

PipeInv ==
  \A s \in Subscribers :
    /\ Ordered(log, pipe[s]) /\ Before(log, ToSet(received[s]), ToSet(pipe[s]))
    /\ \A m \in Monitored : Before(log, Passed(s), Held(m))
    /\ \A k \in Kinds : Before(log, Passed(s), ToSet(queue[k]))

\* Once two sends have overlapped, nothing is said of what is on its way.
FlowInv == QueueInv /\ HeldInv /\ (overlapped \/ PipeInv)

\* Who holds something has popped it, and nothing is posted before serve_ runs.
PcInv == \A r \in Readers : pc[r] \in {"popped", "returned", "sending"} <=> held[r] # 0

SocketInv == (serving => notify_socket) /\ (log # <<>> => serving)

OverlapInv == terminated => overlapped

IInv == TypeOK /\ PcInv /\ SocketInv /\ OneSubscriber /\ OverlapInv /\ FlowInv

-----------------------------------------------------------------------------
(* Lists of numbers *)

LEMMA AppendedSet ==
  ASSUME NEW S, NEW q \in Seq(S), NEW e \in S
  PROVE  Append(q, e) \in Seq(S) /\ ToSet(Append(q, e)) = ToSet(q) \cup {e}
<1>1. /\ Append(q, e) \in Seq(S) /\ Len(Append(q, e)) = Len(q) + 1
      /\ \A i \in 1..Len(q) : Append(q, e)[i] = q[i]
      /\ Append(q, e)[Len(q) + 1] = e
  BY AppendProperties
<1>2. Len(q) \in Nat /\ DOMAIN q = 1..Len(q) /\ DOMAIN Append(q, e) = 1..(Len(q) + 1)
  BY <1>1, LenProperties
<1>3. QED
  BY <1>1, <1>2 DEF ToSet

LEMMA TailSet ==
  ASSUME NEW S, NEW q \in Seq(S), q # <<>>
  PROVE  /\ Head(q) \in S /\ Tail(q) \in Seq(S) /\ Head(q) \in ToSet(q)
         /\ ToSet(Tail(q)) \subseteq ToSet(q)
         /\ ToSet(q) = {Head(q)} \cup ToSet(Tail(q))
<1>1. /\ Head(q) \in S /\ Tail(q) \in Seq(S) /\ Len(Tail(q)) = Len(q) - 1
      /\ \A i \in 1..Len(Tail(q)) : Tail(q)[i] = q[i + 1]
  BY HeadTailProperties
<1>2. /\ Len(q) \in Nat \ {0} /\ DOMAIN q = 1..Len(q) /\ Head(q) = q[1]
      /\ DOMAIN Tail(q) = 1..(Len(q) - 1)
  BY <1>1, LenProperties, EmptySeq
<1>3. \A i \in DOMAIN q : i = 1 \/ (i - 1 \in DOMAIN Tail(q) /\ Tail(q)[i - 1] = q[i])
  BY <1>1, <1>2
<1>4. \A i \in DOMAIN Tail(q) : i + 1 \in DOMAIN q /\ Tail(q)[i] = q[i + 1]
  BY <1>1, <1>2
<1>5. 1 \in DOMAIN q
  BY <1>2
<1>6. ToSet(q) \subseteq {Head(q)} \cup ToSet(Tail(q))
  BY <1>2, <1>3 DEF ToSet
<1>7. ToSet(Tail(q)) \subseteq ToSet(q) /\ Head(q) \in ToSet(q)
  BY <1>2, <1>4, <1>5 DEF ToSet
<1>8. QED
  BY <1>1, <1>6, <1>7

LEMMA OrderedAppend ==
  ASSUME NEW l, NEW S, NEW q \in Seq(S), NEW e \in S, Ordered(l, q), Before(l, ToSet(q), {e})
  PROVE  Ordered(l, Append(q, e))
<1>1. /\ Append(q, e) \in Seq(S) /\ Len(Append(q, e)) = Len(q) + 1
      /\ \A i \in 1..Len(q) : Append(q, e)[i] = q[i]
      /\ Append(q, e)[Len(q) + 1] = e
  BY AppendProperties
<1>2. Len(q) \in Nat /\ DOMAIN q = 1..Len(q) /\ DOMAIN Append(q, e) = 1..(Len(q) + 1)
  BY <1>1, LenProperties
<1>3. SUFFICES ASSUME NEW i \in 1..(Len(q) + 1), NEW j \in 1..(Len(q) + 1), i < j,
                      l[Append(q, e)[i]] = l[Append(q, e)[j]]
               PROVE  Append(q, e)[i] < Append(q, e)[j]
  BY <1>2 DEF Ordered
<1>4. i \in DOMAIN q /\ Append(q, e)[i] = q[i]
  BY <1>1, <1>2, <1>3
<1>5. CASE j \in DOMAIN q
  BY <1>1, <1>2, <1>3, <1>4, <1>5 DEF Ordered
<1>6. CASE j = Len(q) + 1
  <2>1. q[i] \in ToSet(q)
    BY <1>4 DEF ToSet
  <2>2. QED
    BY <1>1, <1>3, <1>4, <1>6, <2>1 DEF Before
<1>7. QED
  BY <1>2, <1>5, <1>6

LEMMA OrderedTail ==
  ASSUME NEW l, NEW S, NEW q \in Seq(S), q # <<>>, Ordered(l, q)
  PROVE  Ordered(l, Tail(q)) /\ Before(l, {Head(q)}, ToSet(Tail(q)))
<1>1. /\ Tail(q) \in Seq(S) /\ Len(Tail(q)) = Len(q) - 1
      /\ \A i \in 1..Len(Tail(q)) : Tail(q)[i] = q[i + 1]
  BY HeadTailProperties
<1>2. /\ Len(q) \in Nat \ {0} /\ DOMAIN q = 1..Len(q) /\ Head(q) = q[1]
      /\ DOMAIN Tail(q) = 1..(Len(q) - 1)
  BY <1>1, LenProperties, EmptySeq
<1>3. \A i \in DOMAIN Tail(q) : i + 1 \in DOMAIN q /\ Tail(q)[i] = q[i + 1] /\ i \in Nat
  BY <1>1, <1>2
<1>4. Ordered(l, Tail(q))
  <2> SUFFICES ASSUME NEW i \in DOMAIN Tail(q), NEW j \in DOMAIN Tail(q), i < j,
                      l[Tail(q)[i]] = l[Tail(q)[j]]
               PROVE  Tail(q)[i] < Tail(q)[j]
    BY DEF Ordered
  <2>1. i + 1 < j + 1
    BY <1>3
  <2>2. QED
    BY <1>3, <2>1 DEF Ordered
<1>5. Before(l, {Head(q)}, ToSet(Tail(q)))
  <2> SUFFICES ASSUME NEW j \in DOMAIN Tail(q), l[Head(q)] = l[Tail(q)[j]]
               PROVE  Head(q) < Tail(q)[j]
    BY DEF Before, ToSet
  <2>1. 1 \in DOMAIN q /\ 1 < j + 1 /\ j + 1 \in DOMAIN q
    BY <1>2, <1>3
  <2>2. QED
    BY <1>2, <1>3, <2>1 DEF Ordered
<1>6. QED
  BY <1>4, <1>5

\* What is said of notifications stays true when others are posted.
LEMMA LogGrows ==
  ASSUME NEW l, NEW l2, NEW D, \A n \in D : l2[n] = l[n]
  PROVE  /\ \A X, Y \in SUBSET D : Before(l, X, Y) => Before(l2, X, Y)
         /\ \A q \in Seq(D) : Ordered(l, q) => Ordered(l2, q)
<1>1. \A X, Y \in SUBSET D : Before(l, X, Y) => Before(l2, X, Y)
  BY DEF Before
<1>2. ASSUME NEW q \in Seq(D), Ordered(l, q) PROVE Ordered(l2, q)
  <2>1. \A i \in DOMAIN q : q[i] \in D
    BY LenProperties
  <2>2. QED
    BY <1>2, <2>1 DEF Ordered
<1>3. QED
  BY <1>1, <1>2

-----------------------------------------------------------------------------
(* The state *)

LEMMA InitIInv == Init => IInv
<1> SUFFICES ASSUME Init PROVE IInv
  OBVIOUS
<1> USE NotificationAssumption DEF Init
<1>1. TypeOK
  <2>1. <<>> \in Seq(DOMAIN log) /\ log \in Seq(Kinds) /\ Len(log) = 0
    BY EmptySeq
  <2>2. /\ Len(log) <= MaxPosts
        /\ queue \in [Kinds -> Seq(DOMAIN log)] /\ sub_count \in [Kinds -> Nat]
        /\ held \in [Readers -> 0..Len(log)]
        /\ pipe \in [Subscribers -> Seq(DOMAIN log)]
        /\ received \in [Subscribers -> Seq(DOMAIN log)]
    BY <2>1
  <2>3. QED
    BY <2>1, <2>2 DEF TypeOK
<1>2. PcInv /\ SocketInv /\ OverlapInv
  BY DEF PcInv, SocketInv, OverlapInv
<1>3. OneSubscriber
  <2> DEFINE In(k) == {r \in Readers : Queue(r) = k /\ pc[r] \in {"inside", "popped"}}
  <2> SUFFICES ASSUME NEW k \in Kinds
               PROVE  sub_count[k] = Cardinality(In(k)) /\ sub_count[k] <= 1
    BY DEF OneSubscriber
  <2>1. In(k) = {}
    OBVIOUS
  <2>2. sub_count[k] = 0 /\ Cardinality({}) = 0
    BY FS_EmptySet
  <2> HIDE DEF In
  <2>3. QED
    BY <2>1, <2>2
<1>4. FlowInv
  <2>1. ToSet(<<>>) = {}
    BY DEF ToSet
  <2>2. \A m \in Monitored : Held(m) = {}
    BY DEF Held, Readers
  <2>3. /\ \A k \in Kinds : ToSet(queue[k]) = {} /\ Ordered(log, queue[k])
        /\ \A s \in Subscribers : /\ ToSet(received[s]) = {} /\ ToSet(pipe[s]) = {}
                                 /\ Ordered(log, pipe[s])
    BY <2>1 DEF Ordered
  <2>4. QueueInv /\ HeldInv /\ PipeInv
    BY <2>2, <2>3 DEF QueueInv, HeldInv, PipeInv, Passed, Before
  <2>5. QED
    BY <2>4 DEF FlowInv
<1>5. QED
  BY <1>1, <1>2, <1>3, <1>4 DEF IInv

\* Everything that is queued, held, sent or received is the number of a notification.
LEMMA Numbers ==
  ASSUME TypeOK
  PROVE  /\ Len(log) \in Nat /\ DOMAIN log = 1..Len(log)
         /\ \A k \in Kinds : ToSet(queue[k]) \subseteq DOMAIN log
         /\ \A r \in Readers : held[r] \in 0..Len(log)
         /\ \A m \in Monitored : Held(m) \subseteq DOMAIN log
         /\ \A s \in Subscribers : /\ Passed(s) \subseteq DOMAIN log
                                  /\ ToSet(received[s]) \subseteq Passed(s)
                                  /\ ToSet(pipe[s]) \subseteq Passed(s)
<1>1. Len(log) \in Nat /\ DOMAIN log = 1..Len(log)
  BY LenProperties DEF TypeOK
<1>2. \A S : \A q \in Seq(S) : ToSet(q) \subseteq S
  BY LenProperties DEF ToSet
<1>3. QED
  BY <1>1, <1>2 DEF TypeOK, Passed, Held, Readers

LEMMA ReadersFinite ==
  IsFiniteSet(Readers) /\ \A T \in SUBSET Readers : IsFiniteSet(T)
<1>1. IsFiniteSet(Readers)
  BY NotificationAssumption, FS_Union DEF Readers
<1>2. QED
  BY <1>1, FS_Subset

\* Of what is held, only that it is put away matters.
LEMMA FlowFrame ==
  ASSUME FlowInv, UNCHANGED <<log, queue, pipe, received>>, overlapped => overlapped',
         \A m \in Monitored : held'[m] \in {held[m], 0}
  PROVE  FlowInv'
<1>1. \A m \in Monitored : Held(m)' \subseteq Held(m)
  BY DEF Held
<1>2. \A s \in Subscribers : Passed(s)' = Passed(s)
  BY DEF Passed
<1>3. QueueInv' /\ HeldInv' /\ (PipeInv => PipeInv')
  BY <1>1, <1>2 DEF FlowInv, QueueInv, HeldInv, PipeInv, Before
<1>4. QED
  BY <1>3 DEF FlowInv

\* The counts stay right if nobody enters or leaves waitAndPop.
LEMMA CountFrame ==
  ASSUME OneSubscriber, UNCHANGED sub_count,
         \A r \in Readers :
           pc'[r] \in {"inside", "popped"} <=> pc[r] \in {"inside", "popped"}
  PROVE  OneSubscriber'
<1> SUFFICES ASSUME NEW k \in Kinds
             PROVE  LET inside == {r \in Readers :
                                     Queue(r) = k /\ pc'[r] \in {"inside", "popped"}}
                    IN sub_count[k] = Cardinality(inside) /\ sub_count[k] <= 1
  BY DEF OneSubscriber
<1>1. {r \in Readers : Queue(r) = k /\ pc'[r] \in {"inside", "popped"}}
      = {r \in Readers : Queue(r) = k /\ pc[r] \in {"inside", "popped"}}
  OBVIOUS
<1>2. QED
  BY <1>1 DEF OneSubscriber

LEMMA SocketStep ==
  ASSUME IInv, StoreSocket \/ Serve
  PROVE  IInv'
<1>1. /\ UNCHANGED <<queue_vars, reader_vars, overlapped, terminated, sub_vars>>
      /\ notify_socket' \in BOOLEAN /\ serving' \in BOOLEAN
      /\ (serving' => notify_socket') /\ (serving => serving')
  BY DEF StoreSocket, Serve, IInv, TypeOK, SocketInv, queue_vars, reader_vars,
         sub_vars
<1> USE DEF queue_vars, reader_vars, sub_vars
<1>2. TypeOK'
  BY <1>1 DEF IInv, TypeOK
<1>3. PcInv' /\ OverlapInv' /\ SocketInv'
  BY <1>1 DEF IInv, PcInv, OverlapInv, SocketInv
<1>4. OneSubscriber'
  BY <1>1, CountFrame DEF IInv
<1>5. FlowInv'
  BY <1>1, FlowFrame DEF IInv
<1>6. QED
  BY <1>2, <1>3, <1>4, <1>5 DEF IInv

LEMMA PostStep == ASSUME IInv, NEW k \in Kinds, Post(k) PROVE IInv'
<1> DEFINE n == Len(log) + 1
<1>1. TypeOK /\ QueueInv /\ HeldInv /\ (overlapped \/ PipeInv)
  BY DEF IInv, FlowInv
<1>2. /\ serving /\ Len(log) < MaxPosts /\ log' = Append(log, k)
      /\ queue' = [queue EXCEPT ![k] = Append(@, n)]
      /\ UNCHANGED <<server_vars, sub_count, reader_vars, overlapped, terminated, sub_vars>>
  BY DEF Post
<1> USE DEF server_vars, reader_vars, sub_vars
<1>3. Len(log) \in Nat /\ DOMAIN log = 1..Len(log)
  BY <1>1, Numbers
<1>4. /\ log' \in Seq(Kinds) /\ Len(log') = n /\ log'[n] = k /\ DOMAIN log' = 1..n
      /\ \A i \in DOMAIN log : log'[i] = log[i]
  <2>1. log \in Seq(Kinds)
    BY <1>1 DEF TypeOK
  <2>2. QED
    BY <1>2, <1>3, <2>1, AppendProperties, LenProperties
<1>5. n \in DOMAIN log' /\ DOMAIN log \subseteq DOMAIN log' /\ n \notin DOMAIN log
  BY <1>3, <1>4
<1>6. \A q \in Seq(DOMAIN log) : q \in Seq(DOMAIN log')
  BY <1>5, SeqMonotonic
<1>7. /\ queue[k] \in Seq(DOMAIN log) /\ queue[k] \in Seq(DOMAIN log')
      /\ queue'[k] = Append(queue[k], n)
      /\ \A i \in Kinds : i # k => queue'[i] = queue[i]
  BY <1>1, <1>2, <1>6 DEF TypeOK
<1>8. queue'[k] \in Seq(DOMAIN log') /\ ToSet(queue'[k]) = ToSet(queue[k]) \cup {n}
  BY <1>5, <1>7, AppendedSet
<1>9. TypeOK'
  <2>1. queue' \in [Kinds -> Seq(DOMAIN log')]
    BY <1>1, <1>2, <1>6, <1>7, <1>8 DEF TypeOK
  <2>2. /\ pipe' \in [Subscribers -> Seq(DOMAIN log')]
        /\ received' \in [Subscribers -> Seq(DOMAIN log')]
    BY <1>1, <1>2, <1>6 DEF TypeOK
  <2>3. held' \in [Readers -> 0..Len(log')] /\ Len(log') <= MaxPosts
    BY <1>1, <1>2, <1>3, <1>4, NotificationAssumption DEF TypeOK
  <2>4. QED
    BY <1>1, <1>2, <1>4, <2>1, <2>2, <2>3 DEF TypeOK
<1>10. PcInv' /\ OverlapInv' /\ SocketInv'
  BY <1>2 DEF IInv, PcInv, OverlapInv, SocketInv
<1>11. OneSubscriber'
  BY <1>2, CountFrame DEF IInv
<1>12. /\ \A X, Y \in SUBSET DOMAIN log : Before(log, X, Y) => Before(log', X, Y)
       /\ \A q \in Seq(DOMAIN log) : Ordered(log, q) => Ordered(log', q)
  BY <1>4, LogGrows
<1>13. \A X \in SUBSET DOMAIN log : Before(log', X, {n})
  BY <1>3 DEF Before
<1>14. QueueInv'
  <2> SUFFICES ASSUME NEW i \in Kinds
               PROVE  Ordered(log', queue'[i]) /\ \A x \in ToSet(queue'[i]) : log'[x] = i
    BY DEF QueueInv
  <2>1. CASE i = k
    <3>1. Ordered(log', queue[k])
      BY <1>1, <1>7, <1>12 DEF QueueInv
    <3>2. Before(log', ToSet(queue[k]), {n})
      BY <1>1, <1>13, Numbers
    <3>3. Ordered(log', queue'[k])
      BY <1>5, <1>7, <3>1, <3>2, OrderedAppend
    <3>4. \A x \in ToSet(queue[k]) : log'[x] = k
      BY <1>1, <1>4, Numbers DEF QueueInv
    <3>5. QED
      BY <1>4, <1>8, <2>1, <3>3, <3>4
  <2>2. CASE i # k
    <3>1. queue'[i] = queue[i] /\ queue[i] \in Seq(DOMAIN log)
      BY <1>1, <1>7, <2>2 DEF TypeOK
    <3>2. QED
      BY <1>1, <1>4, <1>12, <3>1, Numbers DEF QueueInv
  <2>3. QED
    BY <2>1, <2>2
<1>15. \A X \in SUBSET DOMAIN log : \A i \in Kinds :
         Before(log, X, ToSet(queue[i])) => Before(log', X, ToSet(queue'[i]))
  <2> SUFFICES ASSUME NEW X \in SUBSET DOMAIN log, NEW i \in Kinds,
                      Before(log, X, ToSet(queue[i]))
               PROVE  Before(log', X, ToSet(queue'[i]))
    OBVIOUS
  <2>1. Before(log', X, ToSet(queue[i]))
    BY <1>1, <1>12, Numbers
  <2>2. CASE i = k
    BY <1>8, <1>13, <2>1, <2>2 DEF Before
  <2>3. CASE i # k
    BY <1>7, <2>1, <2>3
  <2>4. QED
    BY <2>2, <2>3
<1>16. HeldInv'
  <2> SUFFICES ASSUME NEW m \in Monitored, NEW x \in Held(m)
               PROVE  log'[x] = m /\ Before(log', {x}, ToSet(queue'[m]))
    BY <1>2 DEF HeldInv, Held
  <2>1. x \in DOMAIN log /\ m \in Kinds
    BY <1>1, Numbers DEF Kinds
  <2>2. log[x] = m /\ Before(log, {x}, ToSet(queue[m]))
    BY <1>1 DEF HeldInv
  <2>3. QED
    BY <1>4, <1>15, <2>1, <2>2
<1>17. ASSUME ~overlapped PROVE PipeInv'
  <2> SUFFICES ASSUME NEW s \in Subscribers
               PROVE  /\ Ordered(log', pipe[s])
                      /\ Before(log', ToSet(received[s]), ToSet(pipe[s]))
                      /\ \A m \in Monitored : Before(log', Passed(s), Held(m))
                      /\ \A i \in Kinds : Before(log', Passed(s), ToSet(queue'[i]))
    BY <1>2 DEF PipeInv, Passed, Held
  <2>1. /\ pipe[s] \in Seq(DOMAIN log) /\ Passed(s) \subseteq DOMAIN log
        /\ ToSet(received[s]) \subseteq DOMAIN log /\ ToSet(pipe[s]) \subseteq DOMAIN log
        /\ \A m \in Monitored : Held(m) \subseteq DOMAIN log
    BY <1>1, Numbers DEF TypeOK
  <2>2. /\ Ordered(log, pipe[s]) /\ Before(log, ToSet(received[s]), ToSet(pipe[s]))
        /\ \A m \in Monitored : Before(log, Passed(s), Held(m))
        /\ \A i \in Kinds : Before(log, Passed(s), ToSet(queue[i]))
    BY <1>1, <1>17 DEF PipeInv
  <2>3. QED
    BY <1>12, <1>15, <2>1, <2>2
<1>18. QED
  BY <1>2, <1>9, <1>10, <1>11, <1>14, <1>16, <1>17 DEF IInv, FlowInv

LEMMA SubscribeStep == ASSUME IInv, NEW r \in Readers, Subscribe(r) PROVE IInv'
<1>1. /\ pc[r] = "idle" /\ pc' = [pc EXCEPT ![r] = "inside"]
      /\ sub_count[Queue(r)] = 0
      /\ sub_count' = [sub_count EXCEPT ![Queue(r)] = @ + 1]
      /\ UNCHANGED <<server_vars, log, queue, held, overlapped, terminated, sub_vars>>
  BY DEF Subscribe, Goto
<1> USE DEF server_vars, sub_vars
<1>2. Queue(r) \in Kinds
  BY DEF Queue, Kinds
<1>3. TypeOK'
  BY <1>1, <1>2 DEF IInv, TypeOK
<1>4. PcInv' /\ OverlapInv' /\ SocketInv'
  BY <1>1 DEF IInv, TypeOK, PcInv, OverlapInv, SocketInv
<1>5. OneSubscriber'
  <2> DEFINE In(k) == {i \in Readers : Queue(i) = k /\ pc[i] \in {"inside", "popped"}}
             InNext(k) == {i \in Readers : Queue(i) = k /\ pc'[i] \in {"inside", "popped"}}
  <2> SUFFICES ASSUME NEW k \in Kinds
               PROVE  sub_count'[k] = Cardinality(InNext(k)) /\ sub_count'[k] <= 1
    BY DEF OneSubscriber
  <2>1. sub_count[k] = Cardinality(In(k)) /\ sub_count[k] <= 1
    BY DEF IInv, OneSubscriber
  <2>2. CASE k = Queue(r)
    <3>1. sub_count[k] = 0 /\ sub_count'[k] = 1
      BY <1>1, <1>2, <2>2 DEF IInv, TypeOK
    <3>2. In(k) = {}
      <4>1. IsFiniteSet(In(k))
        BY ReadersFinite
      <4>2. QED
        BY <2>1, <3>1, <4>1, FS_EmptySet
    <3>3. InNext(k) = {r}
      BY <1>1, <2>2, <3>2 DEF IInv, TypeOK
    <3>4. Cardinality({r}) = 1
      BY FS_Singleton
    <3>5. QED
      BY <3>1, <3>3, <3>4
  <2>3. CASE k # Queue(r)
    <3>1. sub_count'[k] = sub_count[k]
      BY <1>1, <2>3 DEF IInv, TypeOK
    <3>2. InNext(k) = In(k)
      BY <1>1, <2>3 DEF IInv, TypeOK
    <3>3. QED
      BY <2>1, <3>1, <3>2
  <2>4. QED
    BY <2>2, <2>3
<1>6. FlowInv'
  BY <1>1, FlowFrame DEF IInv
<1>7. QED
  BY <1>3, <1>4, <1>5, <1>6 DEF IInv

\* A monitor is alone in its queue, so that nobody is there when it subscribes.
LEMMA RefuseStep == ASSUME IInv, NEW r \in Readers, Refuse(r) PROVE IInv'
<1>1. /\ pc[r] = "idle" /\ sub_count[Queue(r)] > 0 /\ terminated' = (r \in Monitored)
      /\ UNCHANGED <<server_vars, queue_vars, reader_vars, overlapped, sub_vars>>
  BY DEF Refuse
<1> USE DEF server_vars, queue_vars, reader_vars, sub_vars
<1>2. r \notin Monitored
  <2> SUFFICES ASSUME r \in Monitored PROVE FALSE
    OBVIOUS
  <2> DEFINE In == {i \in Readers : Queue(i) = r /\ pc[i] \in {"inside", "popped"}}
  <2>1. Queue(r) = r /\ r \in Kinds /\ r # "index"
    BY NotificationAssumption DEF Queue, Kinds
  <2>2. sub_count[r] = Cardinality(In)
    BY <2>1 DEF IInv, OneSubscriber
  <2>3. In = {}
    BY <1>1, <2>1 DEF Queue, Readers
  <2>4. Cardinality({}) = 0
    BY FS_EmptySet
  <2>5. QED
    BY <1>1, <2>1, <2>2, <2>3, <2>4
<1>3. TypeOK'
  BY <1>1 DEF IInv, TypeOK
<1>4. PcInv' /\ SocketInv' /\ OverlapInv'
  BY <1>1, <1>2 DEF IInv, PcInv, SocketInv, OverlapInv
<1>5. OneSubscriber'
  BY <1>1, CountFrame DEF IInv
<1>6. FlowInv'
  BY <1>1, FlowFrame DEF IInv
<1>7. QED
  BY <1>3, <1>4, <1>5, <1>6 DEF IInv

LEMMA PopStep == ASSUME IInv, NEW r \in Readers, PopHead(r) PROVE IInv'
<1> DEFINE k == Queue(r)
<1>1. TypeOK /\ QueueInv /\ HeldInv /\ (overlapped \/ PipeInv)
  BY DEF IInv, FlowInv
<1>2. /\ pc[r] = "inside" /\ pc' = [pc EXCEPT ![r] = "popped"]
      /\ queue[k] # <<>> /\ held' = [held EXCEPT ![r] = Head(queue[k])]
      /\ queue' = [queue EXCEPT ![k] = Tail(@)]
      /\ UNCHANGED <<server_vars, log, sub_count, overlapped, terminated, sub_vars>>
  BY DEF PopHead, Goto
<1> USE DEF server_vars, sub_vars
<1>3. k \in Kinds /\ (r \in Monitored => k = r)
  BY DEF Queue, Kinds
<1>4. queue[k] \in Seq(DOMAIN log) /\ queue'[k] = Tail(queue[k])
  BY <1>1, <1>2, <1>3 DEF TypeOK
<1> HIDE DEF k
<1>5. /\ Head(queue[k]) \in DOMAIN log /\ Tail(queue[k]) \in Seq(DOMAIN log)
      /\ Head(queue[k]) \in ToSet(queue[k])
      /\ ToSet(Tail(queue[k])) \subseteq ToSet(queue[k])
  BY <1>2, <1>4, TailSet
<1>6. /\ held'[r] = Head(queue[k]) /\ held'[r] # 0 /\ held'[r] \in 0..Len(log)
      /\ \A i \in Readers : i # r => held'[i] = held[i]
  <2>1. held'[r] = Head(queue[k]) /\ \A i \in Readers : i # r => held'[i] = held[i]
    BY <1>1, <1>2 DEF TypeOK
  <2>2. Head(queue[k]) \in 1..Len(log) /\ Len(log) \in Nat
    BY <1>1, <1>5, Numbers
  <2>3. QED
    BY <2>1, <2>2
<1>7. \A i \in Kinds : ToSet(queue'[i]) \subseteq ToSet(queue[i])
  BY <1>1, <1>2, <1>4, <1>5 DEF TypeOK
<1>8. TypeOK'
  BY <1>1, <1>2, <1>3, <1>5, <1>6 DEF TypeOK
<1>9. PcInv' /\ SocketInv' /\ OverlapInv'
  BY <1>1, <1>2, <1>6 DEF IInv, TypeOK, PcInv, SocketInv, OverlapInv
<1>10. OneSubscriber'
  <2>1. \A i \in Readers :
          pc'[i] \in {"inside", "popped"} <=> pc[i] \in {"inside", "popped"}
    BY <1>1, <1>2 DEF TypeOK
  <2>2. QED
    BY <1>2, <2>1, CountFrame DEF IInv
<1>11. Ordered(log, queue'[k]) /\ Before(log, {Head(queue[k])}, ToSet(queue'[k]))
  <2>1. Ordered(log, queue[k])
    BY <1>1, <1>3 DEF QueueInv
  <2>2. QED
    BY <1>2, <1>4, <2>1, OrderedTail
<1>12. QueueInv'
  <2> SUFFICES ASSUME NEW i \in Kinds
               PROVE  Ordered(log, queue'[i]) /\ \A n \in ToSet(queue'[i]) : log[n] = i
    BY <1>2 DEF QueueInv
  <2>1. \A n \in ToSet(queue'[i]) : log[n] = i
    BY <1>1, <1>7 DEF QueueInv
  <2>2. Ordered(log, queue'[i])
    BY <1>1, <1>2, <1>11 DEF QueueInv, TypeOK
  <2>3. QED
    BY <2>1, <2>2
<1>13. \A m \in Monitored : \/ m # r /\ Held(m)' = Held(m)
                            \/ m = r /\ m = k /\ Held(m)' = {Head(queue[k])}
  BY <1>3, <1>6 DEF Held, Readers
<1>14. HeldInv'
  <2> SUFFICES ASSUME NEW m \in Monitored, NEW n \in Held(m)'
               PROVE  log[n] = m /\ Before(log, {n}, ToSet(queue'[m]))
    BY <1>2 DEF HeldInv
  <2>1. CASE m # r
    <3>1. log[n] = m /\ Before(log, {n}, ToSet(queue[m]))
      BY <1>1, <1>13, <2>1 DEF HeldInv
    <3>2. QED
      BY <1>7, <3>1 DEF Before, Kinds
  <2>2. CASE m = r
    BY <1>1, <1>3, <1>5, <1>11, <1>13, <2>2 DEF QueueInv
  <2>3. QED
    BY <2>1, <2>2
<1>15. ASSUME ~overlapped PROVE PipeInv'
  <2> SUFFICES ASSUME NEW s \in Subscribers
               PROVE  /\ Ordered(log, pipe[s])
                      /\ Before(log, ToSet(received[s]), ToSet(pipe[s]))
                      /\ \A m \in Monitored : Before(log, Passed(s), Held(m)')
                      /\ \A i \in Kinds : Before(log, Passed(s), ToSet(queue'[i]))
    BY <1>2 DEF PipeInv, Passed
  <2>1. /\ Ordered(log, pipe[s]) /\ Before(log, ToSet(received[s]), ToSet(pipe[s]))
        /\ \A m \in Monitored : Before(log, Passed(s), Held(m))
        /\ \A i \in Kinds : Before(log, Passed(s), ToSet(queue[i]))
    BY <1>1, <1>15 DEF PipeInv
  <2>2. \A i \in Kinds : Before(log, Passed(s), ToSet(queue'[i]))
    BY <1>7, <2>1 DEF Before
  <2>3. Before(log, Passed(s), {Head(queue[k])})
    BY <1>3, <1>5, <2>1 DEF Before
  <2>4. QED
    BY <1>13, <2>1, <2>2, <2>3
<1>16. QED
  BY <1>2, <1>8, <1>9, <1>10, <1>12, <1>14, <1>15 DEF IInv, FlowInv

\* A reader is done with what it holds, or still has it.
LEMMA PutAway ==
  ASSUME TypeOK, NEW r \in Readers, held' = held \/ held' = [held EXCEPT ![r] = 0]
  PROVE  held' \in [Readers -> 0..Len(log)]
<1> DEFINE D == 0..Len(log)
<1>1. 0 \in D
  BY Numbers
<1>2. held \in [Readers -> D]
  BY DEF TypeOK
<1> HIDE DEF D
<1>3. held' \in [Readers -> D]
  BY <1>1, <1>2
<1>4. QED
  BY <1>3 DEF D

LEMMA ReturnStep == ASSUME IInv, NEW r \in Readers, Return(r) PROVE IInv'
<1>1. /\ pc[r] = "popped"
      /\ \/ pc' = [pc EXCEPT ![r] = "returned"] /\ held' = held
         \/ pc' = [pc EXCEPT ![r] = "idle"] /\ held' = [held EXCEPT ![r] = 0]
      /\ sub_count' = [sub_count EXCEPT ![Queue(r)] = @ - 1]
      /\ UNCHANGED <<server_vars, log, queue, overlapped, terminated, sub_vars>>
  BY DEF Return, Finish, Goto
<1> USE DEF server_vars, sub_vars
<1>2. Queue(r) \in Kinds
  BY DEF Queue, Kinds
<1> DEFINE In(k) == {i \in Readers : Queue(i) = k /\ pc[i] \in {"inside", "popped"}}
           InNext(k) == {i \in Readers : Queue(i) = k /\ pc'[i] \in {"inside", "popped"}}
<1>3. \A k \in Kinds : /\ sub_count[k] = Cardinality(In(k)) /\ sub_count[k] <= 1
                       /\ IsFiniteSet(In(k)) /\ sub_count[k] \in Nat
  BY ReadersFinite DEF IInv, OneSubscriber, TypeOK
<1>4. InNext(Queue(r)) = In(Queue(r)) \ {r} /\ r \in In(Queue(r))
  BY <1>1 DEF IInv, TypeOK
<1>5. \A k \in Kinds : k # Queue(r) => InNext(k) = In(k)
  BY <1>1 DEF IInv, TypeOK
<1>6. /\ sub_count'[Queue(r)] = sub_count[Queue(r)] - 1
      /\ \A k \in Kinds : k # Queue(r) => sub_count'[k] = sub_count[k]
  BY <1>1, <1>2 DEF IInv, TypeOK
<1> HIDE DEF In, InNext
<1>7. Cardinality(InNext(Queue(r))) = sub_count[Queue(r)] - 1
  BY <1>2, <1>3, <1>4, FS_RemoveElement
<1>8. sub_count[Queue(r)] = 1
  <2>1. Cardinality(In(Queue(r))) # 0
    BY <1>2, <1>3, <1>4, FS_EmptySet
  <2>2. QED
    BY <1>2, <1>3, <2>1
<1>9. TypeOK'
  <2>1. held' \in [Readers -> 0..Len(log)]
    BY <1>1, PutAway DEF IInv
  <2>2. sub_count' \in [Kinds -> Nat]
    BY <1>1, <1>2, <1>8 DEF IInv, TypeOK
  <2>3. QED
    BY <1>1, <2>1, <2>2 DEF IInv, TypeOK
<1>10. PcInv' /\ OverlapInv' /\ SocketInv'
  BY <1>1 DEF IInv, TypeOK, PcInv, OverlapInv, SocketInv
<1>11. OneSubscriber'
  <2>1. \A k \in Kinds : sub_count'[k] = Cardinality(InNext(k)) /\ sub_count'[k] <= 1
    BY <1>3, <1>5, <1>6, <1>7, <1>8
  <2>2. QED
    BY <2>1 DEF OneSubscriber, InNext
<1>12. FlowInv'
  <2>1. \A m \in Monitored : held'[m] \in {held[m], 0}
    BY <1>1 DEF IInv, TypeOK, Readers
  <2>2. QED
    BY <1>1, <2>1, FlowFrame DEF IInv
<1>13. QED
  BY <1>9, <1>10, <1>11, <1>12 DEF IInv

LEMMA TestSocketStep == ASSUME IInv, NEW m \in Monitored, TestSocket(m) PROVE IInv'
<1>1. /\ pc[m] = "returned"
      /\ \/ pc' = [pc EXCEPT ![m] = "sending"] /\ held' = held
         \/ pc' = [pc EXCEPT ![m] = "idle"] /\ held' = [held EXCEPT ![m] = 0]
      /\ UNCHANGED <<server_vars, queue_vars, terminated, sub_vars>>
  BY DEF TestSocket, Finish, Goto
<1> USE DEF server_vars, queue_vars, sub_vars
<1>2. overlapped' \in BOOLEAN /\ (overlapped => overlapped')
  BY DEF TestSocket, IInv, TypeOK
<1>3. m \in Readers
  BY DEF Readers
<1>4. TypeOK'
  <2>1. held' \in [Readers -> 0..Len(log)]
    BY <1>1, <1>3, PutAway DEF IInv
  <2>2. QED
    BY <1>1, <1>2, <1>3, <2>1 DEF IInv, TypeOK
<1>5. PcInv' /\ SocketInv'
  BY <1>1, <1>3 DEF IInv, TypeOK, PcInv, SocketInv
<1>6. OverlapInv'
  BY <1>1, <1>2 DEF IInv, OverlapInv
<1>7. OneSubscriber'
  <2>1. \A r \in Readers :
          pc'[r] \in {"inside", "popped"} <=> pc[r] \in {"inside", "popped"}
    BY <1>1, <1>3 DEF IInv, TypeOK
  <2>2. QED
    BY <1>1, <2>1, CountFrame DEF IInv
<1>8. FlowInv'
  <2>1. \A i \in Monitored : held'[i] \in {held[i], 0}
    BY <1>1 DEF IInv, TypeOK, Readers
  <2>2. QED
    BY <1>1, <1>2, <2>1, FlowFrame DEF IInv
<1>9. QED
  BY <1>4, <1>5, <1>6, <1>7, <1>8 DEF IInv

\* What monitor m sends was posted after everything of its kind that is on its way,
\* and before what is still in its queue.
LEMMA SendStep == ASSUME IInv, NEW m \in Monitored, EndSend(m) PROVE IInv'
<1> DEFINE n == held[m]
<1>1. TypeOK /\ QueueInv /\ HeldInv /\ (overlapped \/ PipeInv)
  BY DEF IInv, FlowInv
<1>2. /\ pc[m] = "sending" /\ pc' = [pc EXCEPT ![m] = "idle"]
      /\ held' = [held EXCEPT ![m] = 0]
      /\ pipe' = [s \in Subscribers |-> IF s \in subscribed /\ HasRoom(s)
                                         THEN Append(pipe[s], n) ELSE pipe[s]]
      /\ UNCHANGED <<server_vars, queue_vars, overlapped, terminated, subscribed,
                     running, received>>
  BY DEF EndSend, Finish, Goto
<1> USE DEF server_vars, queue_vars
<1>3. m \in Readers /\ m \in Kinds
  BY DEF Readers, Kinds
<1>4. n # 0 /\ n \in DOMAIN log /\ n \in Held(m)
  BY <1>1, <1>2, <1>3, Numbers DEF IInv, PcInv, Held
<1>5. log[n] = m /\ Before(log, {n}, ToSet(queue[m]))
  BY <1>1, <1>4 DEF HeldInv
<1> HIDE DEF n
<1>6. \A s \in Subscribers :
        /\ pipe[s] \in Seq(DOMAIN log)
        /\ \/ pipe'[s] = pipe[s]
           \/ /\ pipe'[s] = Append(pipe[s], n) /\ pipe'[s] \in Seq(DOMAIN log)
              /\ ToSet(pipe'[s]) = ToSet(pipe[s]) \cup {n}
  <2> SUFFICES ASSUME NEW s \in Subscribers
               PROVE  /\ pipe[s] \in Seq(DOMAIN log)
                      /\ \/ pipe'[s] = pipe[s]
                         \/ /\ pipe'[s] = Append(pipe[s], n)
                            /\ pipe'[s] \in Seq(DOMAIN log)
                            /\ ToSet(pipe'[s]) = ToSet(pipe[s]) \cup {n}
    OBVIOUS
  <2>1. pipe[s] \in Seq(DOMAIN log)
    BY <1>1 DEF TypeOK
  <2>2. /\ Append(pipe[s], n) \in Seq(DOMAIN log)
        /\ ToSet(Append(pipe[s], n)) = ToSet(pipe[s]) \cup {n}
    BY <1>4, <2>1, AppendedSet
  <2>3. pipe'[s] = pipe[s] \/ pipe'[s] = Append(pipe[s], n)
    BY <1>2
  <2>4. QED
    BY <2>1, <2>2, <2>3
<1>7. TypeOK'
  <2>1. pipe' \in [Subscribers -> Seq(DOMAIN log)]
    BY <1>2, <1>6
  <2>2. held' \in [Readers -> 0..Len(log)]
    BY <1>1, <1>2, <1>3, PutAway
  <2>3. QED
    BY <1>1, <1>2, <1>3, <2>1, <2>2 DEF TypeOK
<1>8. PcInv' /\ SocketInv' /\ OverlapInv'
  BY <1>1, <1>2, <1>3 DEF IInv, TypeOK, PcInv, SocketInv, OverlapInv
<1>9. OneSubscriber'
  <2>1. \A r \in Readers :
          pc'[r] \in {"inside", "popped"} <=> pc[r] \in {"inside", "popped"}
    BY <1>1, <1>2, <1>3 DEF TypeOK
  <2>2. QED
    BY <1>2, <2>1, CountFrame DEF IInv
<1>10. \A i \in Monitored : \/ i = m /\ Held(i)' = {}
                            \/ i # m /\ Held(i)' = Held(i)
  BY <1>1, <1>2, <1>3 DEF TypeOK, Held, Readers
<1>11. QueueInv' /\ HeldInv'
  BY <1>1, <1>2, <1>10 DEF QueueInv, HeldInv
<1>12. ASSUME ~overlapped PROVE PipeInv'
  <2> SUFFICES ASSUME NEW s \in Subscribers
               PROVE  /\ Ordered(log, pipe'[s])
                      /\ Before(log, ToSet(received[s]), ToSet(pipe'[s]))
                      /\ \A i \in Monitored : Before(log, Passed(s)', Held(i)')
                      /\ \A k \in Kinds : Before(log, Passed(s)', ToSet(queue[k]))
    BY <1>2 DEF PipeInv
  <2>1. /\ Ordered(log, pipe[s]) /\ Before(log, ToSet(received[s]), ToSet(pipe[s]))
        /\ \A i \in Monitored : Before(log, Passed(s), Held(i))
        /\ \A k \in Kinds : Before(log, Passed(s), ToSet(queue[k]))
    BY <1>1, <1>12 DEF PipeInv
  <2>2. CASE pipe'[s] = pipe[s]
    <3>1. Passed(s)' = Passed(s)
      BY <1>2, <2>2 DEF Passed
    <3>2. \A i \in Monitored : Before(log, Passed(s), Held(i)')
      BY <1>10, <2>1 DEF Before
    <3>3. QED
      BY <2>1, <2>2, <3>1, <3>2
  <2>3. CASE /\ pipe'[s] = Append(pipe[s], n)
             /\ ToSet(pipe'[s]) = ToSet(pipe[s]) \cup {n}
    <3>1. Passed(s)' = Passed(s) \cup {n}
      BY <1>2, <2>3 DEF Passed
    <3>2. Before(log, Passed(s), {n})
      BY <1>4, <2>1 DEF Before
    <3>3. Ordered(log, pipe'[s])
      <4>1. Before(log, ToSet(pipe[s]), {n})
        BY <3>2 DEF Before, Passed
      <4>2. QED
        BY <1>4, <1>6, <2>1, <2>3, <4>1, OrderedAppend
    <3>4. Before(log, ToSet(received[s]), ToSet(pipe'[s]))
      BY <2>1, <2>3, <3>2 DEF Before, Passed
    <3>5. \A i \in Monitored : Before(log, Passed(s)', Held(i)')
      <4> SUFFICES ASSUME NEW i \in Monitored PROVE Before(log, Passed(s)', Held(i)')
        OBVIOUS
      <4>1. CASE i = m
        BY <1>10, <4>1 DEF Before
      <4>2. CASE i # m
        <5>1. \A x \in Held(i) : log[x] # log[n]
          BY <1>1, <1>5, <4>2 DEF HeldInv
        <5>2. QED
          BY <1>10, <2>1, <3>1, <4>2, <5>1 DEF Before
      <4>3. QED
        BY <4>1, <4>2
    <3>6. \A k \in Kinds : Before(log, Passed(s)', ToSet(queue[k]))
      <4> SUFFICES ASSUME NEW k \in Kinds
                   PROVE  Before(log, Passed(s) \cup {n}, ToSet(queue[k]))
        BY <3>1
      <4>1. Before(log, {n}, ToSet(queue[k]))
        BY <1>1, <1>5 DEF QueueInv, Before
      <4>2. QED
        BY <2>1, <4>1 DEF Before
    <3>7. QED
      BY <3>3, <3>4, <3>5, <3>6
  <2>4. QED
    BY <1>6, <2>2, <2>3
<1>13. QED
  BY <1>2, <1>7, <1>8, <1>9, <1>11, <1>12 DEF IInv, FlowInv

LEMMA SubscriptionStep ==
  ASSUME IInv, NEW s \in Subscribers, SubscriptionArrives(s)
  PROVE  IInv'
<1>1. /\ subscribed' = subscribed \cup {s}
      /\ UNCHANGED <<server_vars, queue_vars, reader_vars, overlapped, terminated,
                     running, pipe, received>>
  BY DEF SubscriptionArrives
<1> USE DEF server_vars, queue_vars, reader_vars
<1>2. TypeOK' /\ PcInv' /\ SocketInv' /\ OverlapInv'
  BY <1>1 DEF IInv, TypeOK, PcInv, SocketInv, OverlapInv
<1>3. OneSubscriber' /\ FlowInv'
  BY <1>1, CountFrame, FlowFrame DEF IInv
<1>4. QED
  BY <1>2, <1>3 DEF IInv

\* The process of the server ends when two sends overlap, or nothing happens at all.
LEMMA QuietStep ==
  ASSUME IInv, terminated' \in BOOLEAN, terminated' => overlapped,
         UNCHANGED <<server_vars, queue_vars, reader_vars, overlapped, sub_vars>>
  PROVE  IInv'
<1> USE DEF server_vars, queue_vars, reader_vars, sub_vars
<1>1. TypeOK' /\ PcInv' /\ SocketInv' /\ OverlapInv'
  BY DEF IInv, TypeOK, PcInv, SocketInv, OverlapInv
<1>2. OneSubscriber' /\ FlowInv'
  BY CountFrame, FlowFrame DEF IInv
<1>3. QED
  BY <1>1, <1>2 DEF IInv

\* What a subscriber passes on is all that changes for it.
LEMMA PassedOn ==
  ASSUME NEW s \in Subscribers, NEW n, PassOn(s, n)
  PROVE  /\ received' = received \/ received' = [received EXCEPT ![s] = Append(@, n)]
         /\ running' \subseteq running
         /\ UNCHANGED <<server_vars, queue_vars, reader_vars, overlapped, terminated,
                       subscribed>>
BY DEF PassOn

LEMMA ReceiveStep == ASSUME IInv, NEW s \in Subscribers, Receive(s) PROVE IInv'
<1>1. TypeOK /\ QueueInv /\ HeldInv /\ (overlapped \/ PipeInv)
  BY DEF IInv, FlowInv
<1>2. /\ pipe[s] # <<>> /\ pipe' = [pipe EXCEPT ![s] = Tail(@)]
      /\ \/ received' = received
         \/ received' = [received EXCEPT ![s] = Append(@, Head(pipe[s]))]
      /\ running' \subseteq running
      /\ UNCHANGED <<server_vars, queue_vars, reader_vars, overlapped, terminated,
                     subscribed>>
  BY PassedOn DEF Receive
<1> USE DEF server_vars, queue_vars, reader_vars
<1>3. /\ pipe[s] \in Seq(DOMAIN log) /\ received[s] \in Seq(DOMAIN log)
      /\ pipe'[s] = Tail(pipe[s])
      /\ received'[s] = received[s] \/ received'[s] = Append(received[s], Head(pipe[s]))
      /\ \A i \in Subscribers : i # s => pipe'[i] = pipe[i] /\ received'[i] = received[i]
  BY <1>1, <1>2 DEF TypeOK
<1>4. /\ Head(pipe[s]) \in DOMAIN log /\ Tail(pipe[s]) \in Seq(DOMAIN log)
      /\ Head(pipe[s]) \in ToSet(pipe[s])
      /\ ToSet(pipe'[s]) \subseteq ToSet(pipe[s])
  BY <1>2, <1>3, TailSet
<1>5. /\ received'[s] \in Seq(DOMAIN log)
      /\ ToSet(received'[s]) \subseteq ToSet(received[s]) \cup {Head(pipe[s])}
  <2>1. Append(received[s], Head(pipe[s])) \in Seq(DOMAIN log)
    BY <1>3, <1>4, AppendedSet
  <2>2. ToSet(Append(received[s], Head(pipe[s]))) = ToSet(received[s]) \cup {Head(pipe[s])}
    BY <1>3, <1>4, AppendedSet
  <2>3. QED
    BY <1>3, <2>1, <2>2
<1>6. Passed(s)' \subseteq Passed(s)
  BY <1>4, <1>5 DEF Passed
<1>7. TypeOK'
  <2>1. /\ pipe' \in [Subscribers -> Seq(DOMAIN log)]
        /\ received' \in [Subscribers -> Seq(DOMAIN log)]
    BY <1>1, <1>2, <1>3, <1>4, <1>5 DEF TypeOK
  <2>2. QED
    BY <1>1, <1>2, <2>1 DEF TypeOK
<1>8. PcInv' /\ SocketInv' /\ OverlapInv'
  BY <1>2 DEF IInv, PcInv, SocketInv, OverlapInv
<1>9. OneSubscriber'
  BY <1>2, CountFrame DEF IInv
<1>10. QueueInv' /\ HeldInv'
  BY <1>1, <1>2 DEF QueueInv, HeldInv, Held
<1>11. ASSUME ~overlapped PROVE PipeInv'
  <2> SUFFICES ASSUME NEW i \in Subscribers
               PROVE  /\ Ordered(log, pipe'[i])
                      /\ Before(log, ToSet(received'[i]), ToSet(pipe'[i]))
                      /\ \A m \in Monitored : Before(log, Passed(i)', Held(m))
                      /\ \A k \in Kinds : Before(log, Passed(i)', ToSet(queue[k]))
    BY <1>2 DEF PipeInv, Held
  <2>1. /\ Ordered(log, pipe[i]) /\ Before(log, ToSet(received[i]), ToSet(pipe[i]))
        /\ \A m \in Monitored : Before(log, Passed(i), Held(m))
        /\ \A k \in Kinds : Before(log, Passed(i), ToSet(queue[k]))
    BY <1>1, <1>11 DEF PipeInv
  <2>2. CASE i = s
    <3>1. Ordered(log, pipe'[s]) /\ Before(log, {Head(pipe[s])}, ToSet(pipe'[s]))
      BY <1>2, <1>3, <2>1, <2>2, OrderedTail
    <3>2. Before(log, ToSet(received'[s]), ToSet(pipe'[s]))
      BY <1>4, <1>5, <2>1, <2>2, <3>1 DEF Before
    <3>3. /\ \A m \in Monitored : Before(log, Passed(s)', Held(m))
          /\ \A k \in Kinds : Before(log, Passed(s)', ToSet(queue[k]))
      BY <1>6, <2>1, <2>2 DEF Before
    <3>4. QED
      BY <2>2, <3>1, <3>2, <3>3
  <2>3. CASE i # s
    <3>1. Passed(i)' = Passed(i)
      BY <1>3, <2>3 DEF Passed
    <3>2. QED
      BY <1>3, <2>1, <2>3, <3>1
  <2>4. QED
    BY <2>2, <2>3
<1>12. QED
  BY <1>2, <1>7, <1>8, <1>9, <1>10, <1>11 DEF IInv, FlowInv

\* Once two sends have overlapped whatever was posted may arrive.
LEMMA ClashedStep == ASSUME IInv, NEW s \in Subscribers, ReceiveClashed(s) PROVE IInv'
<1>1. /\ overlapped /\ pipe' = pipe /\ running' \subseteq running
      /\ \/ received' = received
         \/ \E n \in DOMAIN log : received' = [received EXCEPT ![s] = Append(@, n)]
      /\ UNCHANGED <<server_vars, queue_vars, reader_vars, overlapped, terminated,
                     subscribed>>
  BY PassedOn DEF ReceiveClashed
<1> USE DEF server_vars, queue_vars, reader_vars
<1>2. received' \in [Subscribers -> Seq(DOMAIN log)]
  <2>1. received[s] \in Seq(DOMAIN log)
    BY DEF IInv, TypeOK
  <2>2. \A n \in DOMAIN log : Append(received[s], n) \in Seq(DOMAIN log)
    BY <2>1, AppendedSet
  <2>3. QED
    BY <1>1, <2>2 DEF IInv, TypeOK
<1>3. TypeOK' /\ PcInv' /\ SocketInv' /\ OverlapInv'
  BY <1>1, <1>2 DEF IInv, TypeOK, PcInv, SocketInv, OverlapInv
<1>4. OneSubscriber'
  BY <1>1, CountFrame DEF IInv
<1>5. FlowInv'
  BY <1>1 DEF IInv, FlowInv, QueueInv, HeldInv, Held
<1>6. QED
  BY <1>3, <1>4, <1>5 DEF IInv

LEMMA NextIInv == IInv /\ [Next]_vars => IInv'
<1> SUFFICES ASSUME IInv, [Next]_vars PROVE IInv'
  OBVIOUS
<1>1. CASE StartServing
  BY <1>1, SocketStep DEF StartServing
<1>2. ASSUME NEW k \in Kinds, Post(k) PROVE IInv'
  BY <1>2, PostStep
<1>3. ASSUME NEW r \in Readers, Read(r) PROVE IInv'
  BY <1>3, SubscribeStep, RefuseStep, PopStep, ReturnStep DEF Read
<1>4. ASSUME NEW m \in Monitored, Monitor(m) PROVE IInv'
  <2>1. CASE Read(m)
    BY <1>3, <2>1 DEF Readers
  <2>2. CASE TestSocket(m)
    BY <2>2, TestSocketStep
  <2>3. CASE EndSend(m)
    BY <2>3, SendStep
  <2>4. CASE EndClash(m)
    BY <2>4, QuietStep DEF EndClash, IInv, OverlapInv
  <2>5. QED
    BY <1>4, <2>1, <2>2, <2>3, <2>4 DEF Monitor
<1>5. ASSUME NEW s \in Subscribers, SubscriptionArrives(s) \/ Receive(s) \/ ReceiveClashed(s)
      PROVE  IInv'
  BY <1>5, SubscriptionStep, ReceiveStep, ClashedStep
<1>6. CASE UNCHANGED vars
  BY <1>6, QuietStep DEF vars, IInv, TypeOK, OverlapInv
<1>7. QED
  BY <1>1, <1>2, <1>3, <1>4, <1>5, <1>6 DEF Next, Readers

LEMMA SpecIInv == Spec => []IInv
BY InitIInv, NextIInv, PTL DEF Spec

-----------------------------------------------------------------------------
(* Theorems *)

\* Every variable keeps its type, for any number of monitors, guests and web servers.
THEOREM NotificationsTypeCorrect == Spec => []TypeOK
<1>1. IInv => TypeOK
  BY DEF IInv
<1>2. QED
  BY <1>1, SpecIInv, PTL

\* A monitor that has a notification finds notify_socket_ stored, although the
\* monitors start before serve_ stores it.
THEOREM NotificationsSocketStoredFirst == Spec => []SocketStoredFirst
<1>1. IInv => SocketStoredFirst
  <2> SUFFICES ASSUME IInv, NEW m \in Monitored, held[m] # 0 PROVE notify_socket
    BY DEF SocketStoredFirst
  <2>1. held[m] \in 1..Len(log)
    BY Numbers DEF IInv, Readers
  <2>2. log # <<>>
    BY <2>1
  <2>3. QED
    BY <2>2 DEF IInv, SocketInv
<1>2. QED
  BY <1>1, SpecIInv, PTL

\* One call of ConcurrentQueueSingleSub::waitAndPop at most is under way in each
\* queue, whoever else is refused.
THEOREM NotificationsOneSubscriber == Spec => []OneSubscriber
<1>1. IInv => OneSubscriber
  BY DEF IInv
<1>2. QED
  BY <1>1, SpecIInv, PTL

\* Nothing but sends that overlap ends the process: AlreadyHasSubscriberError never
\* reaches a monitor.
THEOREM NotificationsOnlyOverlapsTerminate == Spec => []OnlyOverlapsTerminate
<1>1. IInv => OnlyOverlapsTerminate
  BY DEF IInv, OverlapInv, OnlyOverlapsTerminate
<1>2. QED
  BY <1>1, SpecIInv, PTL

LEMMA InitMaps == Init => Promise!Init
BY DEF Init, Promise!Init

\* The loop of VisorNotifier extends what was received, by something that comes after
\* everything of its kind unless two sends have overlapped.
LEMMA ReceiveMaps ==
  ASSUME IInv, NEW s \in Subscribers, Receive(s) \/ ReceiveClashed(s)
  PROVE  Promise!Receive(s) \/ Promise!ReceiveAny \/ UNCHANGED <<log, received, overlapped>>
<1>1. CASE overlapped
  <2>1. UNCHANGED <<log, overlapped>>
    BY PassedOn DEF Receive, ReceiveClashed, queue_vars
  <2>2. QED
    BY <1>1, <2>1 DEF Promise!ReceiveAny
<1>2. CASE ~overlapped
  <2>1. /\ pipe[s] # <<>> /\ log' = log /\ overlapped' = overlapped
        /\ \/ received' = received
           \/ received' = [received EXCEPT ![s] = Append(@, Head(pipe[s]))]
    BY <1>2, PassedOn DEF Receive, ReceiveClashed, queue_vars
  <2>2. pipe[s] \in Seq(DOMAIN log)
    BY DEF IInv, TypeOK
  <2>3. Head(pipe[s]) \in DOMAIN log /\ Head(pipe[s]) \in ToSet(pipe[s])
    BY <2>1, <2>2, TailSet
  <2>4. Before(log, ToSet(received[s]), ToSet(pipe[s]))
    BY <1>2 DEF IInv, FlowInv, PipeInv
  <2>5. Promise!IsNext(s, Head(pipe[s]))
    BY <2>3, <2>4 DEF Before, ToSet, Promise!IsNext, Promise!ToSet
  <2>6. QED
    BY <2>1, <2>3, <2>5 DEF Promise!Receive
<1>3. QED
  BY <1>1, <1>2

\* Each kind of notification reaches each web server in the order of posting, and
\* none twice, as long as no two sends have overlapped.
THEOREM NotificationsImplementLog == Spec => ImplementsLog
<1> DEFINE seen == <<log, received, overlapped>>
<1>1. IInv /\ [Next]_vars => [Promise!Next]_seen
  <2> SUFFICES ASSUME IInv, [Next]_vars PROVE [Promise!Next]_seen
    OBVIOUS
  <2>1. ASSUME NEW k \in Kinds, Post(k) PROVE Promise!Post
    BY <2>1 DEF Post, Promise!Post, sub_vars
  <2>2. ASSUME NEW s \in Subscribers, Receive(s) \/ ReceiveClashed(s)
        PROVE  Promise!Receive(s) \/ Promise!ReceiveAny \/ UNCHANGED seen
    BY <2>2, ReceiveMaps
  <2>3. ASSUME StartServing \/ \E s \in Subscribers : SubscriptionArrives(s)
        PROVE  UNCHANGED seen
    BY <2>3 DEF StartServing, StoreSocket, Serve, SubscriptionArrives, queue_vars, sub_vars
  <2>4. ASSUME NEW r \in Readers, Read(r) PROVE UNCHANGED seen
    BY <2>4 DEF Read, Subscribe, Refuse, PopHead, Return, queue_vars, sub_vars
  <2>5. ASSUME NEW m \in Monitored, Monitor(m) PROVE Promise!Break \/ UNCHANGED seen
    <3>1. CASE Read(m)
      BY <2>4, <3>1 DEF Readers
    <3>2. CASE EndSend(m) \/ EndClash(m)
      <4>1. UNCHANGED queue_vars /\ UNCHANGED <<received, overlapped>>
        BY <3>2 DEF EndSend, EndClash, sub_vars
      <4>2. QED
        BY <4>1 DEF queue_vars
    <3>3. CASE TestSocket(m)
      <4>1. UNCHANGED queue_vars /\ UNCHANGED received
        BY <3>3 DEF TestSocket, sub_vars
      <4>2. overlapped \in BOOLEAN /\ overlapped' \in BOOLEAN /\ (overlapped => overlapped')
        BY <3>3 DEF TestSocket, IInv, TypeOK
      <4>3. QED
        BY <4>1, <4>2 DEF queue_vars, Promise!Break
    <3>4. QED
      BY <2>5, <3>1, <3>2, <3>3 DEF Monitor
  <2>6. CASE UNCHANGED vars
    BY <2>6 DEF vars, queue_vars, sub_vars
  <2>7. QED
    BY <2>1, <2>2, <2>3, <2>4, <2>5, <2>6 DEF Next, Readers, Promise!Next
<1>2. QED
  BY <1>1, InitMaps, SpecIInv, PTL DEF Spec, ImplementsLog, Promise!Spec
=============================================================================
