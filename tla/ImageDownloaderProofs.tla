------------------------ MODULE ImageDownloaderProofs ------------------------
(***************************************************************************)
(* The downloader counts right for every number of batches and urls: no    *)
(* image is lost or counted twice, and a batch that is queued as a whole   *)
(* before its first image is counted down gets its callback once, when all *)
(* its images are handled, whatever happens to the other batches.          *)
(***************************************************************************)
EXTENDS ImageDownloader, FiniteSetTheorems, SequenceTheorems, TLAPS

Placed == launch_queue \cup downloading \cup InQueue \cup AtPost \cup handled

\* The place of the serve thread, and how far it is in a batch.
ServeInv ==
  /\ serve \in {"url", "read", "write", "push"} =>
       current \in Batches /\ queued[current] < NumUrls
  /\ serve # "dead" =>
       \A b \in Batches : ~Queueing(b) => queued[b] \in {0, NumUrls}
  /\ serve = "dead" <=> post = "dead"

\* The image at the post thread.
ImageInv ==
  /\ post \notin {"idle", "dead"} => image \in Images
  /\ post \in {"remaining", "callback"} => image \in handled

\* The images on their way are some that the loop has been through, so that the
\* one it pushes is new.
QueuedInv == \A i \in Placed : i[2] <= queued[i[1]]

\* No image is twice in the queue.
DistinctInv ==
  \A j, k \in 1..Len(postprocess_queue) :
    postprocess_queue[j][1] = postprocess_queue[k][1] => j = k

\* The places of an image exclude each other.
DisjointInv ==
  /\ launch_queue \cap (downloading \cup InQueue \cup AtPost \cup handled) = {}
  /\ downloading \cap (InQueue \cup AtPost \cup handled) = {}
  /\ InQueue \cap (AtPost \cup handled) = {}
  /\ AtPost \cap handled = {}

\* A count that was read is still the count when it is written, as the other
\* thread is elsewhere: this is what overlap excludes.
ReadInv ==
  \A b \in Batches : ~overlap[b] =>
    /\ post \in {"write", "remaining", "callback"} /\ image[1] = b => ~Queueing(b)
    /\ post = "write" /\ image[1] = b => count = image_count[b]
    /\ serve = "write" /\ current = b => value = image_count[b]

\* A callback that is about to be called is the first one of its batch, and
\* finds all images handled.
CallbackInv ==
  \A b \in Batches : ~overlap[b] =>
    /\ called[b] <= 1
    /\ post \in {"remaining", "callback"} /\ image[1] = b => called[b] = 0
    /\ called[b] > 0 \/ (post = "callback" /\ image[1] = b) =>
         Outstanding(b) = {} /\ queued[b] = NumUrls

PlaceInv == TypeOK /\ ServeInv /\ ImageInv /\ QueuedInv /\ DistinctInv /\ DisjointInv

IInv == PlaceInv /\ ReadInv /\ CountIsOutstanding /\ CallbackInv

-----------------------------------------------------------------------------
(* The queue of the post thread *)

Firsts(q) == {q[k][1] : k \in 1..Len(q)}

LEMMA FirstsAppend ==
  ASSUME NEW q \in Seq(Images \X BOOLEAN), NEW e \in Images \X BOOLEAN
  PROVE  Firsts(Append(q, e)) = Firsts(q) \cup {e[1]}
<1>1. /\ Len(q) \in Nat /\ Len(Append(q, e)) = Len(q) + 1
      /\ Append(q, e)[Len(q) + 1] = e
      /\ \A k \in 1..Len(q) : Append(q, e)[k] = q[k]
  OBVIOUS
<1>2. 1..(Len(q) + 1) = 1..Len(q) \cup {Len(q) + 1}
  BY <1>1
<1> QED BY <1>1, <1>2 DEF Firsts

LEMMA FirstsTail ==
  ASSUME NEW q \in Seq(Images \X BOOLEAN), q # <<>>,
         \A j, k \in 1..Len(q) : q[j][1] = q[k][1] => j = k
  PROVE  /\ Firsts(q) = Firsts(Tail(q)) \cup {Head(q)[1]}
         /\ Head(q)[1] \notin Firsts(Tail(q))
         /\ \A j, k \in 1..Len(Tail(q)) : Tail(q)[j][1] = Tail(q)[k][1] => j = k
<1>1. /\ Len(q) \in Nat \ {0} /\ Len(Tail(q)) = Len(q) - 1 /\ Head(q) = q[1]
      /\ \A k \in 1..(Len(q) - 1) : Tail(q)[k] = q[k + 1]
  BY HeadTailProperties, EmptySeq
<1>2. Firsts(q) \subseteq Firsts(Tail(q)) \cup {Head(q)[1]}
  <2> SUFFICES ASSUME NEW k \in 1..Len(q), k # 1
               PROVE  q[k][1] \in Firsts(Tail(q))
    BY <1>1 DEF Firsts
  <2>1. k - 1 \in 1..(Len(q) - 1) /\ Tail(q)[k - 1] = q[k]
    BY <1>1
  <2> QED BY <1>1, <2>1 DEF Firsts
<1>3. Firsts(Tail(q)) \subseteq Firsts(q) /\ Head(q)[1] \in Firsts(q)
  <2>1. \A k \in 1..(Len(q) - 1) : k + 1 \in 1..Len(q)
    BY <1>1
  <2> QED BY <1>1, <2>1 DEF Firsts
<1>4. Head(q)[1] \notin Firsts(Tail(q))
  <2> SUFFICES ASSUME NEW k \in 1..(Len(q) - 1), q[1][1] = q[k + 1][1] PROVE FALSE
    BY <1>1 DEF Firsts
  <2> QED BY <1>1, 1 \in 1..Len(q), k + 1 \in 1..Len(q), k + 1 # 1
<1>5. \A j, k \in 1..Len(Tail(q)) : Tail(q)[j][1] = Tail(q)[k][1] => j = k
  <2> SUFFICES ASSUME NEW j \in 1..(Len(q) - 1), NEW k \in 1..(Len(q) - 1),
                      q[j + 1][1] = q[k + 1][1]
               PROVE  j = k
    BY <1>1
  <2> QED BY <1>1, j + 1 \in 1..Len(q), k + 1 \in 1..Len(q)
<1> QED BY <1>2, <1>3, <1>4, <1>5

LEMMA FirstsCount ==
  ASSUME NEW q \in Seq(Images \X BOOLEAN),
         \A j, k \in 1..Len(q) : q[j][1] = q[k][1] => j = k
  PROVE  Cardinality(Firsts(q)) = Len(q)
<1> DEFINE n == Len(q)
           f == [k \in 1..n |-> q[k][1]]
<1>1. f \in Bijection(1..n, Firsts(q)) /\ n \in Nat
  BY DEF Bijection, Injection, Surjection, IsInjective, Firsts
<1> HIDE DEF n, f
<1>2. ExistsBijection(1..n, Firsts(q))
  BY <1>1 DEF ExistsBijection
<1>3. 1 \in Int /\ n \in Int
  BY <1>1
<1>4. IsFiniteSet(1..n)
  BY <1>3, FS_Interval
<1>5. Cardinality(1..n) = IF 1 > n THEN 0 ELSE n - 1 + 1
  BY <1>3, FS_Interval
<1>6. Cardinality(1..n) = n
  BY <1>1, <1>5
<1>7. Cardinality(Firsts(q)) = Cardinality(1..n)
  BY <1>2, <1>4, FS_Bijection
<1> QED BY <1>6, <1>7 DEF n

\* The images of a batch are finitely many.
LEMMA OutstandingFinite ==
  ASSUME TypeOK, ImageInv, NEW b \in Batches
  PROVE  IsFiniteSet(Outstanding(b))
<1>1. InQueue \subseteq Images
  <2> SUFFICES ASSUME NEW k \in 1..Len(postprocess_queue)
               PROVE  postprocess_queue[k][1] \in Images
    BY DEF InQueue
  <2> QED BY ElementOfSeq DEF TypeOK
<1>2. AtPost \subseteq Images
  BY DEF AtPost, ImageInv
<1>3. Outstanding(b) \in SUBSET ({b} \X (1..NumUrls))
  <2> SUFFICES ASSUME NEW i \in Outstanding(b) PROVE i \in {b} \X (1..NumUrls)
    OBVIOUS
  <2>1. i \in Images /\ i[1] = b
    BY <1>1, <1>2 DEF Outstanding, TypeOK
  <2> QED BY <2>1 DEF Images
<1>4. IsFiniteSet({b})
  BY FS_Singleton
<1>5. IsFiniteSet(1..NumUrls)
  BY FS_Interval, DownloaderAssumption
<1>6. IsFiniteSet({b} \X (1..NumUrls))
  BY <1>4, <1>5, FS_Product
<1> QED BY <1>3, <1>6, FS_Subset

-----------------------------------------------------------------------------
(* Places *)

LEMMA RespondQueue ==
  ASSUME PlaceInv, NEW i \in Images, NEW completed \in BOOLEAN,
         Respond(i, completed)
  PROVE  /\ postprocess_queue' \in Seq(Images \X BOOLEAN)
         /\ InQueue' = InQueue \cup {i}
         /\ DistinctInv'
<1> DEFINE q == postprocess_queue
           e == <<i, completed>>
<1>1. q \in Seq(Images \X BOOLEAN) /\ e \in Images \X BOOLEAN /\ e[1] = i
  BY DEF PlaceInv, TypeOK
<1>2. postprocess_queue' = Append(q, e) /\ i \in downloading
  BY DEF Respond
<1>3. /\ Len(q) \in Nat /\ Len(Append(q, e)) = Len(q) + 1
      /\ Append(q, e)[Len(q) + 1] = e
      /\ \A k \in 1..Len(q) : Append(q, e)[k] = q[k]
      /\ Append(q, e) \in Seq(Images \X BOOLEAN)
  BY <1>1
<1>4. InQueue = Firsts(q) /\ InQueue' = Firsts(Append(q, e))
  BY <1>2 DEF InQueue, Firsts
<1>5. InQueue' = InQueue \cup {i}
  BY <1>1, <1>4, FirstsAppend
<1>6. \A k \in 1..Len(q) : q[k][1] # i
  BY <1>2 DEF PlaceInv, DisjointInv, InQueue
<1>7. DistinctInv'
  <2> SUFFICES ASSUME NEW j \in 1..(Len(q) + 1), NEW k \in 1..(Len(q) + 1),
                      Append(q, e)[j][1] = Append(q, e)[k][1]
               PROVE  j = k
    BY <1>2, <1>3 DEF DistinctInv
  <2>1. CASE j \in 1..Len(q) /\ k \in 1..Len(q)
    BY <1>3, <2>1 DEF PlaceInv, DistinctInv
  <2>2. CASE j = Len(q) + 1 /\ k \in 1..Len(q)
    BY <1>1, <1>3, <1>6, <2>2
  <2>3. CASE k = Len(q) + 1 /\ j \in 1..Len(q)
    BY <1>1, <1>3, <1>6, <2>3
  <2> QED BY <1>3, <2>1, <2>2, <2>3
<1> QED BY <1>2, <1>3, <1>5, <1>7

LEMMA PopQueue ==
  ASSUME PlaceInv, PopImage
  PROVE  /\ postprocess_queue' \in Seq(Images \X BOOLEAN)
         /\ image' \in Images /\ AtPost = {} /\ AtPost' = {image'}
         /\ InQueue = InQueue' \cup {image'} /\ image' \notin InQueue'
         /\ DistinctInv'
<1> DEFINE q == postprocess_queue
<1>1. q \in Seq(Images \X BOOLEAN) /\ q # <<>>
  BY DEF PlaceInv, TypeOK, PopImage
<1>2. \A j, k \in 1..Len(q) : q[j][1] = q[k][1] => j = k
  BY DEF PlaceInv, DistinctInv
<1>3. Head(q) \in Images \X BOOLEAN /\ Tail(q) \in Seq(Images \X BOOLEAN)
  BY <1>1, HeadTailProperties
<1>4. postprocess_queue' = Tail(q) /\ image' = Head(q)[1]
  BY DEF PopImage
<1>5. InQueue = Firsts(q) /\ InQueue' = Firsts(Tail(q))
  BY <1>4 DEF InQueue, Firsts
<1>6. /\ Firsts(q) = Firsts(Tail(q)) \cup {Head(q)[1]}
      /\ Head(q)[1] \notin Firsts(Tail(q))
      /\ \A j, k \in 1..Len(Tail(q)) : Tail(q)[j][1] = Tail(q)[k][1] => j = k
  BY <1>1, <1>2, FirstsTail
<1>7. DistinctInv'
  BY <1>4, <1>6 DEF DistinctInv
<1>8. AtPost = {} /\ AtPost' = {image'}
  BY DEF AtPost, PopImage
<1> QED BY <1>3, <1>4, <1>5, <1>6, <1>7, <1>8

LEMMA TypeStep ==
  ASSUME PlaceInv, [Next]_vars
  PROVE  TypeOK' /\ ServeInv' /\ ImageInv'
<1> USE DownloaderAssumption
        DEF PlaceInv, TypeOK, ServeInv, ImageInv, Queueing, NextUrl,
            serve_vars, post_vars, fetch_vars, result_vars
<1>1. ASSUME NEW b \in Batches, StartBatch(b)
      PROVE TypeOK' /\ ServeInv' /\ ImageInv'
  BY <1>1 DEF StartBatch
<1>2. ASSUME SkipHttps PROVE TypeOK' /\ ServeInv' /\ ImageInv'
  BY <1>2 DEF SkipHttps
<1>3. ASSUME PrepareUrl \/ ReadToAdd \/ WriteAdded
      PROVE TypeOK' /\ ServeInv' /\ ImageInv'
  BY <1>3 DEF PrepareUrl, ReadToAdd, WriteAdded
<1>4. ASSUME PushLaunch PROVE TypeOK' /\ ServeInv' /\ ImageInv'
  <2>1. /\ current \in Batches
        /\ queued' = [queued EXCEPT ![current] = queued[current] + 1]
        /\ queued[current] + 1 \in 1..NumUrls
    BY <1>4 DEF PushLaunch
  <2>2. launch_queue' \subseteq Images
    BY <1>4, <2>1 DEF PushLaunch, Images
  <2> QED BY <1>4, <2>1, <2>2 DEF PushLaunch
<1>5. ASSUME PopImage PROVE TypeOK' /\ ServeInv' /\ ImageInv'
  BY <1>5, PopQueue DEF PopImage
<1>6. ASSUME Process \/ ReadToSubtract \/ WriteSubtracted \/ Callback
      PROVE TypeOK' /\ ServeInv' /\ ImageInv'
  <2>1. image \in Images /\ image[1] \in Batches
    BY <1>6 DEF Process, ReadToSubtract, WriteSubtracted, Callback, Images
  <2>2. CASE Process
    BY <2>1, <2>2 DEF Process
  <2>3. CASE ReadToSubtract
    BY <2>1, <2>3 DEF ReadToSubtract
  <2>4. CASE WriteSubtracted
    BY <2>1, <2>4 DEF WriteSubtracted
  <2>5. CASE Callback
    BY <2>1, <2>5 DEF Callback
  <2> QED BY <1>6, <2>2, <2>3, <2>4, <2>5
<1>7. ASSUME TestRemaining PROVE TypeOK' /\ ServeInv' /\ ImageInv'
  <2>1. image \in Images /\ image[1] \in Batches
    BY <1>7 DEF TestRemaining, Images
  <2> QED BY <1>7, <2>1 DEF TestRemaining
<1>8. ASSUME NEW i \in Images, Launch(i) PROVE TypeOK' /\ ServeInv' /\ ImageInv'
  BY <1>8 DEF Launch
<1>9. ASSUME NEW i \in Images, NEW completed \in BOOLEAN, Respond(i, completed)
      PROVE TypeOK' /\ ServeInv' /\ ImageInv'
  BY <1>9, RespondQueue DEF Respond
<1>10. CASE UNCHANGED vars
  BY <1>10 DEF vars
<1> QED BY <1>1, <1>2, <1>3, <1>4, <1>5, <1>6, <1>7, <1>8, <1>9, <1>10
        DEF Next, ServeStep, PostStep

\* The image that is pushed is new: the loop has not been through it before.
LEMMA PushIsNew ==
  ASSUME PlaceInv, PushLaunch
  PROVE  /\ current \in Batches /\ queued[current] < NumUrls
         /\ queued' = [queued EXCEPT ![current] = queued[current] + 1]
         /\ launch_queue' = launch_queue \cup {<<current, queued[current] + 1>>}
         /\ <<current, queued[current] + 1>> \notin Placed
<1>1. current \in Batches /\ queued[current] < NumUrls /\ queued[current] \in Int
  BY DEF PushLaunch, PlaceInv, ServeInv, TypeOK
<1>2. queued' = [queued EXCEPT ![current] = queued[current] + 1]
  BY DEF PushLaunch
<1>3. queued'[current] = queued[current] + 1
  BY <1>1, <1>2 DEF PlaceInv, TypeOK
<1>4. launch_queue' = launch_queue \cup {<<current, queued[current] + 1>>}
  BY <1>3 DEF PushLaunch
<1>5. <<current, queued[current] + 1>> \notin Placed
  BY <1>1 DEF PlaceInv, QueuedInv
<1> QED BY <1>1, <1>2, <1>4, <1>5

LEMMA PlaceStep ==
  ASSUME PlaceInv, [Next]_vars
  PROVE  QueuedInv' /\ DistinctInv' /\ DisjointInv'
<1> DEFINE Goal == QueuedInv' /\ DistinctInv' /\ DisjointInv'
<1>0. /\ QueuedInv /\ DistinctInv /\ DisjointInv
      /\ \A i \in Placed : i \in Images /\ queued[i[1]] \in Int
  <2>1. InQueue \subseteq Images
    <3> SUFFICES ASSUME NEW k \in 1..Len(postprocess_queue)
                 PROVE  postprocess_queue[k][1] \in Images
      BY DEF InQueue
    <3> QED BY ElementOfSeq DEF PlaceInv, TypeOK
  <2>2. Placed \subseteq Images
    BY <2>1 DEF Placed, AtPost, PlaceInv, TypeOK, ImageInv
  <2> QED BY <2>2 DEF PlaceInv, TypeOK, Images
\* Steps that move no image.
<1>1. ASSUME Placed' = Placed, launch_queue' = launch_queue,
             downloading' = downloading, postprocess_queue' = postprocess_queue,
             AtPost' = AtPost, handled' = handled,
             \A b \in Batches : queued'[b] \in Int /\ queued[b] <= queued'[b]
      PROVE Goal
  <2>1. InQueue' = InQueue
    BY <1>1 DEF InQueue
  <2>2. QueuedInv'
    <3> SUFFICES ASSUME NEW i \in Placed PROVE i[2] <= queued'[i[1]]
      BY <1>1 DEF QueuedInv
    <3>1. i \in Images /\ i[2] <= queued[i[1]] /\ queued[i[1]] \in Int
      BY <1>0 DEF QueuedInv
    <3> QED BY <1>1, <3>1 DEF Images
  <2> QED BY <1>0, <1>1, <2>1, <2>2 DEF DistinctInv, DisjointInv
<1>2. ASSUME NEW b \in Batches, StartBatch(b) PROVE Goal
  BY <1>1, <1>2
     DEF StartBatch, fetch_vars, post_vars, result_vars, PlaceInv, TypeOK,
         Placed, InQueue, AtPost
<1>3. ASSUME SkipHttps PROVE Goal
  <2>1. \A b \in Batches : queued'[b] \in Int /\ queued[b] <= queued'[b]
    BY <1>3 DEF SkipHttps, PlaceInv, TypeOK, ServeInv
  <2> QED BY <1>1, <1>3, <2>1
          DEF SkipHttps, fetch_vars, post_vars, result_vars, Placed, InQueue,
              AtPost
<1>4. ASSUME PrepareUrl \/ ReadToAdd \/ WriteAdded PROVE Goal
  <2>1. UNCHANGED <<queued, fetch_vars, postprocess_queue, post_vars, result_vars>>
    BY <1>4 DEF PrepareUrl, ReadToAdd, WriteAdded
  <2> QED BY <1>1, <2>1 DEF fetch_vars, post_vars, result_vars, PlaceInv, TypeOK,
                            Placed, InQueue, AtPost
<1>5. ASSUME PushLaunch PROVE Goal
  <2> DEFINE new == <<current, queued[current] + 1>>
  <2>1. /\ current \in Batches /\ queued[current] < NumUrls
        /\ queued' = [queued EXCEPT ![current] = queued[current] + 1]
        /\ launch_queue' = launch_queue \cup {new} /\ new \notin Placed
    BY <1>5, PushIsNew
  <2>2. /\ downloading' = downloading /\ InQueue' = InQueue /\ AtPost' = AtPost
        /\ handled' = handled /\ DistinctInv'
    BY <1>0, <1>5
       DEF PushLaunch, post_vars, result_vars, InQueue, AtPost, DistinctInv
  <2>3. QueuedInv'
    <3> SUFFICES ASSUME NEW i \in Placed' PROVE i[2] <= queued'[i[1]]
      BY DEF QueuedInv
    <3>1. CASE i \in Placed
      BY <1>0, <2>1, <3>1 DEF PlaceInv, TypeOK, Images, QueuedInv
    <3>2. CASE i = new
      BY <2>1, <3>2 DEF PlaceInv, TypeOK
    <3> QED BY <2>1, <2>2, <3>1, <3>2 DEF Placed
  <2>4. DisjointInv'
    BY <1>0, <2>1, <2>2 DEF DisjointInv, Placed
  <2> QED BY <2>2, <2>3, <2>4
<1>6. ASSUME NEW i \in Images, Launch(i) PROVE Goal
  <2>1. /\ i \in launch_queue /\ launch_queue' = launch_queue \ {i}
        /\ downloading' = downloading \cup {i} /\ queued' = queued
        /\ InQueue' = InQueue /\ AtPost' = AtPost /\ handled' = handled
        /\ DistinctInv'
    BY <1>0, <1>6
       DEF Launch, serve_vars, post_vars, result_vars, InQueue, AtPost, DistinctInv
  <2>2. Placed' = Placed
    BY <2>1 DEF Placed
  <2> QED BY <1>0, <2>1, <2>2 DEF QueuedInv, DisjointInv
<1>7. ASSUME NEW i \in Images, NEW completed \in BOOLEAN, Respond(i, completed)
      PROVE Goal
  <2>1. /\ i \in downloading /\ downloading' = downloading \ {i}
        /\ launch_queue' = launch_queue /\ AtPost' = AtPost /\ handled' = handled
        /\ queued' = queued
    BY <1>7 DEF Respond, serve_vars, post_vars, result_vars, AtPost
  <2>2. InQueue' = InQueue \cup {i} /\ DistinctInv'
    BY <1>7, RespondQueue
  <2>3. Placed' = Placed
    BY <2>1, <2>2 DEF Placed
  <2> QED BY <1>0, <2>1, <2>2, <2>3 DEF QueuedInv, DisjointInv
<1>8. ASSUME PopImage PROVE Goal
  <2>1. /\ launch_queue' = launch_queue /\ downloading' = downloading
        /\ handled' = handled /\ queued' = queued
    BY <1>8 DEF PopImage, serve_vars, fetch_vars, result_vars
  <2>2. /\ AtPost = {} /\ AtPost' = {image'}
        /\ InQueue = InQueue' \cup {image'} /\ image' \notin InQueue'
        /\ DistinctInv'
    BY <1>8, PopQueue
  <2>3. Placed' = Placed
    BY <2>1, <2>2 DEF Placed
  <2> QED BY <1>0, <2>1, <2>2, <2>3 DEF QueuedInv, DisjointInv
<1>9. ASSUME Process \/ ReadToSubtract \/ TestRemaining \/ Callback PROVE Goal
  <2>1. /\ launch_queue' = launch_queue /\ downloading' = downloading
        /\ handled' = handled /\ queued' = queued /\ AtPost' = AtPost
        /\ postprocess_queue' = postprocess_queue
    BY <1>9 DEF Process, ReadToSubtract, TestRemaining, Callback, serve_vars,
                fetch_vars, result_vars, AtPost
  <2>2. Placed' = Placed
    BY <2>1 DEF Placed, InQueue
  <2> QED BY <1>1, <2>1, <2>2 DEF PlaceInv, TypeOK
<1>10. ASSUME WriteSubtracted PROVE Goal
  <2>1. /\ launch_queue' = launch_queue /\ downloading' = downloading
        /\ handled' = handled \cup {image} /\ queued' = queued
        /\ AtPost = {image} /\ AtPost' = {}
        /\ InQueue' = InQueue /\ DistinctInv'
    BY <1>0, <1>10 DEF WriteSubtracted, serve_vars, fetch_vars, AtPost, InQueue,
                 DistinctInv
  <2>2. Placed' = Placed
    BY <2>1 DEF Placed
  <2> QED BY <1>0, <2>1, <2>2 DEF QueuedInv, DisjointInv
<1>11. CASE UNCHANGED vars
  BY <1>1, <1>11
     DEF vars, serve_vars, fetch_vars, post_vars, result_vars, PlaceInv, TypeOK,
         Placed, InQueue, AtPost
<1> QED BY <1>2, <1>3, <1>4, <1>5, <1>6, <1>7, <1>8, <1>9, <1>10, <1>11
        DEF Next, ServeStep, PostStep

LEMMA PlaceInvStep == PlaceInv /\ [Next]_vars => PlaceInv'
  BY TypeStep, PlaceStep DEF PlaceInv

-----------------------------------------------------------------------------
(* Counts *)

\* An image becomes outstanding when it is pushed, and is no more when it is
\* counted down; every other step leaves it so, although it moves on.
LEMMA OutstandingStep ==
  ASSUME PlaceInv, [Next]_vars, NEW b \in Batches
  PROVE  \/ /\ PushLaunch /\ current = b
            /\ \E i : i \notin Outstanding(b)
                      /\ Outstanding(b)' = Outstanding(b) \cup {i}
         \/ /\ WriteSubtracted /\ image[1] = b /\ image \in Outstanding(b)
            /\ Outstanding(b)' = Outstanding(b) \ {image}
         \/ /\ ~(PushLaunch /\ current = b) /\ ~(WriteSubtracted /\ image[1] = b)
            /\ Outstanding(b)' = Outstanding(b)
<1> DEFINE Places == launch_queue \cup downloading \cup InQueue \cup AtPost
<1>1. Outstanding(b) = {i \in Places : i[1] = b}
  BY DEF Outstanding
<1>2. ASSUME PushLaunch
      PROVE  \E i : /\ i \notin Places /\ Places' = Places \cup {i}
                    /\ i[1] = current
  <2> DEFINE new == <<current, queued[current] + 1>>
  <2>1. /\ launch_queue' = launch_queue \cup {new} /\ new \notin Placed
    BY <1>2, PushIsNew
  <2>2. /\ downloading' = downloading /\ InQueue' = InQueue /\ AtPost' = AtPost
    BY <1>2 DEF PushLaunch, post_vars, result_vars, InQueue, AtPost
  <2> QED BY <2>1, <2>2 DEF Placed
<1>3. ASSUME WriteSubtracted
      PROVE  image \in Places /\ Places' = Places \ {image}
  <2>1. /\ launch_queue' = launch_queue /\ downloading' = downloading
        /\ AtPost = {image} /\ AtPost' = {} /\ InQueue' = InQueue
    BY <1>3 DEF WriteSubtracted, fetch_vars, AtPost, InQueue
  <2> QED BY <2>1 DEF PlaceInv, DisjointInv
<1>4. ASSUME ~PushLaunch, ~WriteSubtracted PROVE Places' = Places
  <2>1. ASSUME NEW i \in Images, Launch(i) PROVE Places' = Places
    BY <2>1 DEF Launch, post_vars, InQueue, AtPost
  <2>2. ASSUME NEW i \in Images, NEW completed \in BOOLEAN, Respond(i, completed)
        PROVE Places' = Places
    <3>1. InQueue' = InQueue \cup {i}
      BY <2>2, RespondQueue
    <3> QED BY <2>2, <3>1 DEF Respond, post_vars, AtPost
  <2>3. ASSUME PopImage PROVE Places' = Places
    <3>1. AtPost = {} /\ AtPost' = {image'} /\ InQueue = InQueue' \cup {image'}
      BY <2>3, PopQueue
    <3> QED BY <2>3, <3>1 DEF PopImage, fetch_vars
  <2>4. ASSUME NEW c \in Batches, StartBatch(c) PROVE Places' = Places
    BY <2>4 DEF StartBatch, fetch_vars, post_vars, InQueue, AtPost
  <2>5. ASSUME SkipHttps \/ PrepareUrl \/ ReadToAdd \/ WriteAdded
        PROVE Places' = Places
    BY <2>5 DEF SkipHttps, PrepareUrl, ReadToAdd, WriteAdded, fetch_vars,
                post_vars, InQueue, AtPost
  <2>6. ASSUME Process \/ ReadToSubtract \/ TestRemaining \/ Callback
        PROVE Places' = Places
    BY <2>6 DEF Process, ReadToSubtract, TestRemaining, Callback, fetch_vars,
                InQueue, AtPost
  <2>7. CASE UNCHANGED vars
    BY <2>7 DEF vars, fetch_vars, post_vars, InQueue, AtPost
  <2> QED BY <1>4, <2>1, <2>2, <2>3, <2>4, <2>5, <2>6, <2>7
          DEF Next, ServeStep, PostStep
<1>5. Outstanding(b)' = {i \in Places' : i[1] = b}
  BY DEF Outstanding
<1>6. ~(PushLaunch /\ WriteSubtracted)
  BY DEF PushLaunch, WriteSubtracted, post_vars
<1> HIDE DEF Places
<1> QED BY <1>1, <1>2, <1>3, <1>4, <1>5, <1>6

\* While the post thread is at an image of b that was counted down after b was
\* queued, the serve thread does not come back to b.
LEMMA NotQueueingAgain ==
  ASSUME PlaceInv, [Next]_vars, NEW b \in Batches, ~Queueing(b), Queueing(b)'
  PROVE  StartBatch(b) /\ \A i \in Placed : i \in Images => i[1] # b
<1>1. StartBatch(b)
  BY DEF Next, vars, ServeStep, PostStep, StartBatch, SkipHttps, PrepareUrl,
         ReadToAdd, WriteAdded, PushLaunch, NextUrl, Launch, Respond, PopImage,
         Process, ReadToSubtract, WriteSubtracted, TestRemaining, Callback,
         serve_vars, Queueing
<1>2. \A i \in Placed : i \in Images => i[1] # b
  BY <1>1 DEF StartBatch, PlaceInv, QueuedInv, Images
<1> QED BY <1>1, <1>2

LEMMA ReadStep ==
  ASSUME PlaceInv, ReadInv, [Next]_vars
  PROVE  ReadInv'
<1> SUFFICES ASSUME NEW b \in Batches, ~overlap'[b]
             PROVE  /\ post' \in {"write", "remaining", "callback"} /\ image'[1] = b
                         => ~Queueing(b)'
                    /\ post' = "write" /\ image'[1] = b => count' = image_count'[b]
                    /\ serve' = "write" /\ current' = b => value' = image_count'[b]
  BY DEF ReadInv
<1> DEFINE AtB == post \in {"write", "remaining", "callback"} /\ image[1] = b
           Goal == /\ AtB' => ~Queueing(b)'
                   /\ post' = "write" /\ image'[1] = b => count' = image_count'[b]
                   /\ serve' = "write" /\ current' = b => value' = image_count'[b]
<1>1. ~overlap[b]
  BY DEF PlaceInv, TypeOK, Next, vars, ServeStep, PostStep, StartBatch, SkipHttps,
         PrepareUrl, ReadToAdd, WriteAdded, PushLaunch, Launch, Respond, PopImage,
         Process, ReadToSubtract, WriteSubtracted, TestRemaining, Callback,
         result_vars
<1>2. /\ AtB => ~Queueing(b)
      /\ post = "write" /\ image[1] = b => count = image_count[b]
      /\ serve = "write" /\ current = b => value = image_count[b]
  BY <1>1 DEF ReadInv
<1>3. AtB => image \in Placed /\ image \in Images
  BY DEF PlaceInv, ImageInv, Placed, AtPost
<1>4. AtB => ~Queueing(b)' /\ ~StartBatch(b)
  <2>1. AtB => ~StartBatch(b)
    BY <1>3 DEF StartBatch, PlaceInv, QueuedInv, Images
  <2> QED BY <1>2, <1>3, <2>1, NotQueueingAgain
<1>5. ASSUME NEW c \in Batches, StartBatch(c) PROVE Goal
  BY <1>2, <1>4, <1>5 DEF StartBatch, post_vars, PlaceInv, TypeOK
<1>6. ASSUME SkipHttps \/ PrepareUrl \/ ReadToAdd \/ PushLaunch PROVE Goal
  <2>1. UNCHANGED <<current, image_count, post_vars>>
        /\ (serve' = "write" => ReadToAdd)
    BY <1>6 DEF SkipHttps, PrepareUrl, ReadToAdd, PushLaunch, NextUrl
  <2>2. ReadToAdd => value' = image_count[current]
    BY DEF ReadToAdd
  <2> QED BY <1>2, <1>4, <2>1, <2>2 DEF post_vars
<1>7. ASSUME WriteAdded PROVE Goal
  <2>1. ~AtB \/ current # b
    BY <1>2, <1>7 DEF WriteAdded, Queueing
  <2> QED BY <1>2, <1>4, <1>7, <2>1 DEF WriteAdded, post_vars, PlaceInv, TypeOK
<1>8. ASSUME PopImage \/ Process \/ TestRemaining \/ Callback PROVE Goal
  <2>1. /\ image_count' = image_count /\ post' # "write"
        /\ serve' = "write" => serve = "write" /\ current' = current /\ value' = value
        /\ AtB' => AtB
    BY <1>8 DEF PopImage, Process, TestRemaining, Callback, serve_vars
  <2> QED BY <1>2, <1>4, <2>1
<1>9. ASSUME ReadToSubtract PROVE Goal
  <2>1. image \in Images
    BY <1>9 DEF ReadToSubtract, PlaceInv, ImageInv
  <2>2. image[1] = b => ~Queueing(b) /\ count' = image_count[b]
    BY <1>9, <2>1 DEF ReadToSubtract, PlaceInv, TypeOK
  <2> QED BY <1>2, <1>9, <2>2 DEF ReadToSubtract, serve_vars, Queueing
<1>10. ASSUME WriteSubtracted PROVE Goal
  <2>1. image[1] = b => AtB
    BY <1>10 DEF WriteSubtracted
  <2>2. serve = "write" /\ current = b => image[1] # b
    BY <1>2, <2>1 DEF Queueing
  <2>3. image[1] # b => image_count'[b] = image_count[b]
    BY <1>10 DEF WriteSubtracted, PlaceInv, TypeOK
  <2> QED BY <1>2, <1>4, <1>10, <2>1, <2>2, <2>3 DEF WriteSubtracted, serve_vars
<1>11. ASSUME NEW i \in Images, NEW completed \in BOOLEAN,
              Launch(i) \/ Respond(i, completed)
       PROVE Goal
  BY <1>2, <1>4, <1>11 DEF Launch, Respond, serve_vars, post_vars
<1>12. CASE UNCHANGED vars
  BY <1>2, <1>4, <1>12 DEF vars, serve_vars, post_vars
<1> QED BY <1>5, <1>6, <1>7, <1>8, <1>9, <1>10, <1>11, <1>12
        DEF Next, ServeStep, PostStep

LEMMA CountStep ==
  ASSUME PlaceInv, ReadInv, CountIsOutstanding, [Next]_vars
  PROVE  CountIsOutstanding'
<1> DEFINE Pushing(b) == IF current = b /\ serve = "push" THEN 1 ELSE 0
<1> SUFFICES ASSUME NEW b \in Batches, ~overlap'[b], post' # "dead"
             PROVE  image_count'[b] = Cardinality(Outstanding(b)') + Pushing(b)'
  BY DEF CountIsOutstanding
<1>1. ~overlap[b] /\ post # "dead"
  BY DEF PlaceInv, TypeOK, Next, vars, ServeStep, PostStep, StartBatch, SkipHttps,
         PrepareUrl, ReadToAdd, WriteAdded, PushLaunch, Launch, Respond, PopImage,
         Process, ReadToSubtract, WriteSubtracted, TestRemaining, Callback,
         result_vars, post_vars
<1>2. image_count[b] = Cardinality(Outstanding(b)) + Pushing(b)
  BY <1>1 DEF CountIsOutstanding
<1>3. IsFiniteSet(Outstanding(b)) /\ Cardinality(Outstanding(b)) \in Nat
  BY OutstandingFinite, FS_CardinalityType DEF PlaceInv
<1>4. ASSUME NEW c \in Batches, StartBatch(c)
      PROVE image_count'[b] = Cardinality(Outstanding(b)') + Pushing(b)'
  <2>1. Outstanding(b)' = Outstanding(b)
    BY <1>4, OutstandingStep DEF StartBatch, PushLaunch, WriteSubtracted, post_vars
  <2>2. CASE c = b
    <3>1. Outstanding(b) \subseteq Placed
      BY DEF Outstanding, Placed
    <3>2. Outstanding(b) = {}
      <4> SUFFICES ASSUME NEW i \in Outstanding(b) PROVE FALSE
        OBVIOUS
      <4>1. i[1] = b /\ i[2] <= queued[b]
        BY <3>1 DEF Outstanding, PlaceInv, QueuedInv
      <4>2. InQueue \subseteq Images
        <5> SUFFICES ASSUME NEW k \in 1..Len(postprocess_queue)
                     PROVE  postprocess_queue[k][1] \in Images
          BY DEF InQueue
        <5> QED BY ElementOfSeq DEF PlaceInv, TypeOK
      <4>3. i \in Images
        BY <4>2 DEF Outstanding, AtPost, PlaceInv, TypeOK, ImageInv
      <4> QED BY <1>4, <2>2, <4>1, <4>3 DEF StartBatch, Images
    <3> QED BY <1>4, <2>1, <2>2, <3>2, FS_EmptySet DEF StartBatch, PlaceInv, TypeOK
  <2>3. CASE c # b
    BY <1>2, <1>4, <2>1, <2>3 DEF StartBatch, PlaceInv, TypeOK
  <2> QED BY <2>2, <2>3
<1>5. ASSUME PushLaunch
      PROVE image_count'[b] = Cardinality(Outstanding(b)') + Pushing(b)'
  <2>1. /\ image_count' = image_count /\ current' = current /\ serve = "push"
        /\ serve' # "push"
    BY <1>5 DEF PushLaunch, NextUrl
  <2>2. CASE current = b
    <3>1. PICK i : i \notin Outstanding(b) /\ Outstanding(b)' = Outstanding(b) \cup {i}
      BY <1>5, <2>2, OutstandingStep DEF PushLaunch, WriteSubtracted, post_vars
    <3>2. Cardinality(Outstanding(b)') = Cardinality(Outstanding(b)) + 1
      BY <1>3, <3>1, FS_AddElement
    <3> QED BY <1>2, <1>3, <2>1, <2>2, <3>2
  <2>3. CASE current # b
    BY <1>2, <1>5, <2>1, <2>3, OutstandingStep
       DEF PushLaunch, WriteSubtracted, post_vars
  <2> QED BY <2>2, <2>3
<1>6. ASSUME WriteAdded
      PROVE image_count'[b] = Cardinality(Outstanding(b)') + Pushing(b)'
  <2>1. Outstanding(b)' = Outstanding(b)
    BY <1>6, OutstandingStep DEF WriteAdded, PushLaunch, WriteSubtracted, post_vars
  <2>2. CASE current = b
    <3>1. value = image_count[b] /\ image_count'[b] = value + 1
      BY <1>1, <1>6, <2>2 DEF WriteAdded, ReadInv, PlaceInv, TypeOK
    <3> QED BY <1>2, <1>3, <1>6, <2>1, <2>2, <3>1 DEF WriteAdded
  <2>3. CASE current # b
    BY <1>2, <1>6, <2>1, <2>3 DEF WriteAdded, PlaceInv, TypeOK
  <2> QED BY <2>2, <2>3
<1>7. ASSUME WriteSubtracted
      PROVE image_count'[b] = Cardinality(Outstanding(b)') + Pushing(b)'
  <2>1. /\ current' = current /\ serve' = serve /\ post = "write"
        /\ image_count' = [image_count EXCEPT ![image[1]] = count - 1]
    BY <1>7 DEF WriteSubtracted, serve_vars
  <2>2. CASE image[1] = b
    <3>1. /\ image \in Outstanding(b)
          /\ Outstanding(b)' = Outstanding(b) \ {image}
      BY <1>7, <2>2, OutstandingStep DEF PushLaunch, WriteSubtracted, post_vars
    <3>2. Cardinality(Outstanding(b)') = Cardinality(Outstanding(b)) - 1
      BY <1>3, <3>1, FS_RemoveElement
    <3>3. image_count'[b] = image_count[b] - 1
      BY <1>1, <2>1, <2>2 DEF ReadInv, PlaceInv, TypeOK
    <3>4. Pushing(b)' = Pushing(b) /\ Pushing(b) \in Int
      BY <2>1
    <3> HIDE DEF Pushing
    <3> QED BY <1>2, <1>3, <3>2, <3>3, <3>4
  <2>3. CASE image[1] # b
    <3>1. Outstanding(b)' = Outstanding(b)
      BY <1>7, <2>3, OutstandingStep DEF PushLaunch, WriteSubtracted, post_vars
    <3> QED BY <1>2, <2>1, <2>3, <3>1 DEF PlaceInv, TypeOK
  <2> QED BY <2>2, <2>3
<1>8. ASSUME ~PushLaunch, ~WriteAdded, ~WriteSubtracted,
             \A c \in Batches : ~StartBatch(c)
      PROVE image_count'[b] = Cardinality(Outstanding(b)') + Pushing(b)'
  <2>1. Outstanding(b)' = Outstanding(b)
    BY <1>8, OutstandingStep
  <2>2. /\ image_count' = image_count /\ current' = current
        /\ serve' = "push" <=> serve = "push"
    BY <1>8 DEF PlaceInv, TypeOK, Next, vars, ServeStep, PostStep, SkipHttps,
           PrepareUrl, ReadToAdd, Launch, Respond, PopImage, Process,
           ReadToSubtract, TestRemaining, Callback, NextUrl, serve_vars, post_vars
  <2> QED BY <1>2, <2>1, <2>2
<1> QED BY <1>4, <1>5, <1>6, <1>7, <1>8

\* The count that lets the post thread call the callback is the number of images
\* outstanding, and nothing of the batch comes after that.
LEMMA CallbackStep ==
  ASSUME IInv, [Next]_vars
  PROVE  CallbackInv'
<1> USE DEF IInv
<1> DEFINE Done(b) == called[b] > 0 \/ (post = "callback" /\ image[1] = b)
           Tested(b) == post \in {"remaining", "callback"} /\ image[1] = b
<1> SUFFICES ASSUME NEW b \in Batches, ~overlap'[b]
             PROVE  /\ called'[b] <= 1
                    /\ Tested(b)' => called'[b] = 0
                    /\ Done(b)' => Outstanding(b)' = {} /\ queued'[b] = NumUrls
  BY DEF CallbackInv
<1> DEFINE Goal == /\ called'[b] <= 1
                   /\ Tested(b)' => called'[b] = 0
                   /\ Done(b)' => Outstanding(b)' = {} /\ queued'[b] = NumUrls
<1>1. ~overlap[b]
  BY DEF PlaceInv, TypeOK, Next, vars, ServeStep, PostStep, StartBatch, SkipHttps,
         PrepareUrl, ReadToAdd, WriteAdded, PushLaunch, Launch, Respond, PopImage,
         Process, ReadToSubtract, WriteSubtracted, TestRemaining, Callback,
         result_vars
<1>2. /\ called[b] <= 1
      /\ Tested(b) => called[b] = 0
      /\ Done(b) => Outstanding(b) = {} /\ queued[b] = NumUrls
  BY <1>1 DEF CallbackInv
<1>3. called[b] \in Nat /\ queued[b] \in 0..NumUrls
  BY DEF PlaceInv, TypeOK
<1>4. Tested(b) => image \in Images /\ image \in Placed
  BY DEF PlaceInv, ImageInv, Placed
<1>5. ASSUME TestRemaining PROVE Goal
  <2>1. Outstanding(b)' = Outstanding(b)
    BY <1>5, OutstandingStep
       DEF TestRemaining, PushLaunch, WriteSubtracted, post_vars
  <2>2. /\ called' = called /\ image' = image /\ queued' = queued
        /\ Tested(b)' => Tested(b)
    BY <1>5 DEF TestRemaining, result_vars
  <2>3. ASSUME post' = "callback", image[1] = b
        PROVE  Outstanding(b) = {} /\ queued[b] = NumUrls
    <3>1. image_count[b] = 0 /\ post = "remaining" /\ Tested(b)
      BY <1>5, <2>3 DEF TestRemaining, PlaceInv, TypeOK
    <3>2. ~Queueing(b)
      BY <1>1, <3>1 DEF ReadInv
    <3>3. image_count[b] = Cardinality(Outstanding(b))
      BY <1>1, <3>1, <3>2, OutstandingFinite, FS_CardinalityType
         DEF CountIsOutstanding, Queueing, PlaceInv
    <3>4. Outstanding(b) = {}
      BY <3>1, <3>3, OutstandingFinite, FS_EmptySet DEF PlaceInv
    <3>5. queued[b] \in {0, NumUrls}
      BY <3>1, <3>2 DEF PlaceInv, ServeInv
    <3>6. image[2] \in 1..NumUrls /\ image[2] <= queued[b]
      BY <1>4, <2>3, <3>1 DEF PlaceInv, QueuedInv, Images
    <3> QED BY <1>3, <3>4, <3>5, <3>6
  <2> QED BY <1>2, <2>1, <2>2, <2>3
<1>6. ASSUME WriteSubtracted PROVE Goal
  <2>1. /\ called' = called /\ image' = image /\ queued' = queued
        /\ post' = "remaining"
    BY <1>6 DEF WriteSubtracted, serve_vars
  <2>2. CASE image[1] = b
    <3>1. image \in Outstanding(b)
      BY <1>6, <2>2, OutstandingStep DEF WriteSubtracted, PushLaunch, post_vars
    <3> QED BY <1>2, <1>3, <2>1, <3>1
  <2>3. CASE image[1] # b
    <3>1. Outstanding(b)' = Outstanding(b)
      BY <1>6, <2>3, OutstandingStep DEF WriteSubtracted, PushLaunch, post_vars
    <3> QED BY <1>2, <2>1, <2>3, <3>1
  <2> QED BY <2>2, <2>3
<1>7. ASSUME Callback PROVE Goal
  <2>1. Outstanding(b)' = Outstanding(b)
    BY <1>7, OutstandingStep DEF Callback, PushLaunch, WriteSubtracted, post_vars
  <2>2. /\ called' = [called EXCEPT ![image[1]] = @ + 1]
        /\ queued' = queued /\ post = "callback" /\ post' = "idle"
    BY <1>7 DEF Callback, serve_vars
  <2>3. called'[b] = IF image[1] = b THEN called[b] + 1 ELSE called[b]
    BY <2>2 DEF PlaceInv, TypeOK
  <2> QED BY <1>2, <1>3, <2>1, <2>2, <2>3
<1>8. ASSUME SkipHttps \/ PushLaunch PROVE Goal
  <2>1. /\ current \in Batches /\ queued[current] < NumUrls
        /\ \A c \in Batches : c # current => queued'[c] = queued[c]
    BY <1>8 DEF SkipHttps, PushLaunch, PlaceInv, TypeOK, ServeInv
  <2>2. called' = called /\ post' = post /\ image' = image
    BY <1>8 DEF SkipHttps, PushLaunch, post_vars, result_vars
  <2>3. CASE current = b
    BY <1>2, <1>3, <2>1, <2>2, <2>3
  <2>4. CASE current # b
    <3>1. Outstanding(b)' = Outstanding(b)
      BY <1>8, <2>4, OutstandingStep
         DEF SkipHttps, PushLaunch, WriteSubtracted, post_vars
    <3> QED BY <1>2, <2>1, <2>2, <2>4, <3>1
  <2> QED BY <2>3, <2>4
<1>9. ASSUME ~TestRemaining, ~WriteSubtracted, ~Callback, ~SkipHttps, ~PushLaunch
      PROVE Goal
  <2>1. Outstanding(b)' = Outstanding(b)
    BY <1>9, OutstandingStep
  <2>2. /\ called' = called /\ queued' = queued
        /\ Tested(b)' => Tested(b) /\ post' = post /\ image' = image
    BY <1>9 DEF Next, vars, ServeStep, PostStep, StartBatch, PrepareUrl, ReadToAdd,
         WriteAdded, Launch, Respond, PopImage, Process, ReadToSubtract,
         result_vars, post_vars, serve_vars
  <2> QED BY <1>2, <2>1, <2>2
<1> QED BY <1>5, <1>6, <1>7, <1>8, <1>9

-----------------------------------------------------------------------------
LEMMA InitIInv == Init => IInv
<1> SUFFICES ASSUME Init PROVE IInv
  OBVIOUS
<1>1. InQueue = {} /\ AtPost = {}
  BY DEF Init, InQueue, AtPost
<1>2. \A b \in Batches : Outstanding(b) = {}
  BY <1>1 DEF Init, Outstanding
<1>3. PlaceInv
  BY <1>1, DownloaderAssumption
     DEF Init, PlaceInv, TypeOK, ServeInv, ImageInv, QueuedInv, DistinctInv,
         DisjointInv, Placed, Queueing
<1>4. ReadInv /\ CallbackInv
  BY DEF Init, ReadInv, CallbackInv
<1>5. CountIsOutstanding
  <2>1. \A b \in Batches : Cardinality(Outstanding(b)) = 0
    BY <1>2, FS_EmptySet
  <2> QED BY <2>1 DEF Init, CountIsOutstanding
<1> QED BY <1>3, <1>4, <1>5 DEF IInv

LEMMA NextIInv == IInv /\ [Next]_vars => IInv'
  BY PlaceInvStep, ReadStep, CountStep, CallbackStep DEF IInv

\* The inductive invariant holds in every reachable state.
THEOREM Invariance == Spec => []IInv
  BY InitIInv, NextIInv, PTL DEF Spec

\* The state of the downloader keeps its types: the counts may be anything, but
\* the threads never leave the batches and images there are.
THEOREM TypeCorrect == Spec => []TypeOK
  BY Invariance, PTL DEF IInv, PlaceInv

\* No image is lost or duplicated between the queues, and none is counted down
\* twice, although launch threads and http handlers run in any order.
THEOREM ImagesOnce == Spec => []EachImageOnce
<1>1. IInv => EachImageOnce
  <2> SUFFICES ASSUME IInv PROVE EachImageOnce
    OBVIOUS
  <2>1. InQueue = Firsts(postprocess_queue)
    BY DEF InQueue, Firsts
  <2>2. Cardinality(InQueue) = Len(postprocess_queue)
    BY <2>1, FirstsCount DEF IInv, PlaceInv, TypeOK, DistinctInv
  <2> QED BY <2>2 DEF IInv, PlaceInv, DisjointInv, EachImageOnce
<1> QED BY <1>1, Invariance, PTL

\* image_count_ of a batch that was queued before it was counted down is exactly
\* the number of its images outstanding: the unguarded += and -= meet in no other
\* way.
THEOREM CountsOutstanding == Spec => []CountIsOutstanding
  BY Invariance, PTL DEF IInv

\* The callback of such a batch is called at most once, and with every image of
\* the batch handled.
THEOREM CallbackOnceAtEnd == Spec => []CallbackWhenQueuedFirst
<1>1. IInv => CallbackWhenQueuedFirst
  <2> SUFFICES ASSUME IInv, NEW b \in Batches, ~overlap[b], called[b] > 0
               PROVE  called[b] = 1 /\ Outstanding(b) = {} /\ queued[b] = NumUrls
    BY DEF CallbackWhenQueuedFirst
  <2> QED BY DEF IInv, PlaceInv, TypeOK, CallbackInv
<1> QED BY <1>1, Invariance, PTL
=============================================================================
