------------------------ MODULE PreprocessingProofs ------------------------
(***************************************************************************)
(* The slices of a list partition it, for every length and size, and so do *)
(* the files of the chunks: whatever runs of the driver are mixed, dead or *)
(* alive, an index that can be read is the beginning of the list, a run in *)
(* which no job fails leaves one of all its images, and a driver keeps to  *)
(* its limit of jobs.                                                      *)
(***************************************************************************)
EXTENDS Preprocessing, FiniteSetTheorems, SequenceTheorems, WellFoundedInduction,
        TLAPS

-----------------------------------------------------------------------------
(* Slices *)

\* Division, as it is used below.
LEMMA Division ==
  ASSUME NEW a \in Int, NEW d \in Nat \ {0}
  PROVE  /\ a \div d \in Int
         /\ (a \div d) * d <= a
         /\ a < ((a \div d) + 1) * d
OBVIOUS

LEMMA Larger ==
  ASSUME NEW a \in Int, NEW b \in Int, NEW d \in Nat \ {0}, a < b
  PROVE  (a + 1) * d <= b * d
OBVIOUS

LEMMA Cancel ==
  ASSUME NEW a \in Int, NEW b \in Int, NEW d \in Nat \ {0}, a * d < b * d
  PROVE  a < b
OBVIOUS

LEMMA Products ==
  ASSUME NEW a \in Int, NEW d \in Int
  PROVE  a * d \in Int /\ (-a) * d = -(a * d) /\ (a + 1) * d = a * d + d
OBVIOUS

\* Count rounds up: so many slices are enough, and one less is not.
LEMMA CountBounds ==
  ASSUME NEW n \in Nat \ {0}, NEW size \in Nat \ {0}
  PROVE  /\ Count(n, size) \in Nat \ {0}
         /\ n <= Count(n, size) * size
         /\ (Count(n, size) - 1) * size < n
<1> DEFINE q == (-n) \div size
           c == Count(n, size)
<1>1. /\ q \in Int
      /\ q * size <= -n
      /\ -n < (q + 1) * size
  BY Division
<1>2. c = -q /\ c \in Int
  BY <1>1 DEF Count
<1> HIDE DEF q, c
<1>3. /\ q * size \in Int /\ c * size = -(q * size)
      /\ (q + 1) * size = q * size + size
  BY <1>1, <1>2, Products
<1>4. n <= c * size
  BY <1>1, <1>3
<1>5. (c - 1) * size < n
  <2>1. (c - 1) * size + size = c * size /\ (c - 1) * size \in Int
    BY <1>2, Products, c - 1 \in Int, (c - 1) + 1 = c
  <2> QED BY <2>1, <1>1, <1>3
<1>6. c > 0
  <2>1. 0 * size < c * size
    BY <1>3, <1>4
  <2> QED BY <2>1, <1>2, Cancel
<1> QED BY <1>2, <1>4, <1>5, <1>6 DEF c

\* A slice that is counted is not empty, and only the last one is cut short:
\* the CHECK_EQ of the driver and of the combination never fails.
THEOREM OnlyLastSliceIsShort ==
  ASSUME NEW n \in Nat \ {0}, NEW size \in Nat \ {0},
         NEW i \in 0..(Count(n, size) - 1)
  PROVE  /\ From(i, size) < Upto(i, n, size)
         /\ Upto(i, n, size) <= n
         /\ Upto(i, n, size) < (i + 1) * size => i + 1 = Count(n, size)
<1> DEFINE c == Count(n, size)
<1>1. /\ c \in Nat \ {0} /\ n <= c * size /\ (c - 1) * size < n
  BY CountBounds
<1> HIDE DEF c
<1>2. i \in Int /\ i <= c - 1 /\ c - 1 \in Int
  BY <1>1 DEF c
<1>3. i * size \in Int /\ (i + 1) * size = i * size + size
  BY <1>2, Products
<1>4. i * size <= (c - 1) * size
  <2>1. CASE i = c - 1
    BY <2>1, <1>3
  <2>2. CASE i < c - 1
    BY <2>2, <1>2, <1>3, Larger, Products
  <2> QED BY <2>1, <2>2, <1>2
<1>5. i * size < n
  BY <1>1, <1>2, <1>3, <1>4, Products
<1>6. (i + 1) * size > n => i + 1 = c
  <2>1. SUFFICES ASSUME i + 1 < c PROVE (i + 1) * size <= n
    BY <1>1, <1>2
  <2>2. (i + 1) * size <= (c - 1) * size
    BY <2>1, <1>1, <1>2, <1>3, Larger, Products, i < c - 1
  <2> QED BY <2>2, <1>1, <1>2, <1>3, Products
<1> QED BY <1>3, <1>5, <1>6, <1>1 DEF From, Upto, c

\* Every element of the list is in exactly one slice: no image is left out or
\* taken twice, whatever the length of the list and the size of a chunk.
THEOREM SlicesPartition ==
  ASSUME NEW n \in Nat \ {0}, NEW size \in Nat \ {0}, NEW k \in 0..(n - 1)
  PROVE  \E i \in 0..(Count(n, size) - 1) :
           /\ k \in Slice(i, n, size)
           /\ \A j \in 0..(Count(n, size) - 1) : k \in Slice(j, n, size) => j = i
<1> DEFINE c == Count(n, size)
           i == k \div size
<1>1. c \in Nat \ {0} /\ n <= c * size
  BY CountBounds
<1>2. i \in Int /\ i * size <= k /\ k < (i + 1) * size
  BY Division
<1> HIDE DEF c, i
<1>3. i * size \in Int /\ (i + 1) * size \in Int /\ c * size \in Int
  BY <1>1, <1>2, Products
<1>4. 0 <= i
  <2>1. 0 * size < (i + 1) * size
    BY <1>2, <1>3
  <2> QED BY <2>1, <1>2, Cancel
<1>5. i <= c - 1
  <2>1. i * size < c * size
    BY <1>1, <1>2, <1>3
  <2> QED BY <2>1, <1>1, <1>2, Cancel
<1>6. k \in Slice(i, n, size)
  BY <1>2, <1>3 DEF Slice, From, Upto
<1>7. ASSUME NEW j \in 0..(c - 1), k \in Slice(j, n, size) PROVE j = i
  <2>1. j \in Int /\ j * size \in Int /\ (j + 1) * size \in Int
    BY <1>1, Products
  <2>2. j * size <= k /\ k < (j + 1) * size
    BY <1>7, <2>1 DEF Slice, From, Upto
  <2>3. j < i + 1
    BY <1>2, <1>3, <2>1, <2>2, Cancel, j * size < (i + 1) * size
  <2>4. i < j + 1
    BY <1>2, <1>3, <2>1, <2>2, Cancel, i * size < (j + 1) * size
  <2> QED BY <2>1, <2>3, <2>4, <1>2
<1> QED BY <1>1, <1>2, <1>4, <1>5, <1>6, <1>7 DEF c

\* A client that asks for the pages from 1 to page_count sees every image of
\* the ranking, and none twice.
THEOREM PagesPartition ==
  ASSUME NEW n \in Nat \ {0}, NEW page_sz \in Nat \ {0}, NEW k \in 0..(n - 1)
  PROVE  \E p \in 1..PageCount(n, page_sz) :
           /\ k \in Page(p, n, page_sz)
           /\ \A r \in 1..PageCount(n, page_sz) : k \in Page(r, n, page_sz) => r = p
<1> DEFINE size == IF page_sz > n THEN n ELSE page_sz
<1>1. size \in Nat \ {0}
  OBVIOUS
<1>2. PageCount(n, page_sz) = Count(n, size)
  <2>1. CASE page_sz <= n
    BY <2>1 DEF PageCount
  <2>2. CASE page_sz > n
    <3>1. PageCount(n, page_sz) = Count(n, page_sz) /\ size = n
      BY <2>2 DEF PageCount
    <3>2. \A d \in Nat \ {0} : d >= n => Count(n, d) = 1
      <4>1. SUFFICES ASSUME NEW d \in Nat \ {0}, d >= n PROVE Count(n, d) = 1
        OBVIOUS
      <4>2. Count(n, d) \in Nat \ {0} /\ (Count(n, d) - 1) * d < n
        BY CountBounds
      <4>3. (Count(n, d) - 1) * d < 1 * d
        BY <4>1, <4>2, Products, Count(n, d) - 1 \in Int
      <4> QED BY <4>2, <4>3, Cancel, Count(n, d) - 1 \in Int
    <3> QED BY <2>2, <3>1, <3>2
  <2> QED BY <2>1, <2>2
<1> HIDE DEF size
<1>3. Count(n, size) \in Nat \ {0}
  BY <1>1, CountBounds
<1>4. PICK i \in 0..(Count(n, size) - 1) :
        /\ k \in Slice(i, n, size)
        /\ \A j \in 0..(Count(n, size) - 1) : k \in Slice(j, n, size) => j = i
  BY <1>1, SlicesPartition
<1>5. \A p \in 1..Count(n, size) : Page(p, n, page_sz) = Slice(p - 1, n, size)
  BY <1>3 DEF Page, size
<1>6. i + 1 \in 1..Count(n, size) /\ (i + 1) - 1 = i
  BY <1>3, <1>4
<1>7. k \in Page(i + 1, n, page_sz)
  BY <1>4, <1>5, <1>6
<1>8. ASSUME NEW r \in 1..Count(n, size), k \in Page(r, n, page_sz)
      PROVE  r = i + 1
  <2>1. r - 1 \in 0..(Count(n, size) - 1) /\ k \in Slice(r - 1, n, size)
    BY <1>3, <1>5, <1>8
  <2> QED BY <2>1, <1>3, <1>4
<1> QED BY <1>2, <1>6, <1>7, <1>8

-----------------------------------------------------------------------------
(* The invariant *)

\* The chunks that make up the first n images, as the combination names them,
\* their index, and what a file with the name f is for.
Merged(n)  == [k \in 1..Count(n, CombineSize) |->
  FileName(From(k - 1, CombineSize), Upto(k - 1, n, CombineSize))]
IndexOf(n) == [chunks |-> Merged(n), num |-> n]
Full(f)    == IF f = NegFile THEN <<1>>
              ELSE [k \in 1..(f[2] - f[1] + 1) |-> f[1] - 1 + k]

Slots == 0..(MaxImages - 1)
Waiting(p) == child[p] \in {"alive", "exited", "killed"}
Forking    == {"loop", "fork", "wait_all"}
Merging    == {"merge", "wait_merge", "neg", "wait_neg", "exited"}

\* The driver counted the images of the list, and the list grows only when no
\* driver and no job reads it.
DriverInv ==
  /\ pc = "ready" => run = 0
  /\ pc # "ready" =>
       /\ run \in 1..MaxRuns /\ im_count \in 1..list /\ chunk_sz \in Nat \ {0}
       /\ next \in 0..chunk_count
  /\ pc = "fork" => next < chunk_count
  /\ list = im_count \/ (DriverEnded /\ \A p \in Processes : ~Active(p))

\* A child and its job.
ChildInv ==
  \A p \in Processes :
    /\ child[p] = "none" <=> job[p] = "none"
    /\ child[p] = "alive" => Active(p)
    /\ child[p] = "exited" => ~Active(p)
    /\ p[1] > run => job[p] = "none"

\* The children that the driver has not reaped are those in pids, or the one it
\* waits for.  Unless it ended with LOG(FATAL), a child that it reaped had ended
\* with its job.
ReapInv ==
  /\ pc \in Forking =>
       /\ \A i \in Slots : Waiting(Slot(i)) <=> i \in pids
       /\ \A i \in Slots : i >= next => child[Slot(i)] = "none"
       /\ child[Slot(Merge)] = "none" /\ child[Slot(NegIms)] = "none"
  /\ pc \in Merging =>
       /\ \A i \in Slots : ~Waiting(Slot(i))
       /\ pc \in {"merge", "wait_merge", "neg"} => child[Slot(NegIms)] = "none"
       /\ pc = "merge" => child[Slot(Merge)] = "none"
       /\ pc \notin {"merge", "wait_merge"} =>
            /\ ~Waiting(Slot(Merge))
            /\ "merge" \in parts => child[Slot(Merge)] = "reaped"
       /\ pc = "exited" =>
            /\ ~Waiting(Slot(NegIms))
            /\ "neg" \in parts => child[Slot(NegIms)] = "reaped"
  /\ pc # "fatal" =>
       \A p \in Processes : p[1] = run /\ child[p] = "reaped" => ~Active(p)

\* active_workers counts pids until all chunks are forked.
WorkerInv ==
  pc \in {"loop", "fork"} =>
    /\ active_workers = Cardinality(pids)
    /\ JobLimit > 0 => active_workers <= JobLimit
    /\ JobLimit > 0 /\ pc = "fork" => active_workers < JobLimit

\* What is on the disk, and who may write it.  A file is missing, torn or right,
\* and never missing again.
FileInv ==
  /\ \A f \in Files : file[f] \in {Missing, Torn, Full(f)}
  /\ index \in {NoIndex, TornIndex} \cup {IndexOf(n) : n \in 1..list}
  /\ \A p \in Processes : job[p] # "none" =>
       /\ p[2] = Merge => target[p] = IndexFile
       /\ p[2] = NegIms => target[p] = NegFile
       /\ p[2] \in Slots => target[p] \in Chunks /\ target[p][2] <= list
  /\ \A p \in Processes :
       /\ job[p] = "scan" => p[2] = Merge
       /\ job[p] = "encode" => p[2] # Merge
       /\ job[p] \in {"write", "disturbed"} =>
            IF p[2] = Merge THEN index \in {TornIndex, IndexOf(list)}
            ELSE file[target[p]] # Missing

\* A merge job has read its chunks from the beginning of the list.
ScanInv ==
  \A r \in 1..MaxRuns : LET state == job[<<r, Merge>>]
                            read  == scanned[r] IN
    /\ state \in {"none", "queued"} => read = [chunks |-> 0, rows |-> 0]
    /\ state \in {"scan", "write", "disturbed"} =>
         /\ read.chunks \in 0..Count(list, CombineSize)
         /\ read.rows = IF read.chunks = 0 THEN 0
                        ELSE Upto(read.chunks - 1, list, CombineSize)
         /\ \A k \in 1..read.chunks : file[Merged(list)[k]] # Missing
    /\ state \in {"write", "disturbed"} => read.chunks = Count(list, CombineSize)

\* What the last two jobs of the driver leave behind.
DoneInv ==
  pc # "ready" =>
    /\ job[Slot(Merge)] = "done" =>
         /\ index \in {TornIndex, IndexOf(im_count)}
         /\ \A k \in DOMAIN Merged(im_count) : file[Merged(im_count)[k]] # Missing
    /\ job[Slot(NegIms)] = "done" => file[NegFile] # Missing

\* Who opened a torn file last is still writing it, or died.
TearInv ==
  \A f \in Files \cup {IndexFile} : IsTorn(f) =>
    \E p \in Processes : target[p] = f /\ job[p] \in {"write", "failed"}

IInv == /\ TypeOK /\ DriverInv /\ ChildInv /\ ReapInv /\ WorkerInv
        /\ FileInv /\ ScanInv /\ DoneInv /\ TearInv

-----------------------------------------------------------------------------
(* Lemmas about the names *)

LEMMA Multiple ==
  ASSUME NEW a \in Nat, NEW d \in Nat \ {0}
  PROVE  a * d \in Nat /\ a <= a * d
OBVIOUS

\* The slices in order: each starts where the one before it ends, and the last
\* one ends with the list.
LEMMA SliceOrder ==
  ASSUME NEW n \in Nat \ {0}, NEW size \in Nat \ {0}
  PROVE  /\ Count(n, size) \in 1..n
         /\ \A i \in 0..(Count(n, size) - 1) :
              /\ From(i, size) \in Nat /\ Upto(i, n, size) \in Nat
              /\ From(i, size) < Upto(i, n, size) /\ Upto(i, n, size) <= n
         /\ From(0, size) = 0
         /\ \A i \in 1..(Count(n, size) - 1) :
              From(i, size) = Upto(i - 1, n, size)
         /\ Upto(Count(n, size) - 1, n, size) = n
<1> DEFINE c == Count(n, size)
<1>1. c \in Nat \ {0} /\ n <= c * size /\ (c - 1) * size < n
  BY CountBounds
<1>2. \A i \in 0..(c - 1) :
        /\ From(i, size) < Upto(i, n, size) /\ Upto(i, n, size) <= n
        /\ Upto(i, n, size) < (i + 1) * size => i + 1 = c
  BY OnlyLastSliceIsShort
<1> HIDE DEF c
<1>3. c <= n
  <2>1. c - 1 \in Nat /\ c - 1 <= (c - 1) * size /\ (c - 1) * size \in Nat
    BY <1>1, Multiple
  <2> QED BY <1>1, <2>1
<1>4. ASSUME NEW i \in 0..(c - 1)
      PROVE  From(i, size) \in Nat /\ Upto(i, n, size) \in Nat
  <2>1. i * size \in Nat /\ (i + 1) * size \in Nat
    BY <1>1, Multiple
  <2> QED BY <2>1 DEF From, Upto
<1>5. From(0, size) = 0
  BY DEF From
<1>6. ASSUME NEW i \in 1..(c - 1)
      PROVE  From(i, size) = Upto(i - 1, n, size)
  <2>1. i - 1 \in 0..(c - 1) /\ (i - 1) + 1 = i /\ i \in Nat
    BY <1>1
  <2>2. i * size \in Nat
    BY <2>1, Multiple
  <2>3. ~(Upto(i - 1, n, size) < i * size)
    BY <1>1, <1>2, <2>1
  <2> QED BY <2>1, <2>2, <2>3 DEF From, Upto
<1>7. Upto(c - 1, n, size) = n
  <2>1. (c - 1) + 1 = c /\ c * size \in Nat
    BY <1>1, Multiple
  <2> QED BY <1>1, <2>1 DEF Upto
<1> QED BY <1>1, <1>2, <1>3, <1>4, <1>5, <1>6, <1>7 DEF c

\* A chunk of the list has a slot for its child and a name for its file.
LEMMA ChunkNames ==
  ASSUME NEW n \in 1..MaxImages, NEW size \in Nat \ {0},
         NEW i \in 0..(Count(n, size) - 1)
  PROVE  /\ i \in Slots
         /\ FileName(From(i, size), Upto(i, n, size)) \in Chunks
         /\ FileName(From(i, size), Upto(i, n, size))[2] <= n
<1>0. n \in Nat \ {0}
  OBVIOUS
<1>1. /\ Count(n, size) \in 1..n
      /\ From(i, size) \in Nat /\ Upto(i, n, size) \in Nat
      /\ From(i, size) < Upto(i, n, size) /\ Upto(i, n, size) <= n
  BY <1>0, SliceOrder
<1>2. MaxImages \in Nat
  BY PreprocAssumption
<1> QED BY <1>1, <1>2 DEF Slots, FileName, Chunks

LEMMA MergedNames ==
  ASSUME NEW n \in 1..MaxImages
  PROVE  /\ Merged(n) \in Seq(Chunks) /\ Len(Merged(n)) = Count(n, CombineSize)
         /\ Count(n, CombineSize) \in Nat \ {0}
         /\ \A k \in 1..Count(n, CombineSize) : Merged(n)[k] \in Chunks
<1> DEFINE c == Count(n, CombineSize)
<1>0. n \in Nat \ {0} /\ CombineSize \in Nat \ {0}
  BY PreprocAssumption
<1>1. c \in 1..n /\ n \in Nat
  BY <1>0, SliceOrder
<1>2. \A k \in 1..c : Merged(n)[k] \in Chunks
  <2> SUFFICES ASSUME NEW k \in 1..c
               PROVE  FileName(From(k - 1, CombineSize), Upto(k - 1, n, CombineSize))
                        \in Chunks
    BY DEF Merged
  <2>1. k - 1 \in 0..(c - 1)
    BY <1>1
  <2> QED BY <1>0, <2>1, ChunkNames
<1>3. Merged(n) \in [1..c -> Chunks]
  BY <1>2 DEF Merged
<1> HIDE DEF c
<1>4. Merged(n) \in Seq(Chunks) /\ Len(Merged(n)) = c
  BY <1>1, <1>3
<1> QED BY <1>1, <1>2, <1>4 DEF c

\* A child is known by the run of its driver and its slot.
LEMMA ProcessNames ==
  /\ Merge \notin Slots /\ NegIms \notin Slots /\ Merge # NegIms
  /\ \A p \in Processes :
       /\ p = <<p[1], p[2]>> /\ p[1] \in 1..MaxRuns
       /\ p[2] \in Slots \cup {Merge, NegIms}
  /\ \A r \in 1..MaxRuns, i \in Slots \cup {Merge, NegIms} : <<r, i>> \in Processes
BY PreprocAssumption DEF Merge, NegIms, Slots, Processes

LEMMA FileNames ==
  /\ NegFile \notin Chunks /\ IndexFile \notin Files /\ NegFile # IndexFile
  /\ Files = Chunks \cup {NegFile}
BY DEF Chunks, NegFile, IndexFile, Files

\* The contents of a file can be told from one that is missing or torn.
LEMMA FullNames ==
  ASSUME NEW f \in Files
  PROVE  /\ Full(f) \in Seq(0..MaxImages)
         /\ Full(f) # Missing /\ Full(f) # Torn
<1>1. CASE f = NegFile
  BY <1>1, PreprocAssumption DEF Full, Missing, Torn
<1>2. CASE f \in Chunks /\ f # NegFile
  <2>1. f[1] \in 1..MaxImages /\ f[2] \in 1..MaxImages /\ f[1] <= f[2]
        /\ MaxImages \in Nat
    BY <1>2, PreprocAssumption DEF Chunks
  <2> DEFINE n == f[2] - f[1] + 1
             S == 0..MaxImages
  <2>2. n \in Nat \ {0}
    BY <2>1
  <2>3. Full(f) = [k \in 1..n |-> f[1] - 1 + k]
    BY <1>2 DEF Full
  <2>4. \A k \in 1..n : f[1] - 1 + k \in 1..MaxImages
    BY <2>1
  <2>5. Full(f) \in [1..n -> S]
    BY <2>3, <2>4
  <2> HIDE DEF n, S
  <2>6. Full(f) \in Seq(S) /\ Len(Full(f)) = n
    BY <2>2, <2>5
  <2>7. Full(f)[1] # 0
    BY <2>2, <2>3, <2>4
  <2> QED BY <2>2, <2>6, <2>7 DEF Missing, Torn, S
<1> QED BY <1>1, <1>2, FileNames

-----------------------------------------------------------------------------
(* The driver and its children *)

\* What a step of a job changes of the jobs and of the children.
LEMMA JobStep ==
  ASSUME IInv, NEW p \in Processes, Work(p) \/ JobFails(p)
  PROVE  /\ UNCHANGED <<list, driver, target>> /\ faults' \in 0..MaxFaults
         /\ job' \in [Processes -> {"none"} \cup Working \cup Ended]
         /\ child' \in [Processes -> {"none", "alive", "exited", "killed", "reaped"}]
         /\ Active(p) /\ job'[p] \notin {"none", "queued"}
         /\ \A q \in Processes \ {p} :
              /\ child'[q] = child[q]
              /\ \/ job'[q] = job[q]
                 \/ job[q] = "write" /\ job'[q] = "disturbed"
         /\ child'[p] = IF job'[p] \in Ended /\ child[p] = "alive"
                        THEN "exited" ELSE child[p]
<1> USE DEF Working, Ended, Active
<1>1. /\ job \in [Processes -> {"none"} \cup Working \cup Ended]
      /\ child \in [Processes -> {"none", "alive", "exited", "killed", "reaped"}]
      /\ faults \in 0..MaxFaults /\ MaxFaults \in Nat
  BY PreprocAssumption DEF IInv, TypeOK
<1>2. CASE StartPreproc(p)
  BY <1>1, <1>2 DEF StartPreproc, EndJob
<1>3. CASE OpenFile(p) \/ OpenIndex(p)
  BY <1>1, <1>3 DEF OpenFile, OpenIndex, Truncate
<1>4. CASE WriteFile(p) \/ WriteIndex(p)
  BY <1>1, <1>4 DEF WriteFile, WriteIndex, EndJob
<1>5. CASE StartMerge(p)
  BY <1>1, <1>5 DEF StartMerge
<1>6. CASE ScanChunk(p)
  BY <1>1, <1>6 DEF ScanChunk, EndJob
<1>7. CASE JobFails(p)
  BY <1>1, <1>7 DEF JobFails, EndJob
<1> QED BY <1>2, <1>3, <1>4, <1>5, <1>6, <1>7 DEF Work

\* No job becomes active by that, and the children stay as they are for waitpid.
LEMMA JobStepEffect ==
  ASSUME IInv, NEW p \in Processes, Work(p) \/ JobFails(p), NEW q \in Processes
  PROVE  /\ Active(q)' => Active(q)
         /\ Waiting(q)' <=> Waiting(q)
         /\ \A c \in {"none", "reaped"} : child'[q] = c <=> child[q] = c
         /\ job'[q] = "none" <=> job[q] = "none"
         /\ child'[q] = "alive" => child[q] = "alive"
<1>1. q = p \/ q \in Processes \ {p}
  OBVIOUS
<1> QED BY <1>1, JobStep DEF Active, Waiting, Working, Ended

LEMMA KillStepEffect ==
  ASSUME IInv, NEW p \in Processes, KillChild(p)
  PROVE  /\ UNCHANGED <<list, disk, driver, job, target, scanned>>
         /\ faults' \in 0..MaxFaults
         /\ child' \in [Processes -> {"none", "alive", "exited", "killed", "reaped"}]
         /\ \A q \in Processes :
              /\ Waiting(q)' <=> Waiting(q)
              /\ \A c \in {"none", "reaped", "exited"} : child'[q] = c <=> child[q] = c
              /\ child'[q] = "alive" => child[q] = "alive"
BY PreprocAssumption DEF KillChild, IInv, TypeOK, Waiting

\* What a fork does, in the slot of a run in which there was no child before.
LEMMA ForkEffect ==
  ASSUME IInv, run \in 1..MaxRuns, NEW i \in Slots \cup {Merge, NegIms},
         NEW f \in Files \cup {IndexFile}, Fork(i, f)
  PROVE  /\ Slot(i) \in Processes
         /\ job' \in [Processes -> {"none"} \cup Working \cup Ended]
         /\ child' \in [Processes -> {"none", "alive", "exited", "killed", "reaped"}]
         /\ target' \in [Processes -> Files \cup {IndexFile}]
         /\ child'[Slot(i)] = "alive" /\ job'[Slot(i)] = "queued"
         /\ target'[Slot(i)] = f
         /\ \A q \in Processes \ {Slot(i)} :
              child'[q] = child[q] /\ job'[q] = job[q] /\ target'[q] = target[q]
<1>1. Slot(i) \in Processes
  BY ProcessNames DEF Slot
<1> HIDE DEF Slot
<1> QED BY <1>1 DEF Fork, IInv, TypeOK, Working

\* What a reap does.
LEMMA ReapEffect ==
  ASSUME IInv, NEW p \in Processes, NEW place, Reap(p, place)
  PROVE  /\ UNCHANGED <<list, disk, parts, run, im_count, chunk_sz, next, job,
                        target, scanned, faults>>
         /\ child[p] \in {"exited", "killed"} /\ child'[p] = "reaped"
         /\ child' \in [Processes -> {"none", "alive", "exited", "killed", "reaped"}]
         /\ \A q \in Processes \ {p} : child'[q] = child[q]
         /\ pc' = IF child[p] = "exited" THEN place ELSE "fatal"
BY DEF Reap, Succeeded, IInv, TypeOK

\* The chunk that is forked next.
LEMMA NextChunk ==
  ASSUME IInv, pc # "ready", next < chunk_count
  PROVE  /\ next \in Slots /\ next + 1 <= chunk_count /\ run \in 1..MaxRuns
         /\ FileName(From(next, chunk_sz), Upto(next, im_count, chunk_sz)) \in Chunks
         /\ FileName(From(next, chunk_sz), Upto(next, im_count, chunk_sz))[2] <= list
<1>1. /\ im_count \in 1..list /\ chunk_sz \in Nat \ {0} /\ next \in 0..chunk_count
      /\ run \in 1..MaxRuns
  BY DEF IInv, DriverInv
<1>2. im_count \in 1..MaxImages /\ list \in Nat
  BY <1>1, PreprocAssumption DEF IInv, TypeOK
<1>3. chunk_count \in 1..im_count
  <2>1. im_count \in Nat \ {0}
    BY <1>1
  <2> QED BY <1>1, <2>1, SliceOrder DEF chunk_count
<1>4. next \in 0..(Count(im_count, chunk_sz) - 1)
  BY <1>1, <1>2, <1>3 DEF chunk_count
<1>5. /\ next \in Slots
      /\ FileName(From(next, chunk_sz), Upto(next, im_count, chunk_sz)) \in Chunks
      /\ FileName(From(next, chunk_sz), Upto(next, im_count, chunk_sz))[2] <= im_count
  BY <1>1, <1>2, <1>4, ChunkNames
<1>6. FileName(From(next, chunk_sz), Upto(next, im_count, chunk_sz))[2] \in Int
  BY <1>5 DEF Chunks
<1> QED BY <1>1, <1>2, <1>3, <1>4, <1>5, <1>6

\* A job writes the file that its process is for, and what it writes is right:
\* cpuvisor_preproc the images in the name of the file, the merge an index of the
\* whole list.
LEMMA Targets ==
  ASSUME IInv, NEW p \in Processes, job[p] # "none"
  PROVE  IF p[2] = Merge THEN target[p] = IndexFile
         ELSE target[p] \in Files /\ Images(target[p]) = Full(target[p])
<1>1. CASE p[2] = Merge
  BY <1>1 DEF IInv, FileInv
<1>2. CASE p[2] = NegIms
  BY <1>2, ProcessNames, FileNames DEF IInv, FileInv, Images, Full
<1>3. CASE p[2] \in Slots
  <2>1. target[p] \in Chunks /\ target[p][2] <= list /\ p[2] # Merge
    BY <1>3, ProcessNames DEF IInv, FileInv
  <2>2. /\ target[p] \in Files /\ target[p] # NegFile
        /\ target[p][1] \in Int /\ target[p][2] \in Int /\ list \in Int
    BY <2>1, FileNames, PreprocAssumption DEF Chunks, IInv, TypeOK
  <2> DEFINE a == target[p][1]
             b == target[p][2]
  <2>3. Full(target[p]) = [k \in 1..(b - a + 1) |-> a - 1 + k]
    BY <2>2 DEF Full
  <2>4. Images(target[p]) = [k \in 1..(b - (a - 1)) |-> a - 1 + k]
    BY <2>1, <2>2 DEF Images, ReadPaths, Lines
  <2>5. b - (a - 1) = b - a + 1
    BY <2>2
  <2> QED BY <2>1, <2>2, <2>3, <2>4, <2>5
<1> QED BY <1>1, <1>2, <1>3, ProcessNames

LEMMA DiskStep ==
  ASSUME IInv, NEW p \in Processes, Work(p)
  PROVE  /\ file' \in [Files -> Seq(0..MaxImages)]
         /\ \A f \in Files : file'[f] \in {file[f], Torn, Full(f)}
         /\ index' \in {index, TornIndex, IndexOf(list)}
         /\ p[2] # Merge => index' = index
<1>1. /\ job[p] # "none" /\ file \in [Files -> Seq(0..MaxImages)]
  BY JobStep DEF Active, Working, IInv, TypeOK
<1>2. CASE OpenFile(p)
  <2>1. target[p] \in Files
    BY <1>1, <1>2, Targets DEF OpenFile, IInv, FileInv
  <2>2. Torn \in Seq(0..MaxImages)
    BY PreprocAssumption DEF Torn
  <2> QED BY <1>1, <1>2, <2>1, <2>2 DEF OpenFile
<1>3. CASE WriteFile(p)
  <2>1. target[p] \in Files /\ Images(target[p]) = Full(target[p])
    BY <1>1, <1>3, Targets DEF WriteFile
  <2>2. Full(target[p]) \in Seq(0..MaxImages)
    BY <2>1, FullNames
  <2> QED BY <1>1, <1>3, <2>1, <2>2 DEF WriteFile
<1>4. CASE OpenIndex(p)
  BY <1>1, <1>4 DEF OpenIndex, IInv, FileInv
<1>5. CASE WriteIndex(p)
  <2>1. p[2] = Merge
    BY <1>1, <1>5, Targets, FileNames DEF WriteIndex
  <2>2. p = <<p[1], Merge>> /\ p[1] \in 1..MaxRuns
    BY <2>1, ProcessNames
  <2>3. /\ scanned[p[1]].chunks = Count(list, CombineSize)
        /\ scanned[p[1]].rows = IF scanned[p[1]].chunks = 0 THEN 0
             ELSE Upto(scanned[p[1]].chunks - 1, list, CombineSize)
    BY <1>5, <2>2 DEF WriteIndex, IInv, ScanInv
  <2>4. list \in Nat \ {0} /\ CombineSize \in Nat \ {0}
    BY PreprocAssumption DEF IInv, TypeOK
  <2>5. /\ Count(list, CombineSize) # 0
        /\ Upto(Count(list, CombineSize) - 1, list, CombineSize) = list
    BY <2>4, SliceOrder
  <2>6. scanned[p[1]].rows = list
    BY <2>3, <2>5
  <2>7. MergedChunks = Merged(list)
    BY DEF MergedChunks, Merged
  <2>8. index' = index \/ index' = IndexOf(list)
    BY <1>5, <2>6, <2>7 DEF WriteIndex, IndexOf
  <2> QED BY <1>1, <1>5, <2>1, <2>8 DEF WriteIndex
<1>6. CASE StartPreproc(p) \/ StartMerge(p) \/ ScanChunk(p)
  BY <1>1, <1>6 DEF StartPreproc, StartMerge, ScanChunk, disk
<1> QED BY <1>2, <1>3, <1>4, <1>5, <1>6 DEF Work

LEMMA TypeStep == IInv /\ [Next]_vars => TypeOK'
<1> SUFFICES ASSUME IInv, [Next]_vars PROVE TypeOK'
  OBVIOUS
<1>0. TypeOK /\ DriverInv /\ Slots = 0..(MaxImages - 1)
  BY DEF IInv, Slots
<1> USE PreprocAssumption
<1>1. CASE AddImage
  BY <1>0, <1>1 DEF AddImage, disk, driver, TypeOK
<1>2. CASE Start
  <2>1. pc' \in {"loop", "merge", "neg", "exited"} /\ parts' \subseteq {"comp", "merge", "neg"}
    BY <1>2 DEF Start, AfterComp
  <2> QED BY <1>0, <1>2, <2>1 DEF Start, disk, TypeOK
<1>3. CASE ForkChunk
  <2> DEFINE f == FileName(From(next, chunk_sz), Upto(next, im_count, chunk_sz))
  <2>1. /\ next \in Slots /\ next + 1 <= chunk_count /\ run \in 1..MaxRuns
        /\ f \in Files
    BY <1>3, NextChunk, FileNames DEF ForkChunk
  <2>2. Fork(next, f)
    BY <1>3 DEF ForkChunk
  <2> HIDE DEF f
  <2>3. /\ job' \in [Processes -> {"none"} \cup Working \cup Ended]
        /\ child' \in [Processes -> {"none", "alive", "exited", "killed", "reaped"}]
        /\ target' \in [Processes -> Files \cup {IndexFile}]
    BY <2>1, <2>2, ForkEffect
  <2>4. next + 1 \in Nat /\ pids \cup {next} \subseteq 0..(MaxImages - 1)
        /\ active_workers + 1 \in Nat
    BY <1>0, <2>1 DEF TypeOK
  <2> QED BY <1>0, <1>3, <2>3, <2>4 DEF ForkChunk, disk, TypeOK
<1>4. CASE AllForked \/ AllReaped
  BY <1>0, <1>4 DEF AllForked, AllReaped, AfterComp, disk, TypeOK
<1>5. CASE ForkMerge \/ ForkNeg
  <2>1. /\ Fork(Merge, IndexFile) \/ Fork(NegIms, NegFile)
        /\ pc' \in {"wait_merge", "wait_neg"}
        /\ UNCHANGED <<list, disk, parts, run, im_count, chunk_sz, next, pids,
                       active_workers, scanned, faults>>
    BY <1>5 DEF ForkMerge, ForkNeg, ForkOne
  <2>2. run \in 1..MaxRuns
    BY <1>0, <1>5 DEF ForkMerge, ForkNeg, ForkOne, DriverInv
  <2>3. /\ job' \in [Processes -> {"none"} \cup Working \cup Ended]
        /\ child' \in [Processes -> {"none", "alive", "exited", "killed", "reaped"}]
        /\ target' \in [Processes -> Files \cup {IndexFile}]
    BY <2>1, <2>2, ForkEffect, FileNames
  <2> QED BY <1>0, <2>1, <2>3 DEF disk, TypeOK
<1>6. CASE WaitForOne
  <2>1. PICK p \in Processes : /\ Reap(p, AfterMerge) \/ Reap(p, "exited")
                               /\ UNCHANGED <<pids, active_workers>>
    BY <1>6 DEF WaitForOne
  <2>2. /\ UNCHANGED <<list, disk, parts, run, im_count, chunk_sz, next, job,
                        target, scanned, faults>>
        /\ child' \in [Processes -> {"none", "alive", "exited", "killed", "reaped"}]
        /\ pc' \in {"neg", "exited", "fatal"}
    BY <2>1, ReapEffect DEF AfterMerge
  <2> QED BY <1>0, <2>1, <2>2 DEF disk, TypeOK
<1>7. ASSUME NEW i \in Slots, WaitForWorker(i) \/ WaitForPid(i) PROVE TypeOK'
  <2>1. Slot(i) \in Processes
    BY <1>0, <1>7, ProcessNames
       DEF DriverInv, Slot, WaitForWorker, WaitForPid
  <2>2. /\ UNCHANGED <<list, disk, parts, run, im_count, chunk_sz, next, job,
                        target, scanned, faults>>
        /\ child[Slot(i)] \in {"exited", "killed"}
        /\ child' \in [Processes -> {"none", "alive", "exited", "killed", "reaped"}]
        /\ pc' \in {"fork", "wait_all", "fatal"}
    BY <1>7, <2>1, ReapEffect DEF WaitForWorker, WaitForPid
  <2>3. pids' = pids \ {i}
    BY <1>7 DEF WaitForWorker, WaitForPid, ForgetPid
  <2>4. active_workers' \in Nat
    <3>1. CASE WaitForPid(i)
      BY <1>0, <3>1 DEF WaitForPid, TypeOK
    <3>2. CASE WaitForWorker(i)
      <4>1. i \in pids /\ active_workers = Cardinality(pids)
        BY <2>2, <3>2 DEF WaitForWorker, IInv, ReapInv, WorkerInv, Forking, Waiting
      <4>2. IsFiniteSet(pids)
        <5>1. IsFiniteSet(0..(MaxImages - 1))
          BY FS_Interval
        <5> QED BY <1>0, <5>1, FS_Subset DEF TypeOK
      <4>3. Cardinality(pids) # 0 /\ Cardinality(pids) \in Nat
        BY <4>1, <4>2, FS_EmptySet, FS_CardinalityType
      <4> QED BY <3>2, <4>1, <4>3 DEF WaitForWorker
    <3> QED BY <1>7, <3>1, <3>2
  <2> QED BY <1>0, <2>2, <2>3, <2>4 DEF disk, TypeOK
<1>8. CASE ForkFails
  BY <1>0, <1>8 DEF ForkFails, disk, TypeOK
<1>9. ASSUME NEW p \in Processes, KillChild(p) PROVE TypeOK'
  BY <1>0, <1>9, KillStepEffect DEF disk, driver, TypeOK
<1>10. ASSUME NEW p \in Processes, Work(p) \/ JobFails(p) PROVE TypeOK'
  <2>1. /\ UNCHANGED <<list, driver, target>> /\ faults' \in 0..MaxFaults
        /\ job' \in [Processes -> {"none"} \cup Working \cup Ended]
        /\ child' \in [Processes -> {"none", "alive", "exited", "killed", "reaped"}]
    BY <1>10, JobStep
  <2>2. file' \in [Files -> Seq(0..MaxImages)]
    BY <1>0, <1>10, DiskStep DEF JobFails, disk, TypeOK
  <2>3. index' \in [chunks : Seq(Chunks), num : Int]
    <3>1. TornIndex \in [chunks : Seq(Chunks), num : Int]
      BY DEF TornIndex
    <3>2. IndexOf(list) \in [chunks : Seq(Chunks), num : Int]
      <4>1. list \in 1..MaxImages
        BY <1>0 DEF TypeOK
      <4> QED BY <4>1, MergedNames DEF IndexOf
    <3>3. index' \in {index, TornIndex, IndexOf(list)}
      BY <1>10, DiskStep DEF JobFails, disk
    <3> QED BY <1>0, <3>1, <3>2, <3>3 DEF TypeOK
  <2>4. scanned' \in [1..MaxRuns -> [chunks : Nat, rows : Nat]]
    <3>1. scanned \in [1..MaxRuns -> [chunks : Nat, rows : Nat]]
          /\ p[1] \in 1..MaxRuns
      BY <1>0, ProcessNames DEF TypeOK
    <3>2. CASE ScanChunk(p)
      <4> DEFINE f == MergedChunks[scanned[p[1]].chunks + 1]
      <4>1. CASE Complete(f)
        <5>1. file[f] \in Seq(0..MaxImages)
          BY <1>0, <4>1 DEF Complete, TypeOK
        <5>2. Len(file[f]) \in Nat
          BY <5>1
        <5> DEFINE read == [chunks |-> scanned[p[1]].chunks + 1,
                            rows |-> scanned[p[1]].rows + Len(file[f])]
        <5>3. scanned' = [scanned EXCEPT ![p[1]] = read]
          BY <3>2, <4>1 DEF ScanChunk
        <5> HIDE DEF f
        <5>4. read \in [chunks : Nat, rows : Nat]
          BY <3>1, <5>2
        <5> HIDE DEF read
        <5> QED BY <3>1, <5>3, <5>4
      <4>2. CASE ~Complete(f)
        BY <3>1, <3>2, <4>2 DEF ScanChunk
      <4> QED BY <4>1, <4>2
    <3>3. CASE ~ScanChunk(p)
      BY <1>10, <3>1, <3>3 DEF Work, StartPreproc, OpenFile, WriteFile, StartMerge,
                 OpenIndex, WriteIndex, JobFails
    <3> QED BY <3>2, <3>3
  <2> QED BY <1>0, <2>1, <2>2, <2>3, <2>4 DEF driver, TypeOK
<1>11. CASE UNCHANGED vars
  BY <1>0, <1>11 DEF vars, disk, driver, TypeOK
<1> QED BY <1>0, <1>1, <1>2, <1>3, <1>4, <1>5, <1>6, <1>7, <1>8, <1>9, <1>10, <1>11
        DEF Next, Drive

\* Where the driver goes, and what it does to its children, in one step.
LEMMA DriverStep == IInv /\ [Next]_vars => DriverInv'
<1> SUFFICES ASSUME IInv, [Next]_vars PROVE DriverInv'
  OBVIOUS
<1>0. /\ DriverInv /\ list \in Initial..MaxImages /\ MaxImages \in Nat
      /\ Initial \in Nat \ {0} /\ run \in 0..MaxRuns /\ MaxRuns \in Nat
  BY PreprocAssumption DEF IInv, TypeOK
<1> USE DEF DriverInv, chunk_count, DriverEnded
<1>1. CASE AddImage
  BY <1>0, <1>1 DEF AddImage, driver, Active
<1>2. CASE Start
  <2>1. run' \in 1..MaxRuns /\ im_count' = list /\ list' = list /\ next' = 0
        /\ chunk_sz' \in Nat \ {0} /\ pc' \in {"loop", "merge", "neg", "exited"}
    BY <1>0, <1>2, PreprocAssumption DEF Start, AfterComp
  <2>2. Count(im_count', chunk_sz') \in 1..list
    BY <1>0, <2>1, SliceOrder
  <2> QED BY <1>0, <2>1, <2>2
<1>3. CASE ForkChunk
  <2>1. next \in Slots /\ next + 1 <= chunk_count
    BY <1>3, NextChunk DEF ForkChunk
  <2>2. /\ UNCHANGED <<list, run, im_count, chunk_sz>> /\ next' = next + 1
        /\ pc \in {"loop", "fork"} /\ pc' = "loop"
    BY <1>3 DEF ForkChunk
  <2>3. next + 1 \in 0..chunk_count
    <3>1. im_count \in Nat \ {0} /\ chunk_sz \in Nat \ {0}
      BY <1>0, <2>2
    <3>2. chunk_count \in Int
      BY <3>1, SliceOrder
    <3> QED BY <2>1, <3>2 DEF Slots
  <2> QED BY <1>0, <2>2, <2>3
<1>4. CASE AllForked \/ AllReaped
  <2>1. /\ UNCHANGED <<list, run, im_count, chunk_sz, next>>
        /\ pc \in {"loop", "wait_all"}
        /\ pc' \in {"wait_all", "merge", "neg", "exited"}
    BY <1>4 DEF AllForked, AllReaped, AfterComp
  <2> QED BY <1>0, <2>1
<1>5. CASE ForkMerge \/ ForkNeg
  BY <1>0, <1>5 DEF ForkMerge, ForkNeg, ForkOne
<1>6. CASE WaitForOne
  <2>1. PICK p \in Processes : /\ Reap(p, AfterMerge) \/ Reap(p, "exited")
                               /\ pc \in {"wait_merge", "wait_neg"}
    BY <1>6 DEF WaitForOne
  <2>2. /\ UNCHANGED <<list, run, im_count, chunk_sz, next>>
        /\ pc' \in {"neg", "exited", "fatal"}
    BY <2>1, ReapEffect DEF AfterMerge
  <2> QED BY <1>0, <2>1, <2>2
<1>7. ASSUME NEW i \in Slots, WaitForWorker(i) \/ WaitForPid(i) PROVE DriverInv'
  <2>1. /\ UNCHANGED <<list, run, im_count, chunk_sz, next>>
        /\ pc' \in {"fork", "wait_all", "fatal"} /\ pc \in {"loop", "wait_all"}
        /\ pc' = "fork" => next < chunk_count
    BY <1>7 DEF WaitForWorker, WaitForPid, Reap
  <2> QED BY <1>0, <2>1
<1>8. CASE ForkFails
  BY <1>0, <1>8 DEF ForkFails
<1>9. ASSUME NEW p \in Processes, KillChild(p) PROVE DriverInv'
  BY <1>0, <1>9, KillStepEffect DEF driver, Active
<1>10. ASSUME NEW p \in Processes, Work(p) \/ JobFails(p) PROVE DriverInv'
  BY <1>0, <1>10, JobStep, JobStepEffect DEF driver
<1>11. CASE UNCHANGED vars
  BY <1>0, <1>11 DEF vars, driver, Active
<1> QED BY <1>0, <1>1, <1>2, <1>3, <1>4, <1>5, <1>6, <1>7, <1>8, <1>9, <1>10, <1>11
        DEF Next, Drive, Slots

\* A fork is into an empty slot of the current run.
LEMMA ForkSlot ==
  ASSUME IInv, ForkChunk \/ ForkMerge \/ ForkNeg
  PROVE  \E i \in Slots \cup {Merge, NegIms}, f \in Files \cup {IndexFile} :
           /\ Fork(i, f) /\ child[Slot(i)] = "none" /\ run \in 1..MaxRuns
           /\ i = Merge => pc = "merge" /\ f = IndexFile
           /\ i = NegIms => pc = "neg" /\ f = NegFile
           /\ i \in Slots => /\ pc \in {"loop", "fork"} /\ i = next
                             /\ f \in Chunks /\ f[2] <= list
           /\ UNCHANGED <<list, disk, run, im_count, scanned, faults, parts>>
<1>0. DriverInv /\ ReapInv
  BY DEF IInv
<1>1. CASE ForkMerge
  BY <1>0, <1>1, ProcessNames, FileNames
     DEF ForkMerge, ForkOne, DriverInv, ReapInv, Merging
<1>2. CASE ForkNeg
  BY <1>0, <1>2, ProcessNames, FileNames
     DEF ForkNeg, ForkOne, DriverInv, ReapInv, Merging
<1>3. CASE ForkChunk
  <2> DEFINE f == FileName(From(next, chunk_sz), Upto(next, im_count, chunk_sz))
  <2>1. /\ next \in Slots /\ run \in 1..MaxRuns /\ f \in Chunks /\ f[2] <= list
    BY <1>3, NextChunk DEF ForkChunk
  <2>2. /\ Fork(next, f) /\ pc \in {"loop", "fork"}
        /\ UNCHANGED <<list, disk, run, im_count, scanned, faults, parts>>
    BY <1>3 DEF ForkChunk
  <2>3. child[Slot(next)] = "none"
    <3>1. next >= next
      BY <2>1, PreprocAssumption DEF Slots
    <3> QED BY <1>0, <2>1, <2>2, <3>1 DEF ReapInv, Forking
  <2> HIDE DEF f
  <2> QED BY <2>1, <2>2, <2>3, ProcessNames, FileNames
<1> QED BY <1>1, <1>2, <1>3

LEMMA ChildStep == IInv /\ [Next]_vars => ChildInv'
<1> SUFFICES ASSUME IInv, [Next]_vars, NEW q \in Processes
             PROVE  /\ child'[q] = "none" <=> job'[q] = "none"
                    /\ child'[q] = "alive" => Active(q)'
                    /\ child'[q] = "exited" => ~Active(q)'
                    /\ q[1] > run' => job'[q] = "none"
  BY DEF ChildInv
<1> DEFINE Goal == /\ child'[q] = "none" <=> job'[q] = "none"
                   /\ child'[q] = "alive" => Active(q)'
                   /\ child'[q] = "exited" => ~Active(q)'
                   /\ q[1] > run' => job'[q] = "none"
<1>0. /\ child[q] = "none" <=> job[q] = "none"
      /\ child[q] = "alive" => Active(q)
      /\ child[q] = "exited" => ~Active(q)
      /\ q[1] > run => job[q] = "none"
      /\ run \in Int /\ q[1] \in Int
  BY ProcessNames, PreprocAssumption DEF IInv, ChildInv, TypeOK
<1>1. CASE AddImage \/ AllForked \/ AllReaped \/ ForkFails
  BY <1>0, <1>1 DEF AddImage, AllForked, AllReaped, ForkFails, driver, Active
<1>2. CASE Start
  BY <1>0, <1>2 DEF Start, Active
<1>3. CASE ForkChunk \/ ForkMerge \/ ForkNeg
  <2>1. PICK i \in Slots \cup {Merge, NegIms}, f \in Files \cup {IndexFile} :
          Fork(i, f) /\ run \in 1..MaxRuns /\ run' = run
    BY <1>3, ForkSlot
  <2>2. /\ Slot(i) \in Processes /\ child'[Slot(i)] = "alive"
        /\ job'[Slot(i)] = "queued"
        /\ q # Slot(i) => child'[q] = child[q] /\ job'[q] = job[q]
    BY <2>1, ForkEffect
  <2>3. Slot(i)[1] = run
    BY DEF Slot
  <2>4. CASE q = Slot(i)
    BY <1>0, <2>1, <2>2, <2>3, <2>4 DEF Active, Working
  <2>5. CASE q # Slot(i)
    BY <1>0, <2>1, <2>2, <2>5 DEF Active
  <2> QED BY <2>4, <2>5
<1>4. CASE \/ WaitForOne
           \/ \E i \in Slots : WaitForWorker(i) \/ WaitForPid(i)
  <2>1. PICK p \in Processes, place \in {AfterMerge, "exited", "fork", "wait_all"} :
          Reap(p, place)
    <3>1. CASE WaitForOne
      BY <3>1 DEF WaitForOne
    <3>2. ASSUME NEW i \in Slots, WaitForWorker(i) \/ WaitForPid(i)
          PROVE \E p \in Processes, place \in {AfterMerge, "exited", "fork", "wait_all"} :
                  Reap(p, place)
      <4>1. Slot(i) \in Processes
        BY <3>2, ProcessNames
           DEF IInv, DriverInv, Slot, WaitForWorker, WaitForPid
      <4> QED BY <3>2, <4>1 DEF WaitForWorker, WaitForPid
    <3> QED BY <1>4, <3>1, <3>2
  <2>2. /\ run' = run /\ job' = job /\ child[p] \in {"exited", "killed"}
        /\ child'[p] = "reaped" /\ (q # p => child'[q] = child[q])
    BY <2>1, ReapEffect
  <2> QED BY <1>0, <2>2 DEF Active
<1>5. ASSUME NEW p \in Processes, KillChild(p) PROVE Goal
  BY <1>0, <1>5, KillStepEffect DEF driver, Active
<1>6. ASSUME NEW p \in Processes, Work(p) \/ JobFails(p) PROVE Goal
  <2>1. CASE q = p
    BY <1>0, <1>6, <2>1, JobStep DEF driver, Active, Working, Ended
  <2>2. CASE q # p
    BY <1>0, <1>6, <2>2, JobStep DEF driver, Active, Working, Ended
  <2> QED BY <2>1, <2>2
<1>7. CASE UNCHANGED vars
  BY <1>0, <1>7 DEF vars, driver, Active
<1> QED BY <1>1, <1>2, <1>3, <1>4, <1>5, <1>6, <1>7 DEF Next, Drive, Slots

LEMMA SlotNames ==
  ASSUME run \in 1..MaxRuns
  PROVE  /\ \A i \in Slots \cup {Merge, NegIms} :
              /\ Slot(i) \in Processes
              /\ Slot(i)[1] = run /\ Slot(i)[2] = i
         /\ \A p \in Processes : p[1] = run => p = Slot(p[2])
BY ProcessNames DEF Slot

LEMMA ReapStep == IInv /\ [Next]_vars => ReapInv'
<1> SUFFICES ASSUME IInv, [Next]_vars PROVE ReapInv'
  OBVIOUS
<1>0. /\ ReapInv /\ DriverInv /\ ChildInv
      /\ Merge \notin Slots /\ NegIms \notin Slots /\ Merge # NegIms
      /\ child \in [Processes -> {"none", "alive", "exited", "killed", "reaped"}]
  BY ProcessNames DEF IInv, TypeOK
<1> USE DEF Forking, Merging
<1>1. ASSUME UNCHANGED <<pc, parts, run, next, pids>>,
             \A p \in Processes :
               /\ Waiting(p)' <=> Waiting(p)
               /\ \A c \in {"none", "reaped"} : child'[p] = c <=> child[p] = c
               /\ Active(p)' => Active(p)
      PROVE  ReapInv'
  <2>1. CASE pc = "ready"
    <3>1. \A p \in Processes : p[1] # run
      BY <1>0, <2>1, ProcessNames DEF DriverInv
    <3> QED BY <1>1, <2>1, <3>1 DEF ReapInv
  <2>2. CASE pc # "ready"
    <3>1. \A i \in Slots \cup {Merge, NegIms} : Slot(i) \in Processes /\ Slot(i)' = Slot(i)
      BY <1>0, <1>1, <2>2, SlotNames DEF DriverInv, Slot
    <3> HIDE DEF Slot
    <3> QED BY <1>0, <1>1, <2>2, <3>1 DEF ReapInv
  <2> QED BY <2>1, <2>2
<1>2. CASE AddImage \/ UNCHANGED vars
  BY <1>1, <1>2 DEF AddImage, vars, driver, Active, Waiting
<1>3. CASE Start
  <2>1. /\ run' \in 1..MaxRuns /\ child' = child /\ next' = 0 /\ pids' = {}
        /\ pc' = IF "comp" \in parts' THEN "loop"
                 ELSE IF "merge" \in parts' THEN "merge"
                 ELSE IF "neg" \in parts' THEN "neg" ELSE "exited"
    BY <1>3, PreprocAssumption DEF Start, AfterComp, IInv, TypeOK
  <2>2. \A p \in Processes : p[1] = run' => child'[p] = "none"
    <3>1. run' = run + 1 /\ run \in Nat /\ child' = child
      BY <1>3, PreprocAssumption DEF Start, IInv, TypeOK
    <3>2. \A p \in Processes : p[1] > run => child[p] = "none"
      BY <1>0 DEF ChildInv
    <3> QED BY <3>1, <3>2
  <2>3. \A i \in Slots \cup {Merge, NegIms} : child'[Slot(i)'] = "none"
    BY <2>1, <2>2, ProcessNames DEF Slot
  <2> HIDE DEF Slot
  <2> QED BY <2>1, <2>2, <2>3 DEF ReapInv, Waiting
<1>4. CASE ForkChunk \/ ForkMerge \/ ForkNeg
  <2>1. PICK i \in Slots \cup {Merge, NegIms}, f \in Files \cup {IndexFile} :
          /\ Fork(i, f) /\ child[Slot(i)] = "none" /\ run \in 1..MaxRuns
          /\ i = Merge => pc = "merge"
          /\ i = NegIms => pc = "neg"
          /\ i \in Slots => pc \in {"loop", "fork"} /\ i = next
          /\ run' = run /\ parts' = parts
    BY <1>4, ForkSlot
  <2>2. \A j \in Slots \cup {Merge, NegIms} :
          Slot(j) \in Processes /\ Slot(j)' = Slot(j) /\ (j # i => Slot(j) # Slot(i))
    BY <2>1, SlotNames DEF Slot
  <2>3. /\ child'[Slot(i)] = "alive"
        /\ \A q \in Processes \ {Slot(i)} : child'[q] = child[q] /\ job'[q] = job[q]
    BY <2>1, ForkEffect
  <2> HIDE DEF Slot
  <2>4. \A j \in Slots \cup {Merge, NegIms} :
          j # i => child'[Slot(j)] = child[Slot(j)]
    BY <2>2, <2>3
  <2>5. \A p \in Processes : p[1] = run /\ child'[p] = "reaped" => ~Active(p)'
    BY <1>0, <2>1, <2>3 DEF ReapInv, Active
  <2>6. CASE ForkChunk
    <3>1. /\ pc \in {"loop", "fork"} /\ pc' = "loop" /\ pids' = pids \cup {next}
          /\ next' = next + 1
      BY <2>6 DEF ForkChunk
    <3>2. i = next /\ i \in Slots
      BY <1>0, <2>1, <3>1
    <3>3. \A j \in Slots : j >= next + 1 => j >= next /\ j # next
      BY <3>2, PreprocAssumption DEF Slots
    <3> QED BY <1>0, <2>1, <2>2, <2>3, <2>4, <2>5, <3>1, <3>2, <3>3
            DEF ReapInv, Waiting
  <2>7. CASE ForkMerge
    <3>1. pc = "merge" /\ pc' = "wait_merge" /\ pids' = pids /\ next' = next
      BY <2>7 DEF ForkMerge, ForkOne
    <3>2. i = Merge
      BY <2>1, <3>1
    <3> QED BY <1>0, <2>1, <2>2, <2>3, <2>4, <2>5, <3>1, <3>2 DEF ReapInv, Waiting
  <2>8. CASE ForkNeg
    <3>1. pc = "neg" /\ pc' = "wait_neg" /\ pids' = pids /\ next' = next
      BY <2>8 DEF ForkNeg, ForkOne
    <3>2. i = NegIms
      BY <2>1, <3>1
    <3> QED BY <1>0, <2>1, <2>2, <2>3, <2>4, <2>5, <3>1, <3>2 DEF ReapInv, Waiting
  <2> QED BY <1>4, <2>6, <2>7, <2>8
<1>5. CASE AllForked
  <2>1. /\ pc = "loop" /\ pc' = "wait_all"
        /\ UNCHANGED <<parts, run, next, pids, child, job>>
    BY <1>5 DEF AllForked
  <2> QED BY <1>0, <2>1 DEF ReapInv, Waiting, Slot, Active
<1>6. CASE AllReaped
  <2>1. /\ pc = "wait_all" /\ pids = {} /\ UNCHANGED <<parts, run, child, job>>
        /\ pc' = IF "merge" \in parts THEN "merge"
                 ELSE IF "neg" \in parts THEN "neg" ELSE "exited"
    BY <1>6 DEF AllReaped, AfterComp
  <2> QED BY <1>0, <2>1 DEF ReapInv, Waiting, Slot, Active
<1>7. CASE WaitForOne
  <2>1. PICK p \in Processes :
          /\ p[1] = run
          /\ \/ pc = "wait_merge" /\ Reap(p, AfterMerge)
             \/ pc = "wait_neg"   /\ Reap(p, "exited")
    BY <1>7 DEF WaitForOne
  <2>2. /\ UNCHANGED <<parts, run, job>>
        /\ child[p] \in {"exited", "killed"} /\ child'[p] = "reaped"
        /\ \A q \in Processes \ {p} : child'[q] = child[q]
        /\ pc' = IF child[p] = "killed" THEN "fatal"
                 ELSE IF pc = "wait_neg" THEN "exited"
                 ELSE IF "neg" \in parts THEN "neg" ELSE "exited"
    BY <2>1, ReapEffect DEF AfterMerge
  <2>3. run \in 1..MaxRuns
    BY <1>0, <2>1 DEF DriverInv
  <2>4. /\ \A j \in Slots \cup {Merge, NegIms} :
             Slot(j) \in Processes /\ Slot(j)' = Slot(j) /\ Slot(j)[2] = j
        /\ p = Slot(p[2]) /\ p[2] \in Slots \cup {Merge, NegIms}
    BY <2>1, <2>2, <2>3, SlotNames, ProcessNames DEF Slot
  <2> HIDE DEF Slot
  <2>5. Waiting(p)
    BY <2>2 DEF Waiting
  <2>6. p[2] = IF pc = "wait_merge" THEN Merge ELSE NegIms
    BY <1>0, <2>1, <2>4, <2>5 DEF ReapInv, Waiting
  <2>7. \A j \in Slots \cup {Merge, NegIms} :
          j # p[2] => child'[Slot(j)] = child[Slot(j)]
    BY <2>2, <2>4
  <2>8. pc' # "fatal" =>
          \A q \in Processes : q[1] = run /\ child'[q] = "reaped" => ~Active(q)'
    BY <1>0, <2>1, <2>2 DEF ReapInv, ChildInv, Active
  <2> QED BY <1>0, <2>1, <2>2, <2>4, <2>6, <2>7, <2>8 DEF ReapInv, Waiting
<1>8. ASSUME NEW i \in Slots, WaitForWorker(i) \/ WaitForPid(i) PROVE ReapInv'
  <2>1. /\ pc \in {"loop", "wait_all"} /\ pids' = pids \ {i}
        /\ Reap(Slot(i), "fork") \/ Reap(Slot(i), "wait_all")
    BY <1>8 DEF WaitForWorker, WaitForPid, ForgetPid
  <2>2. \A j \in Slots \cup {Merge, NegIms} :
          /\ Slot(j) \in Processes /\ (j # i => Slot(j) # Slot(i))
    BY <1>0, <2>1, SlotNames DEF DriverInv
  <2>3. /\ UNCHANGED <<parts, run, next, job>>
        /\ child[Slot(i)] \in {"exited", "killed"} /\ child'[Slot(i)] = "reaped"
        /\ \A q \in Processes \ {Slot(i)} : child'[q] = child[q]
        /\ pc' \in (IF child[Slot(i)] = "killed" THEN {"fatal"}
                    ELSE {"fork", "wait_all"})
    BY <2>1, <2>2, ReapEffect
  <2>4. \A j \in Slots \cup {Merge, NegIms} :
          /\ Slot(j)' = Slot(j)
          /\ j # i => child'[Slot(j)] = child[Slot(j)]
    BY <2>2, <2>3 DEF Slot
  <2> HIDE DEF Slot
  <2>5. pc' # "fatal" =>
          \A q \in Processes : q[1] = run /\ child'[q] = "reaped" => ~Active(q)'
    BY <1>0, <2>1, <2>2, <2>3 DEF ReapInv, ChildInv, Active
  <2> QED BY <1>0, <2>1, <2>2, <2>3, <2>4, <2>5 DEF ReapInv, Waiting
<1>9. CASE ForkFails
  BY <1>9 DEF ForkFails, ReapInv
<1>10. ASSUME NEW p \in Processes, KillChild(p) PROVE ReapInv'
  BY <1>1, <1>10, KillStepEffect DEF driver, Active
<1>11. ASSUME NEW p \in Processes, Work(p) \/ JobFails(p) PROVE ReapInv'
  BY <1>1, <1>11, JobStep, JobStepEffect DEF driver
<1> QED BY <1>2, <1>3, <1>4, <1>5, <1>6, <1>7, <1>8, <1>9, <1>10, <1>11
        DEF Next, Drive, Slots

LEMMA WorkerStep == IInv /\ [Next]_vars => WorkerInv'
<1> SUFFICES ASSUME IInv, [Next]_vars PROVE WorkerInv'
  OBVIOUS
<1>0. WorkerInv /\ JobLimit \in Int /\ active_workers \in Nat
  BY PreprocAssumption DEF IInv, TypeOK
<1>1. IsFiniteSet(pids)
  <2>1. IsFiniteSet(0..(MaxImages - 1))
    BY FS_Interval, PreprocAssumption
  <2> QED BY <2>1, FS_Subset DEF IInv, TypeOK
<1>2. ASSUME UNCHANGED <<pids, active_workers>>, pc' = pc PROVE WorkerInv'
  BY <1>0, <1>2 DEF WorkerInv
<1>3. ASSUME pc' \notin {"loop", "fork"} PROVE WorkerInv'
  BY <1>3 DEF WorkerInv
<1>4. CASE Start
  <2>1. active_workers' = Cardinality(pids') /\ active_workers' = 0
    BY <1>4, FS_EmptySet DEF Start
  <2>2. pc' # "fork"
    BY <1>4 DEF Start, AfterComp
  <2> QED BY <1>0, <2>1, <2>2 DEF WorkerInv
<1>5. CASE ForkChunk
  <2>1. /\ pc = "fork" \/ (pc = "loop" /\ ~LimitReached)
        /\ pids' = pids \cup {next} /\ active_workers' = active_workers + 1
        /\ pc' = "loop"
    BY <1>5 DEF ForkChunk
  <2>2. next \in Slots
    BY <1>5, NextChunk DEF ForkChunk
  <2>3. next \notin pids
    <3>1. next >= next
      BY <2>2, PreprocAssumption DEF Slots
    <3> QED BY <2>1, <2>2, <3>1 DEF IInv, ReapInv, Forking, Waiting
  <2>4. Cardinality(pids') = Cardinality(pids) + 1
    BY <1>1, <2>1, <2>3, FS_AddElement
  <2>5. active_workers' = Cardinality(pids')
    BY <1>0, <2>1, <2>4 DEF WorkerInv
  <2>6. JobLimit > 0 => active_workers' <= JobLimit
    BY <1>0, <2>1 DEF WorkerInv, LimitReached
  <2> QED BY <2>1, <2>5, <2>6 DEF WorkerInv
<1>6. ASSUME NEW i \in Slots, WaitForWorker(i) PROVE WorkerInv'
  <2>1. /\ pc = "loop" /\ pids' = pids \ {i}
        /\ active_workers' = active_workers - 1
        /\ child[Slot(i)] \in {"exited", "killed"}
    BY <1>6 DEF WaitForWorker, ForgetPid, Reap
  <2>2. i \in pids
    BY <2>1 DEF IInv, ReapInv, Forking, Waiting
  <2>3. Cardinality(pids') = Cardinality(pids) - 1
    BY <1>1, <2>1, <2>2, FS_RemoveElement
  <2>4. active_workers' = Cardinality(pids')
    BY <1>0, <2>1, <2>3 DEF WorkerInv
  <2> QED BY <1>0, <2>1, <2>4 DEF WorkerInv
<1>7. ASSUME NEW i \in Slots, WaitForPid(i) PROVE WorkerInv'
  BY <1>3, <1>7 DEF WaitForPid, Reap
<1>8. CASE AllForked \/ AllReaped \/ ForkMerge \/ ForkNeg \/ WaitForOne \/ ForkFails
  BY <1>3, <1>8 DEF AllForked, AllReaped, AfterComp, ForkMerge, ForkNeg, ForkOne,
                    WaitForOne, Reap, AfterMerge, ForkFails
<1>9. CASE AddImage \/ UNCHANGED vars
  BY <1>2, <1>9 DEF AddImage, vars, driver
<1>10. ASSUME NEW p \in Processes, KillChild(p) PROVE WorkerInv'
  BY <1>2, <1>10 DEF KillChild, driver
<1>11. ASSUME NEW p \in Processes, Work(p) \/ JobFails(p) PROVE WorkerInv'
  BY <1>2, <1>11, JobStep DEF driver
<1> QED BY <1>4, <1>5, <1>6, <1>7, <1>8, <1>9, <1>10, <1>11
        DEF Next, Drive, Slots

\* Only a fork makes a job active or a child alive.
LEMMA NoForkStep ==
  ASSUME IInv, [Next]_vars, ~ForkChunk, ~ForkMerge, ~ForkNeg, NEW q \in Processes
  PROVE  /\ Active(q)' => Active(q)
         /\ job'[q] = "none" <=> job[q] = "none"
         /\ child'[q] = "alive" => child[q] = "alive"
<1> DEFINE Goal == /\ Active(q)' => Active(q)
                   /\ job'[q] = "none" <=> job[q] = "none"
                   /\ child'[q] = "alive" => child[q] = "alive"
<1>1. CASE \/ AddImage \/ Start \/ AllForked \/ AllReaped \/ ForkFails
           \/ UNCHANGED vars
  BY <1>1 DEF AddImage, Start, AllForked, AllReaped, ForkFails, vars, driver, Active
<1>2. ASSUME NEW p \in Processes, NEW place, Reap(p, place) PROVE Goal
  BY <1>2, ReapEffect DEF Active
<1>3. CASE WaitForOne
  BY <1>2, <1>3 DEF WaitForOne
<1>4. ASSUME NEW i \in Slots, WaitForWorker(i) \/ WaitForPid(i) PROVE Goal
  <2>1. Slot(i) \in Processes
    BY <1>4, SlotNames DEF IInv, DriverInv, WaitForWorker, WaitForPid
  <2> QED BY <1>2, <1>4, <2>1 DEF WaitForWorker, WaitForPid
<1>5. ASSUME NEW p \in Processes, KillChild(p) PROVE Goal
  BY <1>5, KillStepEffect DEF Active
<1>6. ASSUME NEW p \in Processes, Work(p) \/ JobFails(p) PROVE Goal
  BY <1>6, JobStepEffect
<1> QED BY <1>1, <1>3, <1>4, <1>5, <1>6 DEF Next, Drive, Slots

\* The children that are alive are among pids, or belong to a dead driver.
LEMMA LimitStep ==
  ASSUME IInv, LimitRespected, [Next]_vars, ReapInv', WorkerInv', TypeOK'
  PROVE  LimitRespected'
<1> DEFINE Alive(r) == {i \in 0..(MaxImages - 1) : child[<<r, i>>] = "alive"}
<1> SUFFICES ASSUME JobLimit > 0, NEW r \in 1..MaxRuns
             PROVE  Cardinality(Alive(r)') <= JobLimit
  BY DEF LimitRespected
<1>1. IsFiniteSet(0..(MaxImages - 1)) /\ JobLimit \in Int
  BY FS_Interval, PreprocAssumption
<1>2. Cardinality(Alive(r)) <= JobLimit
  BY DEF LimitRespected
<1>3. /\ IsFiniteSet(Alive(r)) /\ Cardinality(Alive(r)) \in Nat
      /\ IsFiniteSet(Alive(r)') /\ Cardinality(Alive(r)') \in Nat
  <2>1. Alive(r) \in SUBSET (0..(MaxImages - 1)) /\ Alive(r)' \in SUBSET (0..(MaxImages - 1))
    OBVIOUS
  <2> HIDE DEF Alive
  <2>2. IsFiniteSet(Alive(r)) /\ IsFiniteSet(Alive(r)')
    BY <1>1, <2>1, FS_Subset
  <2> QED BY <2>2, FS_CardinalityType
<1>4. CASE Alive(r)' \subseteq Alive(r)
  <2> HIDE DEF Alive
  <2>1. Alive(r)' \in SUBSET Alive(r)
    BY <1>4
  <2>2. Cardinality(Alive(r)') <= Cardinality(Alive(r))
    BY <1>3, <2>1, FS_Subset
  <2> QED BY <1>1, <1>2, <1>3, <2>2
<1>5. CASE ForkChunk /\ r = run
  <2>1. pc' = "loop" /\ run' = run /\ run \in 1..MaxRuns
    BY <1>5 DEF ForkChunk
  <2>2. Alive(r)' \subseteq pids'
    BY <1>5, <2>1 DEF ReapInv, Forking, Waiting, Slot, Slots
  <2>3. active_workers' = Cardinality(pids') /\ active_workers' <= JobLimit
    BY <2>1 DEF WorkerInv
  <2>4. IsFiniteSet(pids')
    BY <1>1, FS_Subset DEF TypeOK
  <2> HIDE DEF Alive
  <2>5. Cardinality(Alive(r)') <= Cardinality(pids')
    BY <2>2, <2>4, FS_Subset
  <2>6. Cardinality(pids') \in Nat
    BY <2>4, FS_CardinalityType
  <2> QED BY <1>1, <1>3, <2>3, <2>5, <2>6
<1>6. CASE (ForkChunk /\ r # run) \/ ForkMerge \/ ForkNeg
  <2>1. PICK i \in Slots \cup {Merge, NegIms}, f \in Files \cup {IndexFile} :
          /\ Fork(i, f) /\ run \in 1..MaxRuns
          /\ i \in Slots => pc \in {"loop", "fork"}
    BY <1>6, ForkSlot
  <2>2. \A j \in Slots : <<r, j>> \in Processes /\ <<r, j>> # Slot(i)
    <3>1. r # run \/ i \notin Slots
      BY <1>6, <2>1 DEF ForkMerge, ForkNeg, ForkOne
    <3> QED BY <3>1, ProcessNames DEF Slot
  <2>3. \A j \in Slots : child'[<<r, j>>] = child[<<r, j>>]
    BY <2>1, <2>2, ForkEffect
  <2>4. Alive(r)' \subseteq Alive(r)
    BY <2>3 DEF Slots
  <2> QED BY <1>4, <2>4
<1>7. CASE ~ForkChunk /\ ~ForkMerge /\ ~ForkNeg
  <2>1. \A j \in Slots : <<r, j>> \in Processes
    BY ProcessNames
  <2>2. \A j \in Slots : child'[<<r, j>>] = "alive" => child[<<r, j>>] = "alive"
    BY <1>7, <2>1, NoForkStep
  <2>3. Alive(r)' \subseteq Alive(r)
    BY <2>2 DEF Slots
  <2> QED BY <1>4, <2>3
<1> QED BY <1>5, <1>6, <1>7

\* The merge is forked when pids is empty, and then no chunk is forked any more.
LEMMA MergeStep ==
  ASSUME IInv, MergeAfterChunks, [Next]_vars
  PROVE  MergeAfterChunks'
<1> SUFFICES ASSUME NEW r \in 1..MaxRuns, job'[<<r, Merge>>] # "none",
                    NEW i \in Slots
             PROVE  ~Active(<<r, i>>)'
  BY DEF MergeAfterChunks, Slots
<1>1. <<r, Merge>> \in Processes /\ <<r, i>> \in Processes /\ i # Merge
  BY ProcessNames
<1>2. job[<<r, Merge>>] # "none" => ~Active(<<r, i>>)
  BY DEF MergeAfterChunks, Slots
<1>3. CASE ForkChunk \/ ForkMerge \/ ForkNeg
  <2>1. PICK j \in Slots \cup {Merge, NegIms}, f \in Files \cup {IndexFile} :
          /\ Fork(j, f) /\ run \in 1..MaxRuns
          /\ j = Merge => pc = "merge"
          /\ j = NegIms => pc = "neg"
          /\ j \in Slots => pc \in {"loop", "fork"}
    BY <1>3, ForkSlot
  <2>2. \A q \in Processes \ {Slot(j)} : job'[q] = job[q]
    BY <2>1, ForkEffect
  <2>3. CASE <<r, i>> = Slot(j)
    <3>1. r = run /\ i = j /\ pc \in {"loop", "fork"}
      BY <2>1, <2>3 DEF Slot
    <3>2. job[<<r, Merge>>] = "none"
      BY <1>1, <3>1 DEF IInv, ReapInv, Forking, ChildInv, Slot
    <3>3. <<r, Merge>> # Slot(j)
      BY <1>1, <3>1 DEF Slot
    <3> QED BY <1>1, <2>2, <3>2, <3>3
  <2>4. CASE <<r, i>> # Slot(j) /\ <<r, Merge>> # Slot(j)
    BY <1>1, <1>2, <2>2, <2>4 DEF Active
  <2>5. CASE <<r, i>> # Slot(j) /\ <<r, Merge>> = Slot(j)
    <3>1. r = run /\ pc = "merge"
      BY <2>1, <2>5 DEF Slot
    <3>2. child[<<r, i>>] \in {"none", "reaped"}
      BY <1>1, <3>1 DEF IInv, TypeOK, ReapInv, Merging, Waiting, Slot
    <3>3. ~Active(<<r, i>>)
      BY <1>1, <3>1, <3>2 DEF IInv, ReapInv, ChildInv, Active, Working
    <3> QED BY <1>1, <2>2, <2>5, <3>3 DEF Active
  <2> QED BY <2>3, <2>4, <2>5
<1>4. CASE ~ForkChunk /\ ~ForkMerge /\ ~ForkNeg
  BY <1>1, <1>2, <1>4, NoForkStep
<1> QED BY <1>3, <1>4

-----------------------------------------------------------------------------
(* The disk *)

\* A file that is there stays there.
LEMMA FilesStay ==
  ASSUME IInv, [Next]_vars, NEW f \in Files, file[f] # Missing
  PROVE  file'[f] # Missing
<1>1. CASE \E p \in Processes : Work(p)
  <2>1. file'[f] \in {file[f], Torn, Full(f)}
    BY <1>1, DiskStep
  <2>2. Full(f) # Missing
    BY FullNames
  <2>3. Torn # Missing
    BY DEF Torn, Missing
  <2> QED BY <2>1, <2>2, <2>3
<1>2. CASE \A p \in Processes : ~Work(p)
  <2>1. file' = file
    BY <1>2 DEF Next, Drive, AddImage, Start, ForkChunk, AllForked, AllReaped,
       ForkMerge, ForkNeg, ForkOne, WaitForOne, WaitForWorker, WaitForPid, Reap,
       ForkFails, JobFails, KillChild, vars, disk
  <2> QED BY <2>1
<1> QED BY <1>1, <1>2

\* Only a job writes, and while there is one the list is the one that the driver
\* counted.
LEMMA IndexStep ==
  ASSUME IInv, [Next]_vars
  PROVE  /\ index' = index \/ (index' \in {TornIndex, IndexOf(list)} /\ list' = list)
         /\ pc # "ready" /\ index' # index => list = im_count
<1>1. ASSUME NEW p \in Processes, Work(p)
      PROVE  /\ index' \in {index, TornIndex, IndexOf(list)} /\ list' = list
             /\ pc # "ready" => list = im_count
  <2>1. Active(p) /\ list' = list
    BY <1>1, JobStep
  <2> QED BY <1>1, <2>1, DiskStep DEF IInv, DriverInv
<1>2. CASE \A p \in Processes : ~Work(p)
  BY <1>2 DEF Next, Drive, AddImage, Start, ForkChunk, AllForked, AllReaped,
     ForkMerge, ForkNeg, ForkOne, WaitForOne, WaitForWorker, WaitForPid, Reap,
     ForkFails, JobFails, KillChild, vars, disk
<1> QED BY <1>1, <1>2

\* What a step makes of a job: it may be forked, it may be disturbed by another
\* job, or it takes a step itself.
LEMMA JobOrigin ==
  ASSUME IInv, [Next]_vars, NEW q \in Processes
  PROVE  \/ /\ job'[q] = job[q] /\ target'[q] = target[q]
            /\ list' = list \/ ~Active(q)
         \/ job[q] = "write" /\ job'[q] = "disturbed" /\ target'[q] = target[q]
            /\ list' = list
         \/ /\ job[q] = "none" /\ job'[q] = "queued" /\ list' = list
            /\ q[2] = Merge => target'[q] = IndexFile
            /\ q[2] = NegIms => target'[q] = NegFile
            /\ q[2] \in Slots => target'[q] \in Chunks /\ target'[q][2] <= list
         \/ (Work(q) \/ JobFails(q)) /\ target'[q] = target[q] /\ list' = list
<1>1. CASE AddImage
  BY <1>1 DEF AddImage
<1>2. CASE ForkChunk \/ ForkMerge \/ ForkNeg
  <2>1. PICK i \in Slots \cup {Merge, NegIms}, f \in Files \cup {IndexFile} :
          /\ Fork(i, f) /\ child[Slot(i)] = "none" /\ run \in 1..MaxRuns
          /\ i = Merge => f = IndexFile
          /\ i = NegIms => f = NegFile
          /\ i \in Slots => f \in Chunks /\ f[2] <= list
          /\ list' = list
    BY <1>2, ForkSlot
  <2>2. /\ job'[Slot(i)] = "queued" /\ target'[Slot(i)] = f
        /\ q # Slot(i) => job'[q] = job[q] /\ target'[q] = target[q]
    BY <2>1, ForkEffect
  <2>3. Slot(i)[2] = i /\ Slot(i) \in Processes
    BY <2>1, SlotNames
  <2>4. job[Slot(i)] = "none"
    BY <2>1, <2>3 DEF IInv, ChildInv
  <2>5. CASE q = Slot(i)
    BY <2>1, <2>2, <2>3, <2>4, <2>5
  <2>6. CASE q # Slot(i)
    BY <2>1, <2>2, <2>6
  <2> QED BY <2>5, <2>6
<1>3. ASSUME NEW p \in Processes, Work(p) \/ JobFails(p), p # q
      PROVE  /\ list' = list /\ target' = target
             /\ job'[q] = job[q] \/ (job[q] = "write" /\ job'[q] = "disturbed")
  BY <1>3, JobStep
<1>4. CASE Work(q) \/ JobFails(q)
  BY <1>4, JobStep
<1>5. CASE \/ Start \/ AllForked \/ AllReaped \/ WaitForOne \/ ForkFails
           \/ \E i \in 0..(MaxImages - 1) : WaitForWorker(i) \/ WaitForPid(i)
           \/ \E p \in Processes : KillChild(p)
           \/ UNCHANGED vars
  BY <1>5 DEF Start, AllForked, AllReaped, WaitForOne, WaitForWorker, WaitForPid,
              Reap, ForkFails, KillChild, vars
<1> QED BY <1>1, <1>2, <1>3, <1>4, <1>5 DEF Next, Drive

\* Where a step takes a job, and what it has done then.
LEMMA JobKinds ==
  ASSUME IInv, NEW p \in Processes, Work(p) \/ JobFails(p)
  PROVE  /\ job'[p] = "scan" => p[2] = Merge
         /\ job'[p] = "encode" => p[2] # Merge
         /\ job'[p] \in {"write", "disturbed"} =>
              IF p[2] = Merge
              THEN /\ index' = TornIndex
                   /\ scanned[p[1]].chunks = Count(list, CombineSize)
              ELSE file'[target[p]] # Missing
         /\ job'[p] = "done" =>
              IF p[2] = Merge THEN job[p] \in {"write", "disturbed"}
              ELSE file'[target[p]] # Missing
<1>1. /\ FileInv /\ job \in [Processes -> {"none"} \cup Working \cup Ended]
      /\ job[p] # "none" /\ file \in [Files -> Seq(0..MaxImages)]
  BY JobStep DEF IInv, TypeOK, Active, Working
<1>2. IF p[2] = Merge THEN target[p] = IndexFile
      ELSE target[p] \in Files /\ Images(target[p]) = Full(target[p])
  BY <1>1, Targets
<1>3. CASE StartPreproc(p)
  BY <1>1, <1>2, <1>3 DEF StartPreproc, EndJob, disk
<1>4. CASE OpenFile(p)
  <2>1. p[2] # Merge /\ target[p] \in Files
    BY <1>1, <1>2, <1>4 DEF OpenFile, FileInv
  <2> QED BY <1>1, <1>4, <2>1 DEF OpenFile, Truncate, Torn, Missing
<1>5. CASE WriteFile(p)
  <2>1. p[2] # Merge /\ target[p] \in Files /\ file[target[p]] # Missing
    BY <1>1, <1>2, <1>5 DEF WriteFile, FileInv
  <2>2. file'[target[p]] \in {file[target[p]], Torn, Full(target[p])}
    BY <1>5, <2>1, DiskStep DEF Work
  <2>3. file'[target[p]] # Missing
    <3>1. Full(target[p]) # Missing
      BY <2>1, FullNames
    <3>2. Torn # Missing
      BY DEF Torn, Missing
    <3> QED BY <2>1, <2>2, <3>1, <3>2
  <2> QED BY <1>1, <1>5, <2>1, <2>3 DEF WriteFile, EndJob
<1>6. CASE StartMerge(p)
  BY <1>1, <1>6 DEF StartMerge
<1>7. CASE ScanChunk(p)
  BY <1>1, <1>7 DEF ScanChunk, EndJob, FileInv
<1>8. CASE OpenIndex(p)
  <2>1. p[2] = Merge /\ job'[p] = "write" /\ index' = TornIndex
    BY <1>1, <1>8 DEF OpenIndex, Truncate, FileInv
  <2>2. Len(MergedChunks) = Count(list, CombineSize)
    <3>1. list \in 1..MaxImages
      BY PreprocAssumption DEF IInv, TypeOK
    <3> QED BY <3>1, MergedNames DEF MergedChunks, Merged
  <2> QED BY <1>8, <2>1, <2>2 DEF OpenIndex
<1>9. CASE WriteIndex(p)
  <2>1. p[2] = Merge
    BY <1>1, <1>2, <1>9, FileNames DEF WriteIndex
  <2> QED BY <1>1, <1>9, <2>1 DEF WriteIndex, EndJob
<1>10. CASE JobFails(p)
  BY <1>1, <1>10 DEF JobFails, EndJob
<1> QED BY <1>3, <1>4, <1>5, <1>6, <1>7, <1>8, <1>9, <1>10 DEF Work

LEMMA FileStep == IInv /\ [Next]_vars => FileInv'
<1> SUFFICES ASSUME IInv, [Next]_vars PROVE FileInv'
  OBVIOUS
<1>0. /\ FileInv /\ list \in Nat \ {0} /\ list' \in Int /\ list <= list'
      /\ job \in [Processes -> {"none"} \cup Working \cup Ended]
  <2>1. list \in Nat \ {0} /\ list' \in Int
    BY TypeStep, PreprocAssumption DEF IInv, TypeOK
  <2>2. list' = list \/ list' = list + 1
    <3>1. ASSUME NEW p \in Processes, Work(p) \/ JobFails(p) PROVE list' = list
      BY <3>1, JobStep
    <3> QED BY <3>1 DEF Next, Drive, AddImage, Start, ForkChunk, AllForked, AllReaped,
       ForkMerge, ForkNeg, ForkOne, WaitForOne, WaitForWorker, WaitForPid, Reap,
       ForkFails, KillChild, vars
  <2> QED BY <2>1, <2>2 DEF IInv, TypeOK
<1>1. \A f \in Files : file'[f] \in {Missing, Torn, Full(f)}
  <2>1. ASSUME NEW p \in Processes, Work(p), NEW f \in Files
        PROVE  file'[f] \in {file[f], Torn, Full(f)}
    BY <2>1, DiskStep
  <2>2. CASE \A p \in Processes : ~Work(p)
    <3>1. file' = file
      BY <2>2 DEF Next, Drive, AddImage, Start, ForkChunk, AllForked, AllReaped,
         ForkMerge, ForkNeg, ForkOne, WaitForOne, WaitForWorker, WaitForPid, Reap,
         ForkFails, JobFails, KillChild, vars, disk
    <3> QED BY <1>0, <3>1 DEF FileInv
  <2> QED BY <1>0, <2>1, <2>2 DEF FileInv
<1>2. index' \in {NoIndex, TornIndex} \cup {IndexOf(n) : n \in 1..list'}
  <2>1. 1..list \subseteq 1..list' /\ list \in 1..list'
    BY <1>0
  <2>2. index' = index \/ index' \in {TornIndex, IndexOf(list)}
    BY IndexStep
  <2> QED BY <1>0, <2>1, <2>2 DEF FileInv
<1>3. ASSUME NEW q \in Processes, job'[q] # "none"
      PROVE  /\ q[2] = Merge => target'[q] = IndexFile
             /\ q[2] = NegIms => target'[q] = NegFile
             /\ q[2] \in Slots => target'[q] \in Chunks /\ target'[q][2] <= list'
  <2>1. CASE job[q] # "none" /\ target'[q] = target[q]
    <3>1. q[2] \in Slots => target[q][2] \in Int
      BY <1>0, <2>1 DEF FileInv, Chunks
    <3> QED BY <1>0, <2>1, <3>1 DEF FileInv
  <2>2. CASE ~(job[q] # "none" /\ target'[q] = target[q])
    <3>1. /\ q[2] = Merge => target'[q] = IndexFile
          /\ q[2] = NegIms => target'[q] = NegFile
          /\ q[2] \in Slots => target'[q] \in Chunks /\ target'[q][2] <= list
          /\ list' = list
      <4>1. ~(Work(q) \/ JobFails(q)) \/ job[q] # "none"
        BY JobStep DEF Active, Working
      <4> QED BY <1>3, <2>2, <4>1, JobOrigin
    <3> QED BY <3>1
  <2> QED BY <2>1, <2>2
<1>4. ASSUME NEW q \in Processes
      PROVE  /\ job'[q] = "scan" => q[2] = Merge
             /\ job'[q] = "encode" => q[2] # Merge
             /\ job'[q] \in {"write", "disturbed"} =>
                  IF q[2] = Merge THEN index' \in {TornIndex, IndexOf(list')}
                  ELSE file'[target'[q]] # Missing
  <2>1. CASE Work(q) \/ JobFails(q)
    BY <2>1, JobKinds, JobStep
  <2>2. CASE ~(Work(q) \/ JobFails(q)) /\ job'[q] \in {"scan", "encode"}
    BY <1>0, <2>2, JobOrigin DEF FileInv
  <2>3. CASE ~(Work(q) \/ JobFails(q)) /\ job'[q] \in {"write", "disturbed"}
    <3>1. /\ job[q] \in {"write", "disturbed"} /\ target'[q] = target[q]
          /\ list' = list
      BY <2>3, JobOrigin DEF Active, Working
    <3>2. CASE q[2] = Merge
      <4>1. index \in {TornIndex, IndexOf(list)}
        BY <1>0, <3>1, <3>2 DEF FileInv
      <4>2. index' \in {TornIndex, IndexOf(list)}
        BY <4>1, IndexStep
      <4>3. IndexOf(list') = IndexOf(list)
        BY <3>1
      <4> QED BY <2>3, <3>2, <4>2, <4>3
    <3>3. CASE q[2] # Merge
      <4>1. target[q] \in Files /\ file[target[q]] # Missing
        BY <1>0, <3>1, <3>3, Targets DEF FileInv
      <4> QED BY <2>3, <3>1, <3>3, <4>1, FilesStay
    <3> QED BY <2>3, <3>2, <3>3
  <2> QED BY <2>1, <2>2, <2>3
<1> QED BY <1>1, <1>2, <1>3, <1>4 DEF FileInv

\* A merge that reads one more chunk.
LEMMA ReadChunk ==
  ASSUME IInv, NEW r \in 1..MaxRuns, ScanChunk(<<r, Merge>>),
         job'[<<r, Merge>>] = "scan"
  PROVE  /\ scanned'[r].chunks \in 0..Count(list, CombineSize)
         /\ scanned'[r].rows = IF scanned'[r].chunks = 0 THEN 0
                               ELSE Upto(scanned'[r].chunks - 1, list, CombineSize)
         /\ \A k \in 1..scanned'[r].chunks : file[Merged(list)[k]] # Missing
<1> DEFINE m == <<r, Merge>>
           c == scanned[r].chunks
           n == Count(list, CombineSize)
           f == Merged(list)[c + 1]
<1>1. /\ list \in 1..MaxImages /\ list \in Nat \ {0} /\ CombineSize \in Nat \ {0}
      /\ scanned \in [1..MaxRuns -> [chunks : Nat, rows : Nat]]
      /\ job \in [Processes -> {"none"} \cup Working \cup Ended] /\ m \in Processes
      /\ m[1] = r
  <2>1. list \in 1..MaxImages /\ list \in Nat \ {0} /\ CombineSize \in Nat \ {0}
    BY PreprocAssumption DEF IInv, TypeOK
  <2>2. m \in Processes /\ m[1] = r
    BY ProcessNames
  <2> QED BY <2>1, <2>2 DEF IInv, TypeOK
<1>2. /\ Len(Merged(list)) = n /\ n \in Nat \ {0}
      /\ \A k \in 1..n : Merged(list)[k] \in Chunks
  BY <1>1, MergedNames
<1>3. MergedChunks = Merged(list)
  BY DEF MergedChunks, Merged
<1>4. job[m] = "scan" /\ c < n /\ c \in Nat
  BY <1>1, <1>2, <1>3 DEF ScanChunk
<1>5. Complete(f)
  <2> SUFFICES ASSUME ~Complete(f) PROVE FALSE
    OBVIOUS
  <2>1. job' = [job EXCEPT ![m] = "failed"]
    BY <1>3 DEF ScanChunk, EndJob
  <2> QED BY <1>1, <2>1
<1>6. scanned' = [scanned EXCEPT ![r] =
                    [chunks |-> c + 1, rows |-> scanned[r].rows + Len(file[f])]]
  BY <1>3, <1>5 DEF ScanChunk
<1>7. scanned'[r].chunks = c + 1 /\ scanned'[r].rows = scanned[r].rows + Len(file[f])
  BY <1>1, <1>6
<1>8. /\ scanned[r].rows = IF c = 0 THEN 0 ELSE Upto(c - 1, list, CombineSize)
      /\ \A k \in 1..c : file[Merged(list)[k]] # Missing
  BY <1>4 DEF IInv, ScanInv
<1>9. /\ c \in 0..(n - 1) /\ c + 1 \in 1..n
  BY <1>2, <1>4
<1>10. /\ From(c, CombineSize) \in Nat /\ Upto(c, list, CombineSize) \in Nat
       /\ From(c, CombineSize) < Upto(c, list, CombineSize)
       /\ scanned[r].rows = From(c, CombineSize)
  <2>1. \A i \in 0..(n - 1) :
              /\ From(i, CombineSize) \in Nat /\ Upto(i, list, CombineSize) \in Nat
              /\ From(i, CombineSize) < Upto(i, list, CombineSize)
    BY <1>1, SliceOrder
  <2>2. /\ From(0, CombineSize) = 0
        /\ \A i \in 1..(n - 1) : From(i, CombineSize) = Upto(i - 1, list, CombineSize)
    BY <1>1, SliceOrder
  <2>3. c = 0 \/ c \in 1..(n - 1)
    BY <1>9
  <2> QED BY <1>8, <1>9, <2>1, <2>2, <2>3
<1>11. Len(file[f]) = Upto(c, list, CombineSize) - From(c, CombineSize)
  <2> DEFINE a == From(c, CombineSize)
             b == Upto(c, list, CombineSize)
  <2>1. f = <<a + 1, b>>
    <3>1. f = FileName(From((c + 1) - 1, CombineSize), Upto((c + 1) - 1, list, CombineSize))
      BY <1>9 DEF Merged
    <3>2. (c + 1) - 1 = c
      BY <1>4
    <3> QED BY <3>1, <3>2 DEF FileName
  <2>2. f \in Files /\ f # NegFile
    BY <1>2, <1>9, FileNames
  <2>3. file[f] = Full(f)
    BY <1>5, <2>2 DEF Complete, IInv, FileInv
  <2>4. Full(f) = [k \in 1..(b - (a + 1) + 1) |-> (a + 1) - 1 + k]
    BY <2>1, <2>2 DEF Full
  <2> HIDE DEF f, a, b
  <2>5. a \in Nat /\ b \in Nat /\ a < b
    BY <1>10 DEF a, b
  <2>6. b - (a + 1) + 1 = b - a /\ b - a \in Nat
    BY <2>5
  <2>7. Full(f) = [k \in 1..(b - a) |-> (a + 1) - 1 + k]
    BY <2>4, <2>6
  <2>8. Full(f) \in [1..(b - a) -> Int]
    BY <2>5, <2>7
  <2>9. Len(Full(f)) = b - a
    BY <2>6, <2>8
  <2> QED BY <2>3, <2>9 DEF a, b
<1>12. scanned'[r].rows = Upto(c, list, CombineSize)
  BY <1>7, <1>10, <1>11
<1>13. scanned'[r].chunks \in 0..n /\ scanned'[r].chunks # 0 /\ (c + 1) - 1 = c
  BY <1>4, <1>7, <1>9
<1>14. \A k \in 1..(c + 1) : file[Merged(list)[k]] # Missing
  <2>1. file[Merged(list)[c + 1]] # Missing
    BY <1>5 DEF Complete
  <2>2. 1..(c + 1) = 1..c \cup {c + 1}
    BY <1>4
  <2> QED BY <1>8, <2>1, <2>2
<1> QED BY <1>7, <1>12, <1>13, <1>14

LEMMA ScanStep == IInv /\ [Next]_vars => ScanInv'
<1> SUFFICES ASSUME IInv, [Next]_vars, NEW r \in 1..MaxRuns
             PROVE  LET state == job'[<<r, Merge>>]
                        read  == scanned'[r] IN
    /\ state \in {"none", "queued"} => read = [chunks |-> 0, rows |-> 0]
    /\ state \in {"scan", "write", "disturbed"} =>
         /\ read.chunks \in 0..Count(list', CombineSize)
         /\ read.rows = IF read.chunks = 0 THEN 0
                        ELSE Upto(read.chunks - 1, list', CombineSize)
         /\ \A k \in 1..read.chunks : file'[Merged(list')[k]] # Missing
    /\ state \in {"write", "disturbed"} => read.chunks = Count(list', CombineSize)
  BY DEF ScanInv, Merged
<1> DEFINE m == <<r, Merge>>
           Read(n) == /\ scanned'[r].chunks \in 0..Count(n, CombineSize)
                      /\ scanned'[r].rows = IF scanned'[r].chunks = 0 THEN 0
                           ELSE Upto(scanned'[r].chunks - 1, n, CombineSize)
                      /\ \A k \in 1..scanned'[r].chunks : file'[Merged(n)[k]] # Missing
           Goal == /\ job'[m] \in {"none", "queued"} =>
                        scanned'[r] = [chunks |-> 0, rows |-> 0]
                   /\ job'[m] \in {"scan", "write", "disturbed"} => Read(list')
                   /\ job'[m] \in {"write", "disturbed"} =>
                        scanned'[r].chunks = Count(list', CombineSize)
<1>1. /\ m \in Processes /\ m[1] = r /\ m[2] = Merge
      /\ list \in 1..MaxImages
      /\ scanned \in [1..MaxRuns -> [chunks : Nat, rows : Nat]]
  <2>1. m \in Processes /\ m[1] = r /\ m[2] = Merge
    BY ProcessNames
  <2>2. list \in 1..MaxImages
    BY PreprocAssumption DEF IInv, TypeOK
  <2> QED BY <2>1, <2>2 DEF IInv, TypeOK
\* The chunks that were read stay on the disk.
<1>2. ASSUME NEW c \in 0..Count(list, CombineSize),
             \A k \in 1..c : file[Merged(list)[k]] # Missing
      PROVE  \A k \in 1..c : file'[Merged(list)[k]] # Missing
  <2>1. \A k \in 1..c : Merged(list)[k] \in Files
    BY <1>1, <1>2, MergedNames, FileNames
  <2> QED BY <1>2, <2>1, FilesStay
<1>3. /\ job[m] \in {"none", "queued"} => scanned[r] = [chunks |-> 0, rows |-> 0]
      /\ job[m] \in {"scan", "write", "disturbed"} =>
           /\ scanned[r].chunks \in 0..Count(list, CombineSize)
           /\ scanned[r].rows = IF scanned[r].chunks = 0 THEN 0
                                ELSE Upto(scanned[r].chunks - 1, list, CombineSize)
           /\ \A k \in 1..scanned[r].chunks : file[Merged(list)[k]] # Missing
      /\ job[m] \in {"write", "disturbed"} =>
           scanned[r].chunks = Count(list, CombineSize)
  BY DEF IInv, ScanInv
<1>4. job[m] \in {"scan", "write", "disturbed"} /\ scanned'[r] = scanned[r] => Read(list)
  BY <1>2, <1>3
<1> SUFFICES Goal
  OBVIOUS
<1> HIDE DEF m, Read
<1>5. CASE Work(m) \/ JobFails(m)
  <2>1. list' = list
    BY <1>1, <1>5, JobStep
  <2>2. CASE ScanChunk(m)
    <3>1. CASE job'[m] = "scan"
      <4>1. /\ scanned'[r].chunks \in 0..Count(list, CombineSize)
            /\ scanned'[r].rows = IF scanned'[r].chunks = 0 THEN 0
                 ELSE Upto(scanned'[r].chunks - 1, list, CombineSize)
            /\ \A k \in 1..scanned'[r].chunks : file[Merged(list)[k]] # Missing
        BY <2>2, <3>1, ReadChunk DEF m
      <4>2. Read(list)
        BY <1>2, <4>1 DEF Read
      <4> QED BY <2>1, <3>1, <4>2
    <3>2. CASE job'[m] # "scan"
      <4>1. job'[m] = "failed"
        BY <1>1, <2>2, <3>2 DEF ScanChunk, EndJob, IInv, TypeOK
      <4> QED BY <4>1
    <3> QED BY <3>1, <3>2
  <2>3. CASE StartMerge(m)
    <3>1. job[m] = "queued" /\ scanned' = scanned /\ job'[m] = "scan"
      BY <1>1, <2>3 DEF StartMerge, IInv, TypeOK
    <3>2. scanned'[r] = [chunks |-> 0, rows |-> 0]
      BY <1>3, <3>1
    <3>3. 0 \in 0..Count(list, CombineSize)
      BY <1>1, MergedNames
    <3>4. Read(list)
      BY <3>2, <3>3 DEF Read
    <3> QED BY <2>1, <3>1, <3>4
  <2>4. CASE OpenIndex(m)
    <3>1. job[m] = "scan" /\ scanned' = scanned /\ job'[m] = "write"
      BY <1>1, <2>4 DEF OpenIndex, Truncate
    <3>2. scanned[r].chunks = Count(list, CombineSize)
      <4>1. job'[m] \in {"write", "disturbed"}
        BY <3>1
      <4> QED BY <1>1, <1>5, <4>1, JobKinds
    <3> QED BY <1>4, <2>1, <3>1, <3>2
  <2>5. CASE StartPreproc(m) \/ OpenFile(m)
    BY <1>1, <2>5 DEF StartPreproc, OpenFile, IInv, FileInv
  <2>6. CASE WriteFile(m) \/ WriteIndex(m) \/ JobFails(m)
    <3>1. job'[m] \in Ended
      BY <1>1, <2>6 DEF WriteFile, WriteIndex, JobFails, EndJob, IInv, TypeOK, Ended
    <3> QED BY <3>1 DEF Ended
  <2> QED BY <1>5, <2>2, <2>3, <2>4, <2>5, <2>6 DEF Work
<1>6. CASE ~(Work(m) \/ JobFails(m))
  <2>1. scanned'[r] = scanned[r]
    <3>1. ASSUME NEW p \in Processes, ScanChunk(p) PROVE p[1] # r
      <4>1. p[2] = Merge
        BY <3>1 DEF ScanChunk, IInv, FileInv
      <4>2. p # m
        BY <1>6, <3>1 DEF Work
      <4> QED BY <4>1, <4>2, ProcessNames DEF m
    <3>2. ASSUME NEW p \in Processes, ScanChunk(p) PROVE scanned'[r] = scanned[r]
      BY <1>1, <3>1, <3>2 DEF ScanChunk
    <3>3. CASE \A p \in Processes : ~ScanChunk(p)
      BY <3>3 DEF Next, Drive, Work, AddImage, Start, ForkChunk, AllForked, AllReaped,
         ForkMerge, ForkNeg, ForkOne, WaitForOne, WaitForWorker, WaitForPid, Reap,
         ForkFails, JobFails, KillChild, StartPreproc, OpenFile, WriteFile,
         StartMerge, OpenIndex, WriteIndex, vars
    <3> QED BY <3>2, <3>3
  <2>2. \/ job'[m] = job[m] /\ (list' = list \/ ~Active(m))
        \/ job[m] = "write" /\ job'[m] = "disturbed" /\ list' = list
        \/ job[m] = "none" /\ job'[m] = "queued" /\ list' = list
    BY <1>1, <1>6, JobOrigin
  <2> QED BY <1>3, <1>4, <2>1, <2>2 DEF Active, Working
<1> QED BY <1>5, <1>6

LEMMA DoneStep == IInv /\ [Next]_vars => DoneInv'
<1> SUFFICES ASSUME IInv, [Next]_vars PROVE DoneInv'
  OBVIOUS
<1>1. CASE Start
  <2>1. run' = run + 1 /\ job' = job /\ run' \in 1..MaxRuns /\ run \in Int
    BY <1>1, PreprocAssumption DEF Start, IInv, TypeOK
  <2>2. \A p \in Processes : p[1] = run' => job'[p] = "none"
    BY <2>1 DEF IInv, ChildInv
  <2>3. job'[Slot(Merge)'] = "none" /\ job'[Slot(NegIms)'] = "none"
    BY <2>1, <2>2, ProcessNames DEF Slot
  <2> QED BY <2>3 DEF DoneInv
<1>2. CASE ~Start /\ pc' # "ready"
  <2>1. run' = run /\ im_count' = im_count /\ pc # "ready"
    <3>1. ASSUME NEW p \in Processes, Work(p) \/ JobFails(p)
          PROVE  run' = run /\ im_count' = im_count /\ pc' = pc
      BY <3>1, JobStep DEF driver
    <3> QED BY <1>2, <3>1 DEF Next, Drive, AddImage, ForkChunk, AllForked, AllReaped,
         ForkMerge, ForkNeg, ForkOne, WaitForOne, WaitForWorker, WaitForPid, Reap,
         ForkFails, KillChild, vars, driver
  <2>2. /\ run \in 1..MaxRuns /\ im_count \in 1..list /\ im_count \in 1..MaxImages
    BY <2>1, PreprocAssumption DEF IInv, DriverInv, TypeOK
  <2> DEFINE m == <<run, Merge>>
             n == <<run, NegIms>>
  <2>3. /\ m \in Processes /\ m[2] = Merge /\ m[1] = run
        /\ n \in Processes /\ n[2] = NegIms /\ n[2] # Merge
        /\ Slot(Merge) = m /\ Slot(NegIms) = n
        /\ Slot(Merge)' = m /\ Slot(NegIms)' = n
    BY <2>1, <2>2, ProcessNames DEF Slot
  <2>4. \A k \in DOMAIN Merged(im_count) : Merged(im_count)[k] \in Files
    BY <2>2, MergedNames, FileNames DEF Merged
  <2> HIDE DEF m, n
  <2>5. ASSUME job'[m] = "done"
        PROVE  /\ index' \in {TornIndex, IndexOf(im_count)}
               /\ \A k \in DOMAIN Merged(im_count) : file'[Merged(im_count)[k]] # Missing
    <3>1. CASE job[m] = "done"
      <4>1. /\ index \in {TornIndex, IndexOf(im_count)}
            /\ \A k \in DOMAIN Merged(im_count) : file[Merged(im_count)[k]] # Missing
        BY <2>1, <2>3, <3>1 DEF IInv, DoneInv
      <4>2. index' = index \/ index' \in {TornIndex, IndexOf(im_count)}
        BY <2>1, IndexStep
      <4> QED BY <2>4, <4>1, <4>2, FilesStay
    <3>2. CASE job[m] # "done"
      <4>1. Work(m) \/ JobFails(m)
        BY <2>3, <2>5, <3>2, JobOrigin
      <4>2. Active(m) /\ job[m] \in {"write", "disturbed"}
        BY <2>3, <2>5, <4>1, JobStep, JobKinds
      <4>3. list = im_count
        BY <2>1, <2>3, <4>2 DEF IInv, DriverInv
      <4>4. index \in {TornIndex, IndexOf(list)}
        BY <2>3, <4>2 DEF IInv, FileInv
      <4>5. index' \in {TornIndex, IndexOf(im_count)}
        BY <4>3, <4>4, IndexStep
      <4>6. /\ scanned[run].chunks = Count(list, CombineSize)
            /\ \A k \in 1..scanned[run].chunks : file[Merged(list)[k]] # Missing
        BY <2>2, <4>2 DEF IInv, ScanInv, m
      <4>7. DOMAIN Merged(im_count) = 1..scanned[run].chunks
        BY <4>3, <4>6 DEF Merged
      <4> QED BY <2>4, <4>3, <4>5, <4>6, <4>7, FilesStay
    <3> QED BY <3>1, <3>2
  <2>6. ASSUME job'[n] = "done" PROVE file'[NegFile] # Missing
    <3>1. CASE job[n] = "done"
      BY <2>1, <2>3, <3>1, FilesStay, FileNames DEF IInv, DoneInv
    <3>2. CASE job[n] # "done"
      <4>1. Work(n) \/ JobFails(n)
        BY <2>3, <2>6, <3>2, JobOrigin
      <4>2. Active(n) /\ file'[target[n]] # Missing
        BY <2>3, <2>6, <4>1, JobStep, JobKinds
      <4>3. target[n] = NegFile
        BY <2>3, <4>2 DEF IInv, FileInv, Active, Working
      <4> QED BY <4>2, <4>3
    <3> QED BY <3>1, <3>2
  <2> QED BY <2>1, <2>3, <2>5, <2>6 DEF DoneInv, Merged, IndexOf
<1>3. CASE pc' = "ready"
  BY <1>3 DEF DoneInv
<1> QED BY <1>1, <1>2, <1>3

\* A merge writes an index that can be told from a torn one.
LEMMA IndexWritten ==
  ASSUME IInv, NEW p \in Processes,
         index' = [chunks |-> MergedChunks, num |-> scanned[p[1]].rows]
  PROVE  index' # TornIndex
<1>1. scanned[p[1]].rows \in Nat
  BY ProcessNames DEF IInv, TypeOK
<1>2. index'.num # -1
  BY <1>1
<1> QED BY <1>2 DEF TornIndex

\* What was not opened by a step and is torn after it was so before.
LEMMA TornStays ==
  ASSUME IInv, NEW p \in Processes, Work(p), NEW f \in Files \cup {IndexFile}, IsTorn(f)',
         OpenFile(p) \/ OpenIndex(p) => target[p] # f
  PROVE  IsTorn(f)
<1>1. /\ job[p] # "none" /\ file \in [Files -> Seq(0..MaxImages)]
  BY JobStep DEF Active, Working, IInv, TypeOK
<1>2. IF p[2] = Merge THEN target[p] = IndexFile
      ELSE target[p] \in Files /\ Images(target[p]) = Full(target[p])
  BY <1>1, Targets
<1>3. CASE f = IndexFile
  <2>1. index' = TornIndex
    BY <1>3 DEF IsTorn
  <2>2. CASE OpenIndex(p)
    <3>1. p[2] = Merge
      BY <2>2 DEF OpenIndex, IInv, FileInv
    <3> QED BY <1>2, <1>3, <2>2, <3>1
  <2>3. CASE WriteIndex(p)
    <3>1. index' = index
      BY <2>1, <2>3, IndexWritten DEF WriteIndex
    <3> QED BY <1>3, <2>1, <3>1 DEF IsTorn
  <2>4. CASE ~OpenIndex(p) /\ ~WriteIndex(p)
    <3>1. index' = index
      BY <2>4 DEF Work, StartPreproc, OpenFile, WriteFile, StartMerge, ScanChunk, disk
    <3> QED BY <1>3, <2>1, <3>1 DEF IsTorn
  <2> QED BY <2>2, <2>3, <2>4
<1>4. CASE f # IndexFile
  <2>1. f \in Files /\ file'[f] = Torn
    BY <1>4 DEF IsTorn
  <2>2. CASE OpenFile(p)
    BY <1>1, <1>4, <2>1, <2>2 DEF OpenFile, IsTorn
  <2>3. CASE WriteFile(p)
    <3>1. target[p] \in Files /\ Images(target[p]) = Full(target[p])
      BY <1>1, <2>3, Targets DEF WriteFile
    <3>2. file' = file \/ file' = [file EXCEPT ![target[p]] = Full(target[p])]
      BY <2>3, <3>1 DEF WriteFile
    <3>3. Full(f) # Torn
      BY <2>1, FullNames
    <3> QED BY <1>1, <1>4, <2>1, <3>1, <3>2, <3>3 DEF IsTorn
  <2>4. CASE ~OpenFile(p) /\ ~WriteFile(p)
    <3>1. file' = file
      BY <2>4 DEF Work, StartPreproc, OpenIndex, WriteIndex, StartMerge, ScanChunk, disk
    <3> QED BY <1>4, <2>1, <3>1 DEF IsTorn
  <2> QED BY <2>2, <2>3, <2>4
<1> QED BY <1>3, <1>4

\* A job is disturbed by another one that opens its file.
LEMMA Disturber ==
  ASSUME IInv, [Next]_vars, NEW c \in Processes, job[c] = "write", job'[c] = "disturbed",
         ~(Work(c) \/ JobFails(c))
  PROVE  \E p \in Processes : (OpenFile(p) \/ OpenIndex(p)) /\ target[p] = target[c]
<1>1. ASSUME NEW p \in Processes, Work(p) \/ JobFails(p), p # c
      PROVE  (OpenFile(p) \/ OpenIndex(p)) /\ target[p] = target[c]
  <2>1. CASE OpenFile(p) \/ OpenIndex(p)
    BY <1>1, <2>1 DEF OpenFile, OpenIndex, Truncate
  <2>2. CASE ~(OpenFile(p) \/ OpenIndex(p))
    <3>1. job'[c] = job[c]
      BY <1>1, <2>2 DEF Work, StartPreproc, WriteFile, WriteIndex, StartMerge, ScanChunk,
                  JobFails, EndJob, IInv, TypeOK
    <3> QED BY <3>1
  <2> QED BY <2>1, <2>2
<1>2. CASE \A p \in Processes : ~(Work(p) \/ JobFails(p))
  <2>1. CASE ForkChunk \/ ForkMerge \/ ForkNeg
    <3>1. job'[c] = job[c] \/ job'[c] = "queued"
      BY <2>1 DEF ForkChunk, ForkMerge, ForkNeg, ForkOne, Fork, IInv, TypeOK
    <3> QED BY <3>1
  <2>2. CASE ~(ForkChunk \/ ForkMerge \/ ForkNeg)
    <3>1. job' = job
      BY <1>2, <2>2 DEF Next, Drive, AddImage, Start, AllForked, AllReaped, WaitForOne,
         WaitForWorker, WaitForPid, Reap, ForkFails, KillChild, vars
    <3> QED BY <3>1
  <2> QED BY <2>1, <2>2
<1> QED BY <1>1, <1>2

\* A job that nobody disturbs leaves what it opened complete.
LEMMA WriterEnds ==
  ASSUME IInv, NEW c \in Processes, Work(c), job[c] \in {"write", "failed"}
  PROVE  IF target[c] = IndexFile THEN index' # TornIndex ELSE file'[target[c]] # Torn
<1>1. job[c] = "write" /\ file \in [Files -> Seq(0..MaxImages)]
  BY JobStep DEF Active, Working, IInv, TypeOK
<1>2. WriteFile(c) \/ WriteIndex(c)
  BY <1>1 DEF Work, StartPreproc, OpenFile, StartMerge, ScanChunk, OpenIndex
<1>3. CASE WriteFile(c)
  <2>1. target[c] \in Files /\ Images(target[c]) = Full(target[c])
    BY <1>1, <1>3, Targets DEF WriteFile
  <2>2. file'[target[c]] = Full(target[c])
    BY <1>1, <1>3, <2>1 DEF WriteFile
  <2>3. Full(target[c]) # Torn /\ target[c] # IndexFile
    BY <2>1, FullNames, FileNames
  <2> QED BY <2>2, <2>3
<1>4. CASE WriteIndex(c)
  <2>1. target[c] = IndexFile
    BY <1>4 DEF WriteIndex
  <2>2. index' = [chunks |-> MergedChunks, num |-> scanned[c[1]].rows]
    BY <1>1, <1>4 DEF WriteIndex
  <2> QED BY <2>1, <2>2, IndexWritten
<1> QED BY <1>2, <1>3, <1>4

\* A file is torn by the job that opens it, and right again when that job is done.
LEMMA TearStep == IInv /\ [Next]_vars => TearInv'
<1> DEFINE opens(p) == OpenFile(p) \/ OpenIndex(p)
<1> SUFFICES ASSUME IInv, [Next]_vars, NEW f \in Files \cup {IndexFile}, IsTorn(f)'
             PROVE  \E p \in Processes : target'[p] = f /\ job'[p] \in {"write", "failed"}
  BY DEF TearInv
<1>1. CASE \E p \in Processes : opens(p) /\ target[p] = f
  <2>1. PICK p \in Processes : opens(p) /\ target[p] = f
    BY <1>1
  <2>2. job'[p] = "write" /\ target' = target
    BY <2>1 DEF OpenFile, OpenIndex, Truncate
  <2> QED BY <2>1, <2>2
<1>2. CASE \A p \in Processes : opens(p) => target[p] # f
  <2>1. ASSUME NEW p \in Processes, Work(p) PROVE IsTorn(f)
    BY <1>2, <2>1, TornStays
  <2>2. ASSUME \A p \in Processes : ~Work(p) PROVE IsTorn(f)
    <3>1. file' = file /\ index' = index
      BY <2>2 DEF Next, Drive, AddImage, Start, ForkChunk, AllForked, AllReaped,
         ForkMerge, ForkNeg, ForkOne, WaitForOne, WaitForWorker, WaitForPid, Reap,
         ForkFails, JobFails, KillChild, vars, disk
    <3> QED BY <3>1 DEF IsTorn
  <2>3. PICK c \in Processes : target[c] = f /\ job[c] \in {"write", "failed"}
    BY <2>1, <2>2 DEF IInv, TearInv
  <2>4. CASE job'[c] = job[c] /\ target'[c] = target[c]
    BY <2>3, <2>4
  <2>5. CASE job[c] = "write" /\ job'[c] = "disturbed" /\ ~(Work(c) \/ JobFails(c))
    BY <1>2, <2>3, <2>5, Disturber
  <2>6. CASE Work(c)
    BY <2>3, <2>6, WriterEnds DEF IsTorn
  <2>7. CASE JobFails(c)
    BY <2>3, <2>7 DEF JobFails, EndJob, IInv, TypeOK
  <2> QED BY <2>3, <2>4, <2>5, <2>6, <2>7, JobOrigin
<1> QED BY <1>1, <1>2

-----------------------------------------------------------------------------
(* The contents of an index *)

LEMMA Least ==
  ASSUME NEW T, T \subseteq Nat, T # {}
  PROVE  \E x \in T : \A y \in T : x <= y
<1>1. \E x \in T : \A y \in T : ~(<<y, x>> \in OpToRel(<, Nat))
  BY WFMin, NatLessThanWellFounded
<1>2. \A x, y \in Nat : ~(<<y, x>> \in OpToRel(<, Nat)) => x <= y
  BY DEF OpToRel
<1> QED BY <1>1, <1>2

\* There is one way to flatten a sequence of sequences from its beginning.
LEMMA FlattenFrom ==
  ASSUME NEW seqs, NEW n \in Nat \ {0}, Len(seqs) = n,
         NEW g, \A i \in 1..n :
           g[i] = IF i = 1 THEN seqs[i] ELSE g[i - 1] \o seqs[i]
  PROVE  FlattenSeq(seqs) = g[n]
<1> DEFINE Flat(f) == f = [i \in 1..Len(seqs) |->
                             IF i = 1 THEN seqs[i] ELSE f[i - 1] \o seqs[i]]
           h == CHOOSE f : Flat(f)
           wrong == {i \in 1..n : h[i] # g[i]}
           d == [i \in 1..n |-> g[i]]
<1>1. Flat(d)
  <2>1. \A i \in 1..n : i # 1 => i - 1 \in 1..n
    OBVIOUS
  <2>2. \A i \in 1..n : d[i] = IF i = 1 THEN seqs[i] ELSE d[i - 1] \o seqs[i]
    BY <2>1
  <2> QED BY <2>2
<1>2. Flat(h)
  BY <1>1
<1>3. FlattenSeq(seqs) = h[n]
  BY DEF FlattenSeq
<1>4. \A i \in 1..n :
        h[i] = IF i = 1 THEN seqs[i] ELSE h[i - 1] \o seqs[i]
  BY <1>2
<1> HIDE DEF h, Flat, d
<1>5. wrong = {}
  <2> SUFFICES ASSUME wrong # {} PROVE FALSE
    OBVIOUS
  <2>1. PICK i \in wrong : \A j \in wrong : i <= j
    BY Least, wrong \subseteq Nat
  <2>2. i \in 1..n /\ h[i] # g[i]
    BY <2>1
  <2>3. i # 1
    BY <1>4, <2>2
  <2>4. i - 1 \in 1..n /\ ~(i <= i - 1)
    BY <2>2, <2>3
  <2>5. h[i - 1] = g[i - 1]
    BY <2>1, <2>4
  <2> QED BY <1>4, <2>2, <2>3, <2>5
<1>6. n \in 1..n
  OBVIOUS
<1> QED BY <1>3, <1>5, <1>6

LEMMA ListGrows ==
  ASSUME NEW a \in Nat, NEW b \in Nat, a < b
  PROVE  [j \in 1..a |-> j] \o [k \in 1..(b - a) |-> a + k] = [j \in 1..b |-> j]
<1> DEFINE s == [j \in 1..a |-> j]
           t == [k \in 1..(b - a) |-> a + k]
           u == [j \in 1..b |-> j]
<1>1. b - a \in Nat /\ a + (b - a) = b
  OBVIOUS
<1>2. s \in [1..a -> Int] /\ t \in [1..(b - a) -> Int] /\ u \in [1..b -> Int]
  OBVIOUS
<1>3. /\ s \in Seq(Int) /\ Len(s) = a
      /\ t \in Seq(Int) /\ Len(t) = b - a
      /\ u \in Seq(Int) /\ Len(u) = b
  BY <1>1, <1>2
<1>4. /\ \A j \in 1..a : s[j] = j
      /\ \A k \in 1..(b - a) : t[k] = a + k
      /\ \A j \in 1..b : u[j] = j
  OBVIOUS
<1> HIDE DEF s, t, u
<1>5. /\ s \o t \in Seq(Int) /\ Len(s \o t) = b
      /\ \A i \in 1..b : (s \o t)[i] = IF i <= a THEN s[i] ELSE t[i - a]
  <2>1. /\ s \o t \in Seq(Int) /\ Len(s \o t) = Len(s) + Len(t)
        /\ \A i \in 1..(Len(s) + Len(t)) :
             (s \o t)[i] = IF i <= Len(s) THEN s[i] ELSE t[i - Len(s)]
    BY <1>3, ConcatProperties
  <2> QED BY <1>1, <1>3, <2>1
<1>6. \A i \in 1..b : (s \o t)[i] = u[i]
  BY <1>4, <1>5
<1>7. s \o t = u
  BY <1>3, <1>5, <1>6, SeqEqual
<1> QED BY <1>7 DEF s, t, u

\* What the file of a chunk holds when it is complete.
LEMMA FullOf ==
  ASSUME NEW a \in Nat, NEW b \in Nat, a < b
  PROVE  Full(FileName(a, b)) = [k \in 1..(b - a) |-> a + k]
<1>1. FileName(a, b) = <<a + 1, b>> /\ FileName(a, b) # NegFile
  BY DEF FileName, NegFile
<1>2. b - (a + 1) + 1 = b - a /\ (a + 1) - 1 = a
  OBVIOUS
<1>3. Full(FileName(a, b)) = [k \in 1..(b - (a + 1) + 1) |-> (a + 1) - 1 + k]
  BY <1>1 DEF Full
<1> QED BY <1>2, <1>3

\* The chunks of a list, one after the other, are the list.
LEMMA WholeList ==
  ASSUME NEW n \in 1..MaxImages
  PROVE  FlattenSeq([k \in DOMAIN Merged(n) |-> Full(Merged(n)[k])])
           = [j \in 1..n |-> j]
<1> DEFINE c == Count(n, CombineSize)
           F(i) == From(i, CombineSize)
           U(i) == Upto(i, n, CombineSize)
           seqs == [k \in 1..c |-> Full(Merged(n)[k])]
           Begin(b) == [j \in 1..b |-> j]
           g == [i \in 1..c |-> Begin(U(i - 1))]
<1>0. n \in Nat \ {0} /\ CombineSize \in Nat \ {0}
  BY PreprocAssumption
<1>1. /\ c \in Nat \ {0} /\ DOMAIN Merged(n) = 1..c
      /\ \A k \in 1..c : Merged(n)[k] = FileName(F(k - 1), U(k - 1))
  BY MergedNames DEF Merged
<1>2. /\ \A i \in 0..(c - 1) : F(i) \in Nat /\ U(i) \in Nat /\ F(i) < U(i)
      /\ F(0) = 0
      /\ \A i \in 1..(c - 1) : F(i) = U(i - 1)
      /\ U(c - 1) = n
  BY <1>0, SliceOrder
<1> HIDE DEF c, F, U
<1>3. Len(seqs) = c
  BY <1>1
<1>4. ASSUME NEW i \in 1..c
      PROVE  g[i] = IF i = 1 THEN seqs[i] ELSE g[i - 1] \o seqs[i]
  <2>1. i - 1 \in 0..(c - 1)
    BY <1>1
  <2>2. F(i - 1) \in Nat /\ U(i - 1) \in Nat /\ F(i - 1) < U(i - 1)
    BY <1>2, <2>1
  <2>3. seqs[i] = [k \in 1..(U(i - 1) - F(i - 1)) |-> F(i - 1) + k]
    BY <1>1, <2>2, FullOf
  <2>4. Begin(F(i - 1)) \o seqs[i] = Begin(U(i - 1))
    BY <2>2, <2>3, ListGrows
  <2>5. g[i] = Begin(U(i - 1))
    OBVIOUS
  <2>6. CASE i = 1
    <3>1. F(i - 1) = 0
      BY <1>2, <2>6
    <3>2. seqs[i] = Begin(U(i - 1))
      BY <2>2, <2>3, <3>1
    <3> QED BY <2>5, <2>6, <3>2
  <2>7. CASE i # 1
    <3>1. i - 1 \in 1..(c - 1) /\ i - 1 \in 1..c
      BY <1>1, <2>7
    <3>2. F(i - 1) = U((i - 1) - 1)
      BY <1>2, <3>1
    <3>3. g[i - 1] = Begin(U((i - 1) - 1))
      BY <3>1
    <3> QED BY <2>4, <2>5, <2>7, <3>2, <3>3
  <2> QED BY <2>6, <2>7
<1>5. g[c] = Begin(n)
  BY <1>1, <1>2
<1> HIDE DEF seqs
<1> HIDE DEF g
<1>6. FlattenSeq(seqs) = g[c]
  BY <1>1, <1>3, <1>4, FlattenFrom
<1> QED BY <1>1, <1>5, <1>6 DEF seqs

\* An index of a list whose files are complete can be read, and is that list.
LEMMA IndexContents ==
  ASSUME NEW n \in 1..MaxImages, index = IndexOf(n), IInv,
         \A k \in DOMAIN index.chunks : Complete(index.chunks[k])
  PROVE  /\ index.num = n /\ index \notin {NoIndex, TornIndex}
         /\ Contents = [j \in 1..n |-> j] /\ Len(Contents) = n
<1>1. index.chunks = Merged(n) /\ index.num = n /\ n # 0 /\ n # -1
  BY DEF IndexOf
<1>2. index \notin {NoIndex, TornIndex}
  BY <1>1 DEF NoIndex, TornIndex
<1>3. \A k \in DOMAIN Merged(n) : file[Merged(n)[k]] = Full(Merged(n)[k])
  BY <1>1 DEF Complete, IInv, FileInv
<1>4. [k \in DOMAIN Merged(n) |-> file[Merged(n)[k]]]
        = [k \in DOMAIN Merged(n) |-> Full(Merged(n)[k])]
  BY <1>3
<1>5. Contents = [j \in 1..n |-> j]
  BY <1>1, <1>4, WholeList DEF Contents
<1>6. Len([j \in 1..n |-> j]) = n
  <2>1. n \in Nat
    OBVIOUS
  <2> QED BY <2>1
<1> QED BY <1>1, <1>2, <1>5, <1>6

LEMMA PrefixHolds == IInv => IndexReadsPrefix
<1> SUFFICES ASSUME IInv, Readable PROVE Contents = [k \in 1..index.num |-> k]
  BY DEF IndexReadsPrefix
<1>1. PICK n \in 1..list : index = IndexOf(n)
  BY DEF IInv, FileInv, Readable
<1>2. n \in 1..MaxImages
  BY <1>1, PreprocAssumption DEF IInv, TypeOK
<1> QED BY <1>1, <1>2, IndexContents DEF Readable

\* A torn file is not the fault of a run that exited and in which no job failed.
LEMMA TornByOthers ==
  ASSUME IInv, pc = "exited", \A p \in Processes : p[1] = run => job[p] # "failed",
         NEW f \in Files \cup {IndexFile}, IsTorn(f)
  PROVE  TornBefore(f)
<1>1. PICK p \in Processes : target[p] = f /\ job[p] \in {"write", "failed"}
  BY DEF IInv, TearInv
<1>2. p = <<p[1], p[2]>> /\ p[1] \in Int /\ p[2] \in Slots \cup {Merge, NegIms} /\ run \in Int
  BY ProcessNames, PreprocAssumption DEF IInv, TypeOK
<1>3. p[1] <= run
  BY <1>1, <1>2 DEF IInv, ChildInv
<1>4. p[1] # run
  <2> SUFFICES ASSUME p[1] = run PROVE FALSE
    OBVIOUS
  <2>1. job[p] = "write"
    BY <1>1
  <2>2. ~Waiting(p)
    BY <1>2 DEF Slot, IInv, ReapInv, Merging
  <2>3. child[p] \in {"none", "reaped"}
    BY <2>2 DEF Waiting, IInv, TypeOK
  <2> QED BY <2>1, <2>3 DEF IInv, ChildInv, ReapInv, Active, Working
<1> QED BY <1>1, <1>2, <1>3, <1>4 DEF TornBefore

LEMMA CleanRunHolds == IInv => CleanRunCompletes
<1> SUFFICES ASSUME IInv, pc = "exited",
                    \A p \in Processes : p[1] = run => job[p] # "failed"
             PROVE  /\ "merge" \in parts =>
                         \/ Readable /\ index.num = im_count
                         \/ \E f \in {IndexFile} \cup ToSet(index.chunks) : TornBefore(f)
                    /\ "neg" \in parts => Complete(NegFile) \/ TornBefore(NegFile)
  BY DEF CleanRunCompletes
<1>1. /\ run \in 1..MaxRuns /\ im_count \in 1..list /\ im_count \in 1..MaxImages
  BY PreprocAssumption DEF IInv, DriverInv, TypeOK
\* A child that was reaped had ended, and its job with it.
<1>2. ASSUME NEW i \in {Merge, NegIms}, child[Slot(i)] = "reaped"
      PROVE  job[Slot(i)] = "done"
  <2>1. Slot(i) \in Processes /\ Slot(i)[1] = run
    BY <1>1, ProcessNames DEF Slot
  <2> HIDE DEF Slot
  <2>2. ~Active(Slot(i)) /\ job[Slot(i)] # "none" /\ job[Slot(i)] # "failed"
    BY <1>2, <2>1 DEF IInv, ReapInv, ChildInv
  <2> QED BY <2>1, <2>2 DEF Active, Ended, IInv, TypeOK
<1>3. ASSUME "merge" \in parts,
             \A f \in {IndexFile} \cup ToSet(index.chunks) : ~TornBefore(f)
      PROVE  Readable /\ index.num = im_count
  <2>1. job[Slot(Merge)] = "done"
    BY <1>2, <1>3 DEF IInv, ReapInv, Merging
  <2>2. /\ index \in {TornIndex, IndexOf(im_count)}
        /\ \A k \in DOMAIN Merged(im_count) : file[Merged(im_count)[k]] # Missing
    BY <2>1 DEF IInv, DoneInv
  <2>3. ~IsTorn(IndexFile)
    BY <1>3, TornByOthers
  <2>4. index = IndexOf(im_count) /\ index.chunks = Merged(im_count)
    BY <2>2, <2>3 DEF IndexOf, IsTorn
  <2>5. \A k \in DOMAIN Merged(im_count) : Merged(im_count)[k] \in Files
    BY <1>1, MergedNames, FileNames DEF Merged
  <2>6. \A k \in DOMAIN index.chunks : index.chunks[k] \in ToSet(index.chunks)
    BY DEF ToSet
  <2>7. \A k \in DOMAIN index.chunks : ~IsTorn(index.chunks[k])
    BY <1>3, <2>4, <2>5, <2>6, TornByOthers
  <2>8. \A k \in DOMAIN index.chunks : Complete(index.chunks[k])
    BY <2>2, <2>4, <2>5, <2>7, FileNames DEF Complete, IsTorn
  <2> QED BY <1>1, <2>4, <2>8, IndexContents DEF Readable
<1>4. ASSUME "neg" \in parts, ~TornBefore(NegFile) PROVE Complete(NegFile)
  <2>1. job[Slot(NegIms)] = "done"
    BY <1>2, <1>4 DEF IInv, ReapInv, Merging
  <2>2. file[NegFile] # Missing /\ NegFile \in Files /\ NegFile # IndexFile
    BY <2>1, FileNames DEF IInv, DoneInv
  <2>3. ~IsTorn(NegFile)
    BY <1>4, <2>2, TornByOthers
  <2> QED BY <2>2, <2>3 DEF Complete, IsTorn
<1> QED BY <1>3, <1>4

-----------------------------------------------------------------------------
(* The theorems *)

LEMMA InitInvariant == Init => IInv /\ LimitRespected /\ MergeAfterChunks
<1> SUFFICES ASSUME Init PROVE IInv /\ LimitRespected /\ MergeAfterChunks
  OBVIOUS
<1> USE PreprocAssumption
<1>1. TypeOK
  BY DEF Init, TypeOK, NoIndex, Files, Missing
<1>2. DriverInv /\ ChildInv /\ ReapInv /\ WorkerInv /\ DoneInv
  BY DEF Init, DriverInv, DriverEnded, Active, Working, ChildInv, ReapInv, Forking,
     Merging, WorkerInv, DoneInv, Processes
<1>3. FileInv
  BY DEF Init, FileInv
<1>4. ScanInv
  <2>1. \A r \in 1..MaxRuns : <<r, Merge>> \in Processes
    BY ProcessNames
  <2> QED BY <2>1 DEF Init, ScanInv
<1>5. LimitRespected
  <2> SUFFICES ASSUME JobLimit > 0, NEW r \in 1..MaxRuns
               PROVE  Cardinality({i \in 0..(MaxImages - 1) :
                                     child[<<r, i>>] = "alive"}) <= JobLimit
    BY DEF LimitRespected
  <2>1. \A i \in 0..(MaxImages - 1) : child[<<r, i>>] = "none"
    BY ProcessNames DEF Init, Slots
  <2>2. {i \in 0..(MaxImages - 1) : child[<<r, i>>] = "alive"} = {}
    BY <2>1
  <2>3. Cardinality({i \in 0..(MaxImages - 1) : child[<<r, i>>] = "alive"}) = 0
    BY <2>2, FS_EmptySet
  <2> QED BY <2>3
<1>6. MergeAfterChunks
  <2>1. \A r \in 1..MaxRuns : <<r, Merge>> \in Processes
    BY ProcessNames
  <2> QED BY <2>1 DEF Init, MergeAfterChunks
<1>7. TearInv
  <2>1. NoIndex # TornIndex /\ Missing # Torn
    BY DEF NoIndex, TornIndex, Missing, Torn
  <2> QED BY <2>1, FileNames DEF Init, TearInv, IsTorn
<1> QED BY <1>1, <1>2, <1>3, <1>4, <1>5, <1>6, <1>7 DEF IInv

LEMMA NextInvariant ==
  IInv /\ LimitRespected /\ MergeAfterChunks /\ [Next]_vars
    => (IInv /\ LimitRespected /\ MergeAfterChunks)'
<1> SUFFICES ASSUME IInv, LimitRespected, MergeAfterChunks, [Next]_vars
             PROVE  IInv' /\ LimitRespected' /\ MergeAfterChunks'
  OBVIOUS
<1>1. TypeOK' /\ DriverInv' /\ ChildInv' /\ ReapInv' /\ WorkerInv' /\ FileInv'
      /\ ScanInv' /\ DoneInv' /\ TearInv'
  BY TypeStep, DriverStep, ChildStep, ReapStep, WorkerStep, FileStep, ScanStep,
     DoneStep, TearStep
<1>2. LimitRespected'
  BY <1>1, LimitStep
<1>3. MergeAfterChunks'
  BY MergeStep
<1> QED BY <1>1, <1>2, <1>3 DEF IInv

\* The invariant, which joins the driver, its children, their jobs and the files
\* of every run so far.
THEOREM Invariance == FairSpec => [](IInv /\ LimitRespected /\ MergeAfterChunks)
BY InitInvariant, NextInvariant, PTL DEF FairSpec

\* Every variable keeps its type, however many runs, jobs and images there are.
THEOREM TypeCorrect == FairSpec => []TypeOK
<1>1. IInv => TypeOK
  BY DEF IInv
<1> QED BY <1>1, Invariance, PTL

\* A driver never has more children than its limit allows, for every limit.
THEOREM LimitKept == FairSpec => []LimitRespected
BY Invariance, PTL

\* No chunk of a run is computed any more when its merge begins.
THEOREM MergeComesLast == FairSpec => []MergeAfterChunks
BY Invariance, PTL

\* An index that can be read is the beginning of the list, whatever runs with
\* whatever sizes of chunks wrote its files.
THEOREM IndexIsPrefix == FairSpec => []IndexReadsPrefix
BY PrefixHolds, Invariance, PTL

\* A run that exits and in which no job failed leaves what it was started for, unless a
\* job of an earlier run tore a file of it.
THEOREM CleanRunIsComplete == FairSpec => []CleanRunCompletes
BY CleanRunHolds, Invariance, PTL
=============================================================================
