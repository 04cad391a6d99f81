---------------------------- MODULE Preprocessing ----------------------------
(***************************************************************************)
(* Computing the features of the dataset on a cluster                      *)
(* (src/src/cpuvisor_preproc_sge.cc).  A driver cuts the list of images    *)
(* into chunks and forks a child for each, within a limit of jobs; a child *)
(* waits for its job, cpuvisor_preproc, which writes the file of its       *)
(* chunk.  Then a job of cpuvisor_combine_chunks writes the index of the   *)
(* chunks, and a last one computes the negative images.  A driver that     *)
(* dies leaves its jobs behind, and is started again.                      *)
(***************************************************************************)
EXTENDS Integers, FiniteSets, SequencesExt, Slices

CONSTANTS
  Initial, MaxImages, \* images in the list at first, and at last (bound)
  ChunkSizes,    \* chunk_sz of the driver
  CombineSize,   \* chunk_sz of cpuvisor_combine_chunks
  JobLimit,      \* job_limit
  Phases,        \* the flags: sets of "comp", "merge" and "neg"
  MaxRuns,       \* runs of the driver (bound)
  MaxFaults      \* children that are killed, jobs and forks that fail (bound)

ASSUME PreprocAssumption ==
  /\ Initial \in Nat \ {0} /\ MaxImages \in Nat /\ Initial <= MaxImages
  /\ ChunkSizes \subseteq Nat \ {0} /\ CombineSize \in Nat \ {0}
  /\ JobLimit \in Int
  /\ Phases \subseteq SUBSET {"comp", "merge", "neg"}
  /\ MaxRuns \in Nat /\ MaxFaults \in Nat

\* A child is known by the run of its driver and by its chunk, from 0, or one
\* of these.
Merge == -1
NegIms == -2
Processes == (1..MaxRuns) \X (NegIms..(MaxImages - 1))

\* The name of the file of a chunk says which images it is for.
FileName(start, end) == <<start + 1, end>>
NegFile   == <<0, 0>>
IndexFile == <<0, 1>>
Chunks == {f \in (1..MaxImages) \X (1..MaxImages) : f[1] <= f[2]}
Files  == Chunks \cup {NegFile}

\* What a file holds: its images, counted from 1, or one of these.  A file
\* whose writing has begun cannot be read: its features or paths are missing.
Missing == <<>>
Torn    == <<0>>

VARIABLES
  list,           \* the images in the list of the dataset
  file,           \* file[f]: the images in the file f
  index,          \* the index: its chunks and num, 0 if missing, -1 if torn
  pc, parts,      \* the driver: place, flags
  run, im_count, chunk_sz, \* number of its run, images it counted, its flag
  next, pids, active_workers, \* i, the children whose pids[i] is not 0
  child,          \* child[p]: what the driver can learn of its child p
  job, target,    \* job[p]: the job of p, and the file it writes
  scanned,        \* scanned[r]: chunks that the merge job of r read, and rows
  faults

driver == <<pc, parts, run, im_count, chunk_sz, next, pids, active_workers>>
disk   == <<file, index>>
vars   == <<list, disk, driver, child, job, target, scanned, faults>>

Working == {"queued", "encode", "write", "disturbed", "scan"}
Ended   == {"done", "failed"}
DriverEnded == pc \in {"ready", "exited", "fatal"}
Active(p) == job[p] \in Working

TypeOK ==
  /\ list \in Initial..MaxImages
  /\ file \in [Files -> Seq(0..MaxImages)]
  /\ index \in [chunks : Seq(Chunks), num : Int]
  /\ pc \in {"ready", "exited", "fatal", "loop", "fork", "wait_all", "merge",
             "wait_merge", "neg", "wait_neg"}
  /\ parts \subseteq {"comp", "merge", "neg"}
  /\ run \in 0..MaxRuns /\ im_count \in Nat /\ chunk_sz \in Nat
  /\ next \in Nat /\ pids \subseteq 0..(MaxImages - 1) /\ active_workers \in Nat
  /\ child \in [Processes -> {"none", "alive", "exited", "killed", "reaped"}]
  /\ job \in [Processes -> {"none"} \cup Working \cup Ended]
  /\ target \in [Processes -> Files \cup {IndexFile}]
  /\ scanned \in [1..MaxRuns -> [chunks : Nat, rows : Nat]]
  /\ faults \in 0..MaxFaults

NoIndex   == [chunks |-> <<>>, num |-> 0]
TornIndex == [chunks |-> <<>>, num |-> -1]

Init ==
  /\ list = Initial
  /\ file = [f \in Files |-> Missing] /\ index = NoIndex
  /\ pc = "ready" /\ parts = {} /\ run = 0 /\ im_count = 0 /\ chunk_sz = 0
  /\ next = 0 /\ pids = {} /\ active_workers = 0
  /\ child = [p \in Processes |-> "none"]
  /\ job = [p \in Processes |-> "none"]
  /\ target = [p \in Processes |-> NegFile]
  /\ scanned = [r \in 1..MaxRuns |-> [chunks |-> 0, rows |-> 0]]
  /\ faults = 0

\* An image is added to the list.  Nobody does that while jobs read it.
AddImage ==
  /\ DriverEnded /\ list < MaxImages /\ \A p \in Processes : ~Active(p)
  /\ list' = list + 1
  /\ UNCHANGED <<disk, driver, child, job, target, scanned, faults>>

-----------------------------------------------------------------------------
(* The driver *)

chunk_count == Count(im_count, chunk_sz)
Slot(i) == <<run, i>>

\* The places where the flags lead.
AfterComp  == IF "merge" \in parts THEN "merge" ELSE
              IF "neg" \in parts THEN "neg" ELSE "exited"
AfterMerge == IF "neg" \in parts THEN "neg" ELSE "exited"

Start ==
  /\ DriverEnded /\ run < MaxRuns
  /\ run' = run + 1 /\ im_count' = list
  /\ chunk_sz' \in ChunkSizes /\ parts' \in Phases
  /\ next' = 0 /\ pids' = {} /\ active_workers' = 0
  /\ pc' = IF "comp" \in parts' THEN "loop" ELSE AfterComp'
  /\ UNCHANGED <<list, disk, child, job, target, scanned, faults>>

\* fork, and qsub in the child.
Fork(i, f) ==
  /\ child' = [child EXCEPT ![Slot(i)] = "alive"]
  /\ job' = [job EXCEPT ![Slot(i)] = "queued"]
  /\ target' = [target EXCEPT ![Slot(i)] = f]

\* Fault: the limit is exceeded by one.
LimitReachedLate == JobLimit > 0 /\ active_workers > JobLimit

\* job_limit is at most chunk_count, which is never reached before the end.
LimitReached == JobLimit > 0 /\ active_workers >= JobLimit

ForkChunk ==
  /\ pc = "fork" \/ (pc = "loop" /\ ~LimitReached)
  /\ next < chunk_count
  /\ Fork(next, FileName(From(next, chunk_sz), Upto(next, im_count, chunk_sz)))
  /\ pids' = pids \cup {next}
  /\ active_workers' = active_workers + 1
  /\ next' = next + 1
  /\ pc' = "loop"
  /\ UNCHANGED <<list, disk, parts, run, im_count, chunk_sz, scanned, faults>>

\* Fault: nobody looks at the status of a child.
SucceededUntested(p) == child[p] \in {"exited", "killed"}

\* A child exits with 0 whatever its job did: only a killed one fails.
Succeeded(p) == child[p] = "exited"

Reap(p, place) ==
  /\ child[p] \in {"exited", "killed"}
  /\ child' = [child EXCEPT ![p] = "reaped"]
  /\ pc' = IF Succeeded(p) THEN place ELSE "fatal"
  /\ UNCHANGED <<list, disk, parts, run, im_count, chunk_sz, next, job, target,
                 scanned, faults>>

\* Fault: the child is not marked as done.
ForgetNothing(i) == pids' = pids
ForgetPid(i) == pids' = pids \ {i}

WaitForWorker(i) ==
  /\ pc = "loop" /\ next < chunk_count /\ LimitReached
  /\ Reap(Slot(i), "fork")
  /\ ForgetPid(i)
  /\ active_workers' = active_workers - 1

AllForked ==
  /\ pc = "loop" /\ next = chunk_count
  /\ pc' = "wait_all"
  /\ UNCHANGED <<list, disk, parts, run, im_count, chunk_sz, next, pids,
                 active_workers, child, job, target, scanned, faults>>

\* waitpid for each of the pids that are left, in their order.  It repeats
\* while there is no such child.
WaitForPid(i) ==
  /\ pc = "wait_all" /\ i \in pids /\ \A j \in pids : i <= j
  /\ Reap(Slot(i), "wait_all")
  /\ pids' = pids \ {i}
  /\ UNCHANGED active_workers

AllReaped ==
  /\ pc = "wait_all" /\ pids = {}
  /\ pc' = AfterComp
  /\ UNCHANGED <<list, disk, parts, run, im_count, chunk_sz, next, pids,
                 active_workers, child, job, target, scanned, faults>>

\* The child that runs one job after the chunks.
ForkOne(place, i, f, to) ==
  /\ pc = place /\ pc' = to
  /\ Fork(i, f)
  /\ UNCHANGED <<list, disk, parts, run, im_count, chunk_sz, next, pids,
                 active_workers, scanned, faults>>

ForkMerge == ForkOne("merge", Merge, IndexFile, "wait_merge")
ForkNeg   == ForkOne("neg", NegIms, NegFile, "wait_neg")

\* wait, for any child.
WaitForOne ==
  \E p \in Processes :
    /\ p[1] = run
    /\ \/ pc = "wait_merge" /\ Reap(p, AfterMerge)
       \/ pc = "wait_neg"   /\ Reap(p, "exited")
    /\ UNCHANGED <<pids, active_workers>>

\* A fork fails, and LOG(FATAL) ends the driver.
ForkFails ==
  /\ faults < MaxFaults /\ faults' = faults + 1
  /\ \/ pc = "fork"
     \/ pc = "loop" /\ next < chunk_count /\ ~LimitReached
     \/ pc \in {"merge", "neg"}
  /\ pc' = "fatal"
  /\ UNCHANGED <<list, disk, parts, run, im_count, chunk_sz, next, pids,
                 active_workers, child, job, target, scanned>>

\* A child is killed while it waits for its job, which goes on.
KillChild(p) ==
  /\ child[p] = "alive" /\ p[1] = run /\ ~DriverEnded
  /\ faults < MaxFaults /\ faults' = faults + 1
  /\ child' = [child EXCEPT ![p] = "killed"]
  /\ UNCHANGED <<list, disk, driver, job, target, scanned>>

-----------------------------------------------------------------------------
(* The jobs *)

\* The end of a job, and of the child that waits for it.
EndJob(p, how) ==
  /\ job' = [job EXCEPT ![p] = how]
  /\ child' = [child EXCEPT ![p] = IF @ = "alive" THEN "exited" ELSE @]

\* cpuvisor_preproc begins, and leaves a file that exists alone.
StartPreproc(p) ==
  /\ job[p] = "queued" /\ p[2] # Merge
  /\ IF file[target[p]] # Missing
     THEN EndJob(p, "done")
     ELSE job' = [job EXCEPT ![p] = "encode"] /\ UNCHANGED child
  /\ UNCHANGED <<list, disk, driver, target, scanned, faults>>

\* Opening a file truncates it, under the hands of another job as well.
Truncate(p) ==
  job' = [q \in Processes |->
            IF q = p THEN "write"
            ELSE IF target[q] = target[p] /\ job[q] = "write" THEN "disturbed"
            ELSE job[q]]

OpenFile(p) ==
  /\ job[p] = "encode"
  /\ Truncate(p)
  /\ file' = [file EXCEPT ![target[p]] = Torn]
  /\ UNCHANGED <<list, index, driver, child, target, scanned, faults>>

\* The images on the lines from start on, up to the line last of the list.
Lines(start, last) ==
  [k \in 1..((IF last > list THEN list ELSE last) - start) |-> start + k]

\* Fault: the line end_idx is read, too.
ReadPathsInclusive(start, end) == Lines(start, end + 1)

\* procTextFile: the images on the lines from start_idx to end_idx.
ReadPaths(start, end) == Lines(start, end)

\* The images that a job computes.
Images(f) == IF f = NegFile THEN <<1>> ELSE ReadPaths(f[1] - 1, f[2])

\* A file that was truncated meanwhile may miss its beginning.
WriteFile(p) ==
  /\ job[p] \in {"write", "disturbed"} /\ target[p] # IndexFile
  /\ \/ file' = [file EXCEPT ![target[p]] = Images(target[p])]
     \/ job[p] = "disturbed" /\ UNCHANGED file
  /\ EndJob(p, "done")
  /\ UNCHANGED <<list, index, driver, target, scanned, faults>>

\* cpuvisor_combine_chunks reads the chunks one by one,
MergedChunks == [k \in 1..Count(list, CombineSize) |->
  FileName(From(k - 1, CombineSize), Upto(k - 1, list, CombineSize))]

Complete(f) == f \in Files /\ file[f] \notin {Missing, Torn}

StartMerge(p) ==
  /\ job[p] = "queued" /\ p[2] = Merge
  /\ job' = [job EXCEPT ![p] = "scan"]
  /\ UNCHANGED <<list, disk, driver, child, target, scanned, faults>>

ScanChunk(p) ==
  LET read == scanned[p[1]]
      f    == MergedChunks[read.chunks + 1] IN
  /\ job[p] = "scan" /\ read.chunks < Len(MergedChunks)
  /\ IF Complete(f)
     THEN /\ scanned' = [scanned EXCEPT ![p[1]] =
                           [chunks |-> @.chunks + 1, rows |-> @.rows + Len(file[f])]]
          /\ UNCHANGED <<job, child>>
     ELSE EndJob(p, "failed") /\ UNCHANGED scanned
  /\ UNCHANGED <<list, disk, driver, target, faults>>

\* opens the index
OpenIndex(p) ==
  /\ job[p] = "scan" /\ scanned[p[1]].chunks = Len(MergedChunks)
  /\ Truncate(p)
  /\ index' = TornIndex
  /\ UNCHANGED <<list, file, driver, child, target, scanned, faults>>

\* and writes it.
WriteIndex(p) ==
  /\ job[p] \in {"write", "disturbed"} /\ target[p] = IndexFile
  /\ \/ index' = [chunks |-> MergedChunks, num |-> scanned[p[1]].rows]
     \/ job[p] = "disturbed" /\ UNCHANGED index
  /\ EndJob(p, "done")
  /\ UNCHANGED <<list, file, driver, target, scanned, faults>>

\* A job is refused or dies at any step.
JobFails(p) ==
  /\ Active(p) /\ faults < MaxFaults /\ faults' = faults + 1
  /\ EndJob(p, "failed")
  /\ UNCHANGED <<list, disk, driver, target, scanned>>
-----------------------------------------------------------------------------

Drive ==
  \/ ForkChunk \/ AllForked \/ AllReaped \/ ForkMerge \/ ForkNeg \/ WaitForOne
  \/ \E i \in 0..(MaxImages - 1) : WaitForWorker(i) \/ WaitForPid(i)

Work(p) ==
  \/ StartPreproc(p) \/ OpenFile(p) \/ WriteFile(p)
  \/ StartMerge(p) \/ ScanChunk(p) \/ OpenIndex(p) \/ WriteIndex(p)

Next ==
  \/ AddImage \/ Start \/ Drive \/ ForkFails
  \/ \E p \in Processes : Work(p) \/ JobFails(p) \/ KillChild(p)

\* The driver runs, and the cluster runs its jobs.
FairSpec ==
  /\ Init /\ [][Next]_vars
  /\ WF_vars(Drive)
  /\ \A p \in Processes : WF_vars(Work(p))

-----------------------------------------------------------------------------
(* Properties *)

\* One driver never has more jobs at once than its limit allows: the counter
\* active_workers agrees with the children, whichever of them ends first.
LimitRespected ==
  JobLimit > 0 => \A r \in 1..MaxRuns :
    Cardinality({i \in 0..(MaxImages - 1) : child[<<r, i>>] = "alive"}) <= JobLimit

\* The chunks are merged when no job of the same driver computes one any more,
\* also if one of its children was killed.
MergeAfterChunks ==
  \A r \in 1..MaxRuns : job[<<r, Merge>>] # "none" =>
    \A i \in 0..(MaxImages - 1) : ~Active(<<r, i>>)

\* readFeatsFromProto: what the server reads, and whether it can.
Contents == FlattenSeq([k \in DOMAIN index.chunks |-> file[index.chunks[k]]])
Readable ==
  /\ index \notin {NoIndex, TornIndex}
  /\ \A k \in DOMAIN index.chunks : Complete(index.chunks[k])
  /\ Len(Contents) = index.num

\* An index that can be read is the beginning of the list, with no image left
\* out, taken twice or out of its place, whatever sizes of chunks and jobs of
\* earlier runs were mixed.
IndexReadsPrefix == Readable => Contents = [k \in 1..index.num |-> k]

\* A file is torn, and the job of an earlier run that opened it last is still writing it
\* or died: cpuvisor_preproc.cc:67 and 81 take it for complete.
IsTorn(f) == IF f = IndexFile THEN index = TornIndex ELSE file[f] = Torn
TornBefore(f) ==
  /\ IsTorn(f)
  /\ \E p \in Processes : p[1] < run /\ target[p] = f /\ job[p] \in {"write", "failed"}

\* A run that exits and in which no job failed leaves an index of all images that the
\* driver counted, and the negative features; or one of the files is torn, by an earlier
\* run.
CleanRunCompletes ==
  /\ pc = "exited"
  /\ \A p \in Processes : p[1] = run => job[p] # "failed"
  => /\ "merge" \in parts =>
          \/ Readable /\ index.num = im_count
          \/ \E f \in {IndexFile} \cup ToSet(index.chunks) : TornBefore(f)
     /\ "neg" \in parts => Complete(NegFile) \/ TornBefore(NegFile)

\* The driver ends: it never waits for a child that it has not, or no more.
DriverEnds == pc \notin {"ready", "exited", "fatal"} ~> DriverEnded

\* What the LOG(FATAL) of the driver is for.  It does not hold: a child
\* returns 0 whatever its job did.
FailureNoticed ==
  pc = "exited" => \A p \in Processes : p[1] = run => job[p] # "failed"

\* A job that succeeds leaves its file behind.  It does not hold: a file that
\* an earlier job tore is taken for one that is complete.
DoneIsComplete ==
  \A p \in Processes : job[p] = "done" /\ p[2] # Merge => Complete(target[p])
=============================================================================
