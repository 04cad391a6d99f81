---------------------------- MODULE IndexUpdate ----------------------------
(***************************************************************************)
(* The index of the dataset: a matrix of features and the paths of their   *)
(* images, in memory and in a file.  addDsetImagesToIndex                  *)
(* (src/src/server/base_server.cc) appends images to both while other      *)
(* threads rank the dataset and look features up.  The process may die at  *)
(* any step and is started again from the file.  The index only grows, so  *)
(* that the number of its images stands for its contents.                  *)
(***************************************************************************)
EXTENDS Integers

CONSTANTS
  Rankers,        \* the threads that run rank_
  Initial,        \* images in the index at first
  MaxAdded,       \* images of one update (bound)
  MaxUpdates,     \* updates (bound)
  MaxRestarts,    \* restarts (bound)
  NumSlots,       \* temporary files that are tried: 100 in the code (bound)
  MaxReadable,    \* images in the largest file that can be read
  UncheckedClose  \* whether a file can lose its end when it is closed

ASSUME IndexAssumption ==
  /\ Initial \in Nat \ {0} /\ MaxAdded \in Nat \ {0}
  /\ MaxUpdates \in Nat /\ MaxRestarts \in Nat
  /\ NumSlots \in Nat \ {0}
  /\ MaxReadable \in Nat /\ Initial <= MaxReadable
  /\ UncheckedClose \in BOOLEAN

Slots == 0..(NumSlots - 1)

\* What a file holds: that many images, or one of these.
Missing == -1
Partial == 0

VARIABLES
  feats, paths,   \* dset_feats_.rows and dset_paths_.size()
  indexed,        \* dset_paths_index_.size(), as built at the start
  readers,        \* the rankers that own dset_update_mutex_ as readers
  scored,         \* scored[r]: the scores in the ranking of r
  post,           \* the post-processing thread, in computeFeat_
  main, bak, tmp, \* the feature file, its .bak and tmp[i], its .i
  pc, slot, adding, \* the serve thread: place, temporary file, images to add
  committed,      \* images in the index when an update last succeeded
  outcome,        \* how the last update ended
  updates, restarts

memory == <<feats, paths, indexed, readers, scored, post>>
disk   == <<main, bak, tmp>>
vars   == <<memory, disk, pc, slot, adding, committed, outcome, updates, restarts>>

Writing  == {"compute", "append", "insert", "write", "writing"}
Renaming == {"backup", "replace", "remove", "notify", "failed"}

TypeOK ==
  /\ feats \in Nat /\ paths \in Nat /\ indexed \in Nat
  /\ readers \subseteq Rankers /\ scored \in [Rankers -> Nat]
  /\ post \in {"idle", "found", "mismatch"}
  /\ main \in Int /\ bak \in Int /\ tmp \in [Slots -> Int]
  /\ pc \in {"idle", "lock", "down"} \cup Writing \cup Renaming
  /\ slot \in Slots /\ adding \in 0..MaxAdded
  /\ committed \in Nat
  /\ outcome \in {"none", "updated", "failed", "refused", "thrown"}
  /\ updates \in 0..MaxUpdates /\ restarts \in 0..MaxRestarts

Init ==
  /\ feats = Initial /\ paths = Initial /\ indexed = Initial
  /\ readers = {} /\ scored = [r \in Rankers |-> 0] /\ post = "idle"
  /\ main = Initial /\ bak = Missing /\ tmp = [i \in Slots |-> Missing]
  /\ pc = "idle" /\ slot = 0 /\ adding = 0
  /\ committed = Initial /\ outcome = "none"
  /\ updates = 0 /\ restarts = 0

Goto(from, to) == pc = from /\ pc' = to

-----------------------------------------------------------------------------
(* addDsetImagesToIndex, in the serve thread *)

\* Fault: the name after the last one is taken.
TmpSlotBehindLast ==
  LET free == {i \in Slots : tmp[i] = Missing}
  IN  IF free = {} THEN NumSlots ELSE CHOOSE i \in free : \A j \in free : i <= j

\* The first name that is not taken, or the last one tried.
TmpSlot ==
  LET free == {i \in Slots : tmp[i] = Missing}
  IN  IF free = {} THEN NumSlots - 1
                   ELSE CHOOSE i \in free : \A j \in free : i <= j

Request(n) ==
  /\ updates < MaxUpdates /\ updates' = updates + 1
  /\ Goto("idle", "lock")
  /\ slot' = TmpSlot /\ adding' = n
  /\ UNCHANGED <<memory, disk, committed, outcome, restarts>>

\* No paths, a path outside the dataset or one that does not exist.
Refuse ==
  /\ pc = "idle" /\ updates < MaxUpdates /\ updates' = updates + 1
  /\ outcome' = "refused"
  /\ UNCHANGED <<memory, disk, pc, slot, adding, committed, restarts>>

LockExclusive ==
  /\ Goto("lock", "compute")
  /\ readers = {}
  /\ UNCHANGED <<memory, disk, slot, adding, committed, outcome, updates, restarts>>

\* procPaths_ computes all new features before the index is touched.
ComputeFeats ==
  /\ Goto("compute", "append")
  /\ UNCHANGED <<memory, disk, slot, adding, committed, outcome, updates, restarts>>

\* Fault: the loop leaves out the last row.
AppendFeatButLast ==
  /\ Goto("append", IF feats + 2 >= paths + adding THEN "insert" ELSE "append")
  /\ feats' = feats + 1
  /\ UNCHANGED <<paths, indexed, readers, scored, post, disk, slot, adding,
                 committed, outcome, updates, restarts>>

AppendFeat ==
  /\ Goto("append", IF feats + 1 = paths + adding THEN "insert" ELSE "append")
  /\ feats' = feats + 1
  /\ UNCHANGED <<paths, indexed, readers, scored, post, disk, slot, adding,
                 committed, outcome, updates, restarts>>

\* The insertion is under way as long as pc is "insert".
InsertPaths ==
  /\ Goto("insert", "write")
  /\ paths' = paths + adding
  /\ UNCHANGED <<feats, indexed, readers, scored, post, disk, slot, adding,
                 committed, outcome, updates, restarts>>

\* The file is opened, and truncated if there is one.
OpenTmp ==
  /\ Goto("write", "writing")
  /\ tmp' = [tmp EXCEPT ![slot] = Partial]
  /\ UNCHANGED <<memory, main, bak, slot, adding, committed, outcome, updates,
                 restarts>>

\* The stream is checked before it is closed, and the last block is written
\* when it is closed.  Then the lock is released.
WriteTmp ==
  /\ Goto("writing", "backup")
  /\ \/ tmp' = [tmp EXCEPT ![slot] = feats]
     \/ UncheckedClose /\ UNCHANGED tmp
  /\ UNCHANGED <<memory, main, bak, slot, adding, committed, outcome, updates,
                 restarts>>

\* Fault: the file is removed, not renamed.
BackupDropped ==
  /\ main # Missing
  /\ Goto("backup", "replace")
  /\ main' = Missing
  /\ UNCHANGED <<memory, bak, tmp, slot, adding, committed, outcome, updates,
                 restarts>>

Backup ==
  /\ main # Missing
  /\ Goto("backup", "replace")
  /\ bak' = main /\ main' = Missing
  /\ UNCHANGED <<memory, tmp, slot, adding, committed, outcome, updates, restarts>>

Replace ==
  /\ Goto("replace", "remove")
  /\ main' = tmp[slot] /\ tmp' = [tmp EXCEPT ![slot] = Missing]
  /\ UNCHANGED <<memory, bak, slot, adding, committed, outcome, updates, restarts>>

\* Either rename may fail, the first one does if there is no file.
RenameFails ==
  /\ \/ Goto("backup", "failed")
     \/ Goto("replace", "failed")
  /\ UNCHANGED <<memory, disk, slot, adding, committed, outcome, updates, restarts>>

\* Failing to remove the backup is only logged.
RemoveBackup ==
  /\ Goto("remove", "notify")
  /\ bak' \in {bak, Missing}
  /\ UNCHANGED <<memory, main, tmp, slot, adding, committed, outcome, updates,
                 restarts>>

NotifyUpdated ==
  /\ Goto("notify", "idle")
  /\ outcome' = "updated" /\ committed' = paths
  /\ UNCHANGED <<memory, disk, slot, adding, updates, restarts>>

NotifyFailed ==
  /\ Goto("failed", "idle")
  /\ outcome' = "failed"
  /\ UNCHANGED <<memory, disk, slot, adding, committed, updates, restarts>>

-----------------------------------------------------------------------------
(* Other threads *)

\* Fault: rank_ does not lock dset_update_mutex_.
RankUnlocked(r) ==
  /\ pc # "down" /\ r \notin readers
  /\ readers' = readers \cup {r}
  /\ UNCHANGED <<feats, paths, indexed, scored, post, disk, pc, slot, adding,
                 committed, outcome, updates, restarts>>

\* A boost::shared_mutex lets no reader in while a writer waits for others.
LockShared(r) ==
  /\ pc \notin {"down"} \cup Writing /\ r \notin readers
  /\ pc = "lock" => readers = {}
  /\ readers' = readers \cup {r}
  /\ UNCHANGED <<feats, paths, indexed, scored, post, disk, pc, slot, adding,
                 committed, outcome, updates, restarts>>

\* Fault: the lock is not released.
RankKeepsLock(r) ==
  /\ r \in readers
  /\ scored' = [scored EXCEPT ![r] = feats]
  /\ UNCHANGED <<feats, paths, indexed, readers, post, disk, pc, slot, adding,
                 committed, outcome, updates, restarts>>

\* One score for each row of dset_feats_.
Rank(r) ==
  /\ r \in readers /\ readers' = readers \ {r}
  /\ scored' = [scored EXCEPT ![r] = feats]
  /\ UNCHANGED <<feats, paths, indexed, post, disk, pc, slot, adding, committed,
                 outcome, updates, restarts>>

\* The index of computeFeat_ leads to a path, which is read without a lock.
FindPath ==
  /\ pc # "down" /\ post = "idle" /\ post' = "found"
  /\ UNCHANGED <<feats, paths, indexed, readers, scored, disk, pc, slot, adding,
                 committed, outcome, updates, restarts>>

ReadPath ==
  /\ post = "found" /\ post' = "idle"
  /\ UNCHANGED <<feats, paths, indexed, readers, scored, disk, pc, slot, adding,
                 committed, outcome, updates, restarts>>

-----------------------------------------------------------------------------
(* The end of the process, and its start *)

Die(last, how) ==
  /\ pc' = "down"
  /\ feats' = 0 /\ paths' = 0 /\ indexed' = 0
  /\ readers' = {} /\ scored' = [r \in Rankers |-> 0]
  /\ post' = last /\ outcome' = how
  /\ UNCHANGED <<disk, slot, adding, committed, updates, restarts>>

\* The process is killed, or the CHECK of a write fails.
Crash == pc # "down" /\ Die("idle", "none")

\* InvalidImageError: no handler catches it.
ThrowInvalidImage == pc = "compute" /\ Die("idle", "thrown")

\* The vector is changed while the path is read: the CHECK may find another one.
ReadTornPath == post = "found" /\ pc = "insert" /\ Die("mismatch", outcome)

Readable(file) == file \in 1..MaxReadable

\* The constructor CHECKs that the file can be read.
Restart ==
  /\ restarts < MaxRestarts /\ restarts' = restarts + 1
  /\ Goto("down", "idle")
  /\ Readable(main)
  /\ feats' = main /\ paths' = main /\ indexed' = main
  /\ post' = "idle"
  /\ UNCHANGED <<readers, scored, disk, slot, adding, committed, outcome, updates>>

\* Somebody puts the backup where it belongs, as the error message suggests.
Restore ==
  /\ pc \in {"down", "idle"} /\ main = Missing
  /\ main' = bak /\ bak' = Missing
  /\ UNCHANGED <<memory, tmp, pc, slot, adding, committed, outcome, updates,
                 restarts>>

-----------------------------------------------------------------------------
Append == ComputeFeats \/ AppendFeat \/ InsertPaths \/ OpenTmp \/ WriteTmp
Rename == Backup \/ Replace \/ RenameFails \/ RemoveBackup
Update == Append \/ Rename \/ NotifyUpdated \/ NotifyFailed

Next ==
  \/ \E n \in 1..MaxAdded : Request(n)
  \/ Refuse \/ LockExclusive \/ Update
  \/ \E r \in Rankers : LockShared(r) \/ Rank(r)
  \/ FindPath \/ ReadPath \/ ReadTornPath
  \/ Crash \/ ThrowInvalidImage \/ Restart \/ Restore

Spec == Init /\ [][Next]_vars

\* The threads keep running, except that the encoder may wait for ever for a network;
\* the writer of a shared_mutex is woken when the last reader leaves, and does not lose
\* against new readers for ever.
FairSpec ==
  /\ Spec
  /\ WF_vars(pc # "compute" /\ Update) /\ SF_vars(LockExclusive)
  /\ \A r \in Rankers : WF_vars(Rank(r))

-----------------------------------------------------------------------------
(* Properties *)

\* preproc.cc:90, "always add features before paths to the index to prevent
\* false lookups", and CHECK_EQ(feats.rows, paths.size()) at preproc.cc:80: a
\* path always has its row, and outside the loop a row has its path.
PathHasFeature ==
  /\ paths <= feats
  /\ pc \notin {"append", "insert"} => feats = paths

\* base_server.h:136, CHECK_LT(idx, dset_paths_.size()): no ranking that was made
\* while the index grew points behind the last path.
RankingIndicesValid == \A r \in Rankers : scored[r] <= paths \/ pc = "down"

\* Wherever the process dies or a rename fails, the images of every update that
\* was reported as successful are in the file, or, as the message of
\* base_server.cc:521 says, in its backup if there is no file.
CommittedSurvives ==
  \/ main >= committed
  \/ main = Missing /\ bak >= committed

\* base_server.cc:545: if success was notified last, the file is the index.
SuccessIsSaved ==
  pc = "idle" /\ outcome = "updated" => main = paths

\* The serve thread comes back from every update, although rankings go on and renames
\* fail, unless its encoder waits for ever for a network.
UpdateEnds ==
  []<>(pc # "compute") => (pc \notin {"idle", "down"} ~> pc \in {"idle", "down"})

-----------------------------------------------------------------------------
(* What the code says and does not keep *)

\* base_server.cc:536, "notify of any errors during the update, but also throw".
\* Only one class of errors is caught (line 534).
ErrorsNotified == outcome # "thrown"

\* base_server.cc:110, CHECK_EQ(dset_paths_[it->second], rel_path): what the
\* index of computeFeat_ leads to is the path that was looked up.
LookupFindsPath == post # "mismatch"

\* io.cc:287, CHECK(proto.SerializeToOstream(&output)): the new file is only used
\* if all of it was written.
WrittenIsComplete == pc = "backup" => tmp[slot] = feats

\* base_server.cc:158, CHECK(readFeatsFromProto(...)): the server can read the
\* file that it wrote.
FileIsReadable == main # Missing => Readable(main)
=============================================================================
