------------------------- MODULE IndexUpdateProofs -------------------------
(***************************************************************************)
(* The index of the dataset is safe for every number of rankers, images,   *)
(* updates, restarts and temporary files: in memory its features and paths *)
(* agree, and on disk no update that was reported as successful is lost,   *)
(* wherever the process dies or a rename fails.                            *)
(***************************************************************************)
EXTENDS IndexUpdate, WellFoundedInduction, TLAPS

\* Features are appended before the paths; outside of that both agree.
GrowthInv ==
  /\ pc \in {"lock", "compute", "append"} => adding >= 1
  /\ pc = "append" => paths <= feats /\ feats < paths + adding
  /\ pc = "insert" => feats = paths + adding
  /\ pc \notin {"append", "insert"} => feats = paths
  /\ pc = "down" => paths = 0

\* No ranking is under way while the index grows, and none is older than a restart.
ReaderInv ==
  /\ readers # {} => pc \notin Writing \cup {"down"}
  /\ \A r \in Rankers : scored[r] <= paths

\* Memory holds all that was committed.  While an update replaces the file, the
\* temporary file holds the memory, and the backup what was committed.
DiskInv ==
  /\ pc # "down" => committed <= paths
  /\ pc \in {"backup", "replace"} => tmp[slot] = feats
  /\ pc = "replace" => main = Missing /\ bak >= committed
  /\ pc \in {"remove", "notify"} => main = paths
  /\ CommittedSurvives
  /\ SuccessIsSaved

MemoryInv == TypeOK /\ GrowthInv /\ ReaderInv

-----------------------------------------------------------------------------
(* Memory *)

\* The temporary file is one of the names, whether or not one is free.
LEMMA TmpSlotInSlots == TmpSlot \in Slots
<1> DEFINE free == {i \in Slots : tmp[i] = Missing}
<1>1. CASE free = {}
  BY <1>1, IndexAssumption DEF TmpSlot, Slots
<1>2. CASE free # {}
  <2>1. free \subseteq Nat
    BY IndexAssumption DEF Slots
  <2>2. \E i \in free : \A j \in free : ~(<<j, i>> \in OpToRel(<, Nat))
    BY <1>2, <2>1, WFMin, NatLessThanWellFounded
  <2>3. \A i, j \in Nat : ~(<<j, i>> \in OpToRel(<, Nat)) => i <= j
    BY DEF OpToRel
  <2>4. \E i \in free : \A j \in free : i <= j
    BY <2>1, <2>2, <2>3
  <2>5. (CHOOSE i \in free : \A j \in free : i <= j) \in free
    BY <2>4
  <2>6. QED
    BY <1>2, <2>5 DEF TmpSlot
<1>3. QED
  BY <1>1, <1>2

LEMMA InitMemory == Init => MemoryInv
  BY IndexAssumption
     DEF Init, MemoryInv, TypeOK, GrowthInv, ReaderInv, Slots, Writing, Renaming,
         Missing

LEMMA TypeStep == TypeOK /\ [Next]_vars => TypeOK'
<1> SUFFICES ASSUME TypeOK, [Next]_vars PROVE TypeOK'
  OBVIOUS
<1> USE IndexAssumption
    DEF TypeOK, Writing, Renaming, Goto, memory, disk, Missing, Partial
<1>1. ASSUME NEW n \in 1..MaxAdded, Request(n) PROVE TypeOK'
  BY <1>1, TmpSlotInSlots DEF Request
<1>2. CASE Refuse \/ LockExclusive \/ ComputeFeats
  BY <1>2 DEF Refuse, LockExclusive, ComputeFeats
<1>3. CASE AppendFeat \/ InsertPaths
  BY <1>3 DEF AppendFeat, InsertPaths
<1>4. CASE OpenTmp \/ WriteTmp
  BY <1>4 DEF OpenTmp, WriteTmp
<1>5. CASE Backup \/ Replace \/ RenameFails \/ RemoveBackup
  BY <1>5 DEF Backup, Replace, RenameFails, RemoveBackup
<1>6. CASE NotifyUpdated \/ NotifyFailed
  BY <1>6 DEF NotifyUpdated, NotifyFailed
<1>7. ASSUME NEW r \in Rankers, LockShared(r) \/ Rank(r) PROVE TypeOK'
  BY <1>7 DEF LockShared, Rank
<1>8. CASE FindPath \/ ReadPath
  BY <1>8 DEF FindPath, ReadPath
<1>9. CASE ReadTornPath \/ Crash \/ ThrowInvalidImage
  BY <1>9 DEF ReadTornPath, Crash, ThrowInvalidImage, Die
<1>10. CASE Restart \/ Restore
  BY <1>10 DEF Restart, Restore, Readable
<1>11. CASE UNCHANGED vars
  BY <1>11 DEF vars
<1>12. QED
  BY <1>1, <1>2, <1>3, <1>4, <1>5, <1>6, <1>7, <1>8, <1>9, <1>10, <1>11
     DEF Next, Update, Append, Rename

LEMMA GrowthStep == TypeOK /\ GrowthInv /\ [Next]_vars => GrowthInv'
<1> SUFFICES ASSUME TypeOK, GrowthInv, [Next]_vars PROVE GrowthInv'
  OBVIOUS
<1> USE IndexAssumption DEF TypeOK, GrowthInv, Goto, memory
<1>1. ASSUME NEW n \in 1..MaxAdded, Request(n) PROVE GrowthInv'
  BY <1>1 DEF Request
<1>2. CASE Refuse \/ LockExclusive \/ ComputeFeats
  BY <1>2 DEF Refuse, LockExclusive, ComputeFeats
<1>3. CASE AppendFeat \/ InsertPaths
  BY <1>3 DEF AppendFeat, InsertPaths
<1>4. CASE OpenTmp \/ WriteTmp
  BY <1>4 DEF OpenTmp, WriteTmp
<1>5. CASE Rename \/ NotifyUpdated \/ NotifyFailed
  BY <1>5 DEF Rename, Backup, Replace, RenameFails, RemoveBackup, NotifyUpdated,
     NotifyFailed
<1>6. ASSUME NEW r \in Rankers, LockShared(r) \/ Rank(r) PROVE GrowthInv'
  BY <1>6 DEF LockShared, Rank
<1>7. CASE FindPath \/ ReadPath \/ Restore
  BY <1>7 DEF FindPath, ReadPath, Restore
<1>8. CASE ReadTornPath \/ Crash \/ ThrowInvalidImage \/ Restart
  BY <1>8 DEF ReadTornPath, Crash, ThrowInvalidImage, Die, Restart
<1>9. CASE UNCHANGED vars
  BY <1>9 DEF vars
<1>10. QED
  BY <1>1, <1>2, <1>3, <1>4, <1>5, <1>6, <1>7, <1>8, <1>9 DEF Next, Update, Append

\* A ranking has as many scores as there are rows, which are as many as the paths
\* because the ranker holds the lock.
LEMMA ReaderStep == MemoryInv /\ [Next]_vars => ReaderInv'
<1> SUFFICES ASSUME MemoryInv, [Next]_vars PROVE ReaderInv'
  OBVIOUS
<1> USE IndexAssumption
    DEF MemoryInv, TypeOK, GrowthInv, ReaderInv, Goto, memory, Writing
<1>1. ASSUME NEW n \in 1..MaxAdded, Request(n) PROVE ReaderInv'
  BY <1>1 DEF Request
<1>2. CASE Refuse \/ LockExclusive \/ ComputeFeats
  BY <1>2 DEF Refuse, LockExclusive, ComputeFeats
<1>3. CASE AppendFeat \/ InsertPaths
  BY <1>3 DEF AppendFeat, InsertPaths
<1>4. CASE OpenTmp \/ WriteTmp
  BY <1>4 DEF OpenTmp, WriteTmp
<1>5. CASE Rename \/ NotifyUpdated \/ NotifyFailed
  BY <1>5 DEF Rename, Backup, Replace, RenameFails, RemoveBackup, NotifyUpdated,
     NotifyFailed
<1>6. ASSUME NEW r \in Rankers, LockShared(r) \/ Rank(r) PROVE ReaderInv'
  BY <1>6 DEF LockShared, Rank
<1>7. CASE FindPath \/ ReadPath \/ Restore
  BY <1>7 DEF FindPath, ReadPath, Restore
<1>8. CASE ReadTornPath \/ Crash \/ ThrowInvalidImage
  BY <1>8 DEF ReadTornPath, Crash, ThrowInvalidImage, Die
<1>9. CASE Restart
  BY <1>9 DEF Restart, Readable
<1>10. CASE UNCHANGED vars
  BY <1>10 DEF vars
<1>11. QED
  BY <1>1, <1>2, <1>3, <1>4, <1>5, <1>6, <1>7, <1>8, <1>9, <1>10
     DEF Next, Update, Append

LEMMA MemoryInvariance == Spec => []MemoryInv
<1>1. MemoryInv /\ [Next]_vars => MemoryInv'
  BY TypeStep, GrowthStep, ReaderStep DEF MemoryInv
<1>2. QED
  BY InitMemory, <1>1, PTL DEF Spec

\* Every variable keeps its type, and the temporary file is one of the names.
THEOREM IndexTypeCorrect == Spec => []TypeOK
<1>1. MemoryInv => TypeOK
  BY DEF MemoryInv
<1>2. QED
  BY MemoryInvariance, <1>1, PTL

\* A path always has its row in the matrix (preproc.cc:80, 90).
THEOREM IndexPathHasFeature == Spec => []PathHasFeature
<1>1. MemoryInv => PathHasFeature
  BY DEF MemoryInv, TypeOK, GrowthInv, PathHasFeature
<1>2. QED
  BY MemoryInvariance, <1>1, PTL

\* No ranking points behind the last path (base_server.h:136).
THEOREM IndexRankingIndicesValid == Spec => []RankingIndicesValid
<1>1. MemoryInv => RankingIndicesValid
  BY DEF MemoryInv, ReaderInv, RankingIndicesValid
<1>2. QED
  BY MemoryInvariance, <1>1, PTL

-----------------------------------------------------------------------------
(* The files.  That a file holds what was written is assumed: WriteTmp alone *)
(* depends on UncheckedClose.                                                *)

LEMMA InitDisk == Init => DiskInv
  BY IndexAssumption
     DEF Init, DiskInv, CommittedSurvives, SuccessIsSaved, Missing

\* CommittedSurvives is not inductive: to replace the file is safe because the
\* backup holds what was committed, and to remove the backup because the file
\* holds the memory, which holds all that was committed.
LEMMA DiskStep ==
  ASSUME UncheckedClose = FALSE
  PROVE  MemoryInv /\ DiskInv /\ [Next]_vars => DiskInv'
<1> SUFFICES ASSUME MemoryInv, DiskInv, [Next]_vars PROVE DiskInv'
  OBVIOUS
<1> USE IndexAssumption
    DEF MemoryInv, TypeOK, GrowthInv, DiskInv, CommittedSurvives, SuccessIsSaved,
        Goto, Missing, memory, disk
<1>1. ASSUME NEW n \in 1..MaxAdded, Request(n) PROVE DiskInv'
  BY <1>1 DEF Request
<1>2. CASE Refuse \/ LockExclusive \/ ComputeFeats
  BY <1>2 DEF Refuse, LockExclusive, ComputeFeats
<1>3. CASE AppendFeat \/ InsertPaths
  BY <1>3 DEF AppendFeat, InsertPaths
<1>4. CASE OpenTmp
  BY <1>4 DEF OpenTmp
<1>5. CASE WriteTmp
  BY <1>5 DEF WriteTmp
<1>6. CASE Backup
  BY <1>6 DEF Backup
<1>7. CASE Replace
  BY <1>7 DEF Replace
<1>8. CASE RenameFails \/ RemoveBackup
  BY <1>8 DEF RenameFails, RemoveBackup
<1>9. CASE NotifyUpdated \/ NotifyFailed
  BY <1>9 DEF NotifyUpdated, NotifyFailed
<1>10. ASSUME NEW r \in Rankers, LockShared(r) \/ Rank(r) PROVE DiskInv'
  BY <1>10 DEF LockShared, Rank
<1>11. CASE FindPath \/ ReadPath
  BY <1>11 DEF FindPath, ReadPath
<1>12. CASE ReadTornPath \/ Crash \/ ThrowInvalidImage
  BY <1>12 DEF ReadTornPath, Crash, ThrowInvalidImage, Die
<1>13. CASE Restart
  BY <1>13 DEF Restart, Readable
<1>14. CASE Restore
  BY <1>14 DEF Restore
<1>15. CASE UNCHANGED vars
  BY <1>15 DEF vars
<1>16. QED
  BY <1>1, <1>2, <1>3, <1>4, <1>5, <1>6, <1>7, <1>8, <1>9, <1>10, <1>11, <1>12,
     <1>13, <1>14, <1>15 DEF Next, Update, Append, Rename

LEMMA DiskInvariance ==
  ASSUME UncheckedClose = FALSE
  PROVE  Spec => []DiskInv
<1>1. MemoryInv /\ DiskInv /\ [Next]_vars => DiskInv'
  BY DiskStep
<1>2. QED
  BY InitDisk, MemoryInvariance, <1>1, PTL DEF Spec

\* The images of every update that was reported as successful are in the file, or
\* in its backup if there is no file, at every crash and after every failure.
THEOREM IndexCommittedSurvives ==
  ASSUME UncheckedClose = FALSE
  PROVE  Spec => []CommittedSurvives
<1>1. DiskInv => CommittedSurvives
  BY DEF DiskInv
<1>2. QED
  BY DiskInvariance, <1>1, PTL

\* If the last update was reported as successful, the file is the index.
THEOREM IndexSuccessIsSaved ==
  ASSUME UncheckedClose = FALSE
  PROVE  Spec => []SuccessIsSaved
<1>1. DiskInv => SuccessIsSaved
  BY DEF DiskInv
<1>2. QED
  BY DiskInvariance, <1>1, PTL
=============================================================================
