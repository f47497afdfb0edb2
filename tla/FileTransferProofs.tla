------------------------- MODULE FileTransferProofs --------------------------
(***************************************************************************)
(* Proofs about FileTransfer for every set of files, every size of the     *)
(* archives, every threshold, every set of failing calls and every bound.  *)
(* The invariant IInv is preserved by each action (one lemma per action);  *)
(* the safety properties are parts of it, and the two action properties    *)
(* follow from it.                                                         *)
(***************************************************************************)
EXTENDS FileTransfer, SequenceTheorems, TLAPS

\* The tuples of variables and the sets of program points are only names.
USE DEF envVars, diskVars, mainVars, dlVars, scanVars, queueVars, runVars,
        zipVars, ulVars, sentVars, histVars, vars, DLStates, ULStates, DLHolds, ULHolds

\* What erase leaves of file_history is a sequence of file names.
LEMMA RemoveAtType ==
  ASSUME NEW S, NEW s \in Seq(S), NEW k \in 1..Len(s)
  PROVE  RemoveAt(s, k) \in Seq(S)
<1>1. SubSeq(s, 1, k - 1) \in Seq(S)
  BY SubSeqProperties
<1>2. SubSeq(s, k + 1, Len(s)) \in Seq(S)
  BY SubSeqProperties
<1> QED
  BY <1>1, <1>2, ConcatProperties DEF RemoveAt

\* A step that leaves the archive, the semaphore and the upload thread alone,
\* and that does not move the download thread into or out of append_to_zip.
LEMMA ArchiveUntouched ==
  ASSUME IInv,
         UNCHANGED <<zip, dest, dest_whole, main_pc, zip_semaphore>>,
         UNCHANGED <<ul_pc, ufd, cut_short>>,
         \/ UNCHANGED <<dl_pc, file_contents, za>>
         \/ /\ dl_pc \notin {"off", "sem_wait", "zip_open", "zip_close"}
            /\ dl_pc' \notin {"off", "sem_wait", "zip_open", "zip_close"}
  PROVE  SharedInv'
<1>1. ThreadsInv' /\ SemaphoreInv'
  BY DEF IInv, SharedInv, ThreadsInv, SemaphoreInv
<1>2. SendInv' /\ UploadWindow' /\ TruncatedRecoverable' /\ OvershootByOne'
  BY DEF IInv, SharedInv, SendInv, UploadWindow, TruncatedRecoverable,
         OvershootByOne
<1>3. AppendInv'
  BY DEF IInv, SharedInv, AppendInv
<1> QED
  BY <1>1, <1>2, <1>3 DEF SharedInv

\* The process ends at any point: what is on the disks satisfies what the next
\* process relies on.
LEMMA ProcessEnds_Inv ==
  ASSUME IInv, NEW status \in {"clean", "killed", "segv"}, ProcessEnds(status),
         faults' \in 0..MaxFaults
  PROVE  IInv'
<1> USE DEF ProcessEnds
<1>1. EnvironmentType' /\ ArchiveType'
  BY DEF IInv, TypeOK, EnvironmentType, ArchiveType, RemoteFile
<1>2. ProcessType'
  BY DEF IInv, TypeOK, ProcessType
<1>3. ScanType'
  BY ConstantsAssumption, EmptySeq DEF ConstantsAssumption, ScanType, Seconds
<1>4. QueueType'
  <2>1. file_history' \in Seq(Files) /\ files_to_remove' \in Seq(Files)
    OBVIOUS
  <2>2. pos' \in Nat \ {0} /\ za' \subseteq Entry
    OBVIOUS
  <2>3. zip_existed' \in BOOLEAN
    OBVIOUS
  <2>4. file_contents' \in Entry \cup {NoFile}
    OBVIOUS
  <2> QED
    BY <2>1, <2>2, <2>3, <2>4 DEF QueueType
<1>5. RemoteInv'
  BY DEF IInv, RemoteInv
<1>6. ThreadsInv' /\ SemaphoreInv' /\ SendInv' /\ AppendInv' /\ UploadWindow'
  BY DEF ThreadsInv, SemaphoreInv, SendInv, AppendInv, UploadWindow
<1>7. TruncatedRecoverable' /\ OvershootByOne'
  BY DEF IInv, SharedInv, TruncatedRecoverable, OvershootByOne
<1> QED
  BY <1>1, <1>2, <1>3, <1>4, <1>5, <1>6, <1>7
  DEF IInv, TypeOK, SharedInv

\* The download thread connects, or ends.
LEMMA dl_connect_Inv ==
  ASSUME IInv, dl_connect
  PROVE  IInv'
<1> USE DEF dl_connect, create_session, Works, Fails, DownloadFrame
<1>1. EnvironmentType'
  BY ConstantsAssumption
  DEF IInv, TypeOK, EnvironmentType, ConstantsAssumption, RemoteFile
<1>2. ProcessType'
  BY DEF IInv, TypeOK, ProcessType
<1>3. ScanType'
  BY DEF IInv, TypeOK, ScanType, EnvironmentType
<1>4. ArchiveType' /\ QueueType'
  BY DEF IInv, TypeOK, ArchiveType, QueueType
<1>5. RemoteInv'
  BY DEF IInv, RemoteInv
<1>6. SharedInv'
  BY ArchiveUntouched
<1> QED
  BY <1>1, <1>2, <1>3, <1>4, <1>5, <1>6
  DEF IInv, TypeOK, SharedInv

\* The download thread starts an iteration and opens the directory.
LEMMA download_loop_Inv ==
  ASSUME IInv, download_loop
  PROVE  IInv'
<1> USE DEF download_loop, Works, Fails, DownloadFrame
<1>1. EnvironmentType'
  BY ConstantsAssumption
  DEF IInv, TypeOK, EnvironmentType, ConstantsAssumption, RemoteFile
<1>2. ProcessType'
  BY DEF IInv, TypeOK, ProcessType
<1>3. ScanType'
  BY DEF IInv, TypeOK, ScanType, EnvironmentType
<1>4. ArchiveType' /\ QueueType'
  BY DEF IInv, TypeOK, ArchiveType, QueueType
<1>5. RemoteInv'
  BY DEF IInv, RemoteInv
<1>6. SharedInv'
  BY ArchiveUntouched
<1> QED
  BY <1>1, <1>2, <1>3, <1>4, <1>5, <1>6
  DEF IInv, TypeOK, SharedInv

\* The download thread leaves its loop.
LEMMA download_exit_Inv ==
  ASSUME IInv, download_exit
  PROVE  IInv'
<1> USE DEF download_exit, DownloadFrame
<1>1. ProcessType'
  BY DEF IInv, TypeOK, ProcessType
<1>2. EnvironmentType' /\ ArchiveType' /\ ScanType' /\ QueueType'
  BY
  DEF IInv, TypeOK, EnvironmentType, ArchiveType, ScanType, QueueType,
      RemoteFile
<1>3. RemoteInv'
  BY DEF IInv, RemoteInv
<1>4. SharedInv'
  BY ArchiveUntouched
<1> QED
  BY <1>1, <1>2, <1>3, <1>4
  DEF IInv, TypeOK, SharedInv

\* The server lists one name of the directory.
LEMMA readdir_Inv ==
  ASSUME IInv, NEW f \in Files, readdir(f)
  PROVE  IInv'
<1> USE DEF readdir, DownloadFrame
<1>1. ScanType'
  BY ConstantsAssumption
  DEF IInv, TypeOK, ScanType, ConstantsAssumption, EnvironmentType,
      RemoteFile, RemoteInv, Attributes, Versions
<1>2. EnvironmentType' /\ ArchiveType' /\ ProcessType' /\ QueueType'
  BY
  DEF IInv, TypeOK, EnvironmentType, ArchiveType, ProcessType, QueueType,
      RemoteFile
<1>3. RemoteInv'
  BY DEF IInv, RemoteInv
<1>4. SharedInv'
  BY ArchiveUntouched
<1> QED
  BY <1>1, <1>2, <1>3, <1>4
  DEF IInv, TypeOK, SharedInv

\* list_new_files queues a listed file, or passes over it.
LEMMA list_new_files_Inv ==
  ASSUME IInv, NEW a \in batch, list_new_files(a)
  PROVE  IInv'
<1> USE DEF list_new_files, file_exists_in_zip, Works, Fails, DownloadFrame
<1>1. EnvironmentType'
  BY ConstantsAssumption
  DEF IInv, TypeOK, EnvironmentType, ConstantsAssumption, RemoteFile
<1>2. ArchiveType'
  BY DEF IInv, TypeOK, ArchiveType, ScanType, Attributes, Entry
<1>3. ScanType'
  BY DEF IInv, TypeOK, ScanType, Attributes
<1>4. ProcessType' /\ QueueType'
  BY DEF IInv, TypeOK, ProcessType, QueueType
<1>5. RemoteInv'
  BY DEF IInv, RemoteInv
<1>6. SharedInv'
  BY ArchiveUntouched
<1> QED
  BY <1>1, <1>2, <1>3, <1>4, <1>5, <1>6
  DEF IInv, TypeOK, SharedInv

\* A scan finds nothing.
LEMMA no_new_files_Inv ==
  ASSUME IInv, no_new_files
  PROVE  IInv'
<1> USE DEF no_new_files, end_of_directory, Works, Fails, DownloadFrame
<1>1. EnvironmentType'
  BY ConstantsAssumption
  DEF IInv, TypeOK, EnvironmentType, ConstantsAssumption, RemoteFile
<1>2. ProcessType'
  BY DEF IInv, TypeOK, ProcessType
<1>3. ScanType'
  BY ConstantsAssumption
  DEF IInv, TypeOK, ScanType, ConstantsAssumption, Seconds
<1>4. ArchiveType' /\ QueueType'
  BY DEF IInv, TypeOK, ArchiveType, QueueType
<1>5. RemoteInv'
  BY DEF IInv, RemoteInv
<1>6. SharedInv'
  BY ArchiveUntouched
<1> QED
  BY <1>1, <1>2, <1>3, <1>4, <1>5, <1>6
  DEF IInv, TypeOK, SharedInv

\* A scan finds something: last_run moves on.
LEMMA check_for_new_files_Inv ==
  ASSUME IInv, check_for_new_files
  PROVE  IInv'
<1> USE DEF check_for_new_files, end_of_directory, Works, Fails, DownloadFrame
<1>1. EnvironmentType'
  BY ConstantsAssumption
  DEF IInv, TypeOK, EnvironmentType, ConstantsAssumption, RemoteFile
<1>2. ProcessType'
  BY DEF IInv, TypeOK, ProcessType
<1>3. ScanType'
  BY DEF IInv, TypeOK, ScanType
<1>4. ArchiveType' /\ QueueType'
  BY DEF IInv, TypeOK, ArchiveType, QueueType
<1>5. RemoteInv'
  BY DEF IInv, RemoteInv
<1>6. SharedInv'
  BY ArchiveUntouched
<1> QED
  BY <1>1, <1>2, <1>3, <1>4, <1>5, <1>6
  DEF IInv, TypeOK, SharedInv

\* A new file enters file_history.
LEMMA merge_history_Inv ==
  ASSUME IInv, merge_history
  PROVE  IInv'
<1> USE DEF merge_history, DownloadFrame
<1>1. ProcessType'
  BY DEF IInv, TypeOK, ProcessType
<1>2. ScanType'
  BY DEF IInv, TypeOK, ScanType
<1>3. QueueType'
  BY DEF IInv, TypeOK, QueueType, ScanType
<1>4. EnvironmentType' /\ ArchiveType'
  BY DEF IInv, TypeOK, EnvironmentType, ArchiveType, RemoteFile
<1>5. RemoteInv'
  BY DEF IInv, RemoteInv
<1>6. SharedInv'
  BY ArchiveUntouched
<1> QED
  BY <1>1, <1>2, <1>3, <1>4, <1>5, <1>6
  DEF IInv, TypeOK, SharedInv

\* The next file is downloaded, below the threshold: from here on the archive
\* is known to be small enough.
LEMMA next_file_Inv ==
  ASSUME IInv, next_file
  PROVE  IInv'
<1> USE DEF next_file, download_file, get_file_size, Works, Fails,
            DownloadFrame
<1>1. EnvironmentType'
  BY ConstantsAssumption
  DEF IInv, TypeOK, EnvironmentType, ConstantsAssumption, RemoteFile
<1>2. ProcessType'
  BY DEF IInv, TypeOK, ProcessType
<1>3. QueueType'
  BY ConstantsAssumption
  DEF IInv, TypeOK, QueueType, ConstantsAssumption, EnvironmentType,
      RemoteFile, RemoteInv, Entry, Versions
<1>4. ArchiveType' /\ ScanType'
  BY DEF IInv, TypeOK, ArchiveType, ScanType
<1>5. RemoteInv'
  BY DEF IInv, RemoteInv
<1>6. ThreadsInv' /\ SemaphoreInv'
  BY DEF IInv, TypeOK, ProcessType, SharedInv, ThreadsInv, SemaphoreInv
<1>7. SendInv'
  BY DEF IInv, SharedInv, ThreadsInv, SemaphoreInv, SendInv, AppendInv
<1>8. AppendInv'
  BY ConstantsAssumption
  DEF ConstantsAssumption, IInv, TypeOK, EnvironmentType, ArchiveType,
      QueueType, RemoteFile, RemoteInv, Entry, Versions, SharedInv, AppendInv
<1>9. UploadWindow' /\ TruncatedRecoverable'
  BY
  DEF IInv, SharedInv, SendInv, AppendInv, UploadWindow, TruncatedRecoverable
<1>10. OvershootByOne'
  BY DEF IInv, SharedInv, OvershootByOne
<1> QED
  BY <1>1, <1>2, <1>3, <1>4, <1>5, <1>6, <1>7, <1>8, <1>9, <1>10
  DEF IInv, TypeOK, SharedInv

\* append_to_zip takes the semaphore.
LEMMA append_sem_wait_Inv ==
  ASSUME IInv, append_sem_wait
  PROVE  IInv'
<1> USE DEF append_sem_wait, sem_wait, DownloadFrame
<1>1. ProcessType'
  BY DEF IInv, TypeOK, ProcessType
<1>2. QueueType'
  BY DEF IInv, TypeOK, QueueType, check_file_exists
<1>3. EnvironmentType' /\ ArchiveType' /\ ScanType'
  BY
  DEF IInv, TypeOK, EnvironmentType, ArchiveType, ScanType, RemoteFile
<1>4. RemoteInv'
  BY DEF IInv, RemoteInv
<1>5. ThreadsInv' /\ SemaphoreInv'
  BY DEF IInv, TypeOK, ProcessType, SharedInv, ThreadsInv, SemaphoreInv
<1>6. SendInv'
  BY DEF IInv, SharedInv, ThreadsInv, SemaphoreInv, SendInv, AppendInv
<1>7. AppendInv'
  BY
  DEF IInv, TypeOK, ArchiveType, SharedInv, AppendInv, SendInv, SemaphoreInv
<1>8. UploadWindow' /\ TruncatedRecoverable'
  BY
  DEF IInv, SharedInv, SendInv, AppendInv, UploadWindow, TruncatedRecoverable
<1>9. OvershootByOne'
  BY DEF IInv, SharedInv, OvershootByOne
<1> QED
  BY <1>1, <1>2, <1>3, <1>4, <1>5, <1>6, <1>7, <1>8, <1>9
  DEF IInv, TypeOK, SharedInv

\* append_to_zip commits: the archive on the disk is the one it opened, or has
\* been deleted, and the upload thread is not reading it.
LEMMA append_zip_close_Inv ==
  ASSUME IInv, append_zip_close
  PROVE  IInv'
<1> USE DEF append_zip_close, zip_commit, sem_post, Works, Fails, DownloadFrame
<1>1. EnvironmentType'
  BY ConstantsAssumption
  DEF IInv, TypeOK, EnvironmentType, ConstantsAssumption, RemoteFile
<1>2. ArchiveType'
  BY DEF IInv, TypeOK, ArchiveType, QueueType, SharedInv, AppendInv
<1>3. ProcessType'
  BY DEF IInv, TypeOK, ProcessType, SharedInv, ThreadsInv, SemaphoreInv
<1>4. QueueType'
  <2>1. file_contents.name \in Files
    BY DEF IInv, SharedInv, AppendInv, Entry
  <2>2. \/ /\ files_to_remove' = Append(files_to_remove, file_contents.name)
           /\ pos' = pos + 1
        \/ UNCHANGED <<files_to_remove, pos>>
    OBVIOUS
  <2>3. files_to_remove' \in Seq(Files)
    BY <2>1, <2>2 DEF IInv, TypeOK, QueueType
  <2>4. pos' \in Nat \ {0}
    BY <2>2 DEF IInv, TypeOK, QueueType
  <2>5. zip_existed' \in BOOLEAN /\ za' \subseteq Entry
    OBVIOUS
  <2>6. file_history' \in Seq(Files) /\ file_contents' \in Entry \cup {NoFile}
    BY DEF IInv, TypeOK, QueueType
  <2> QED
    BY <2>3, <2>4, <2>5, <2>6 DEF QueueType
<1>5. ScanType'
  BY DEF IInv, TypeOK, ScanType
<1>6. RemoteInv'
  BY DEF IInv, RemoteInv
<1>7. ThreadsInv' /\ SemaphoreInv'
  BY DEF IInv, TypeOK, ProcessType, SharedInv, ThreadsInv, SemaphoreInv
<1>8. SendInv'
  <2>1. UNCHANGED <<ul_pc, ufd>> /\ ul_pc # "send"
    BY DEF IInv, TypeOK, ProcessType, SharedInv, ThreadsInv, SemaphoreInv
  <2>2. zip' = zip \/ zip' # {}
    OBVIOUS
  <2> QED
    BY <2>1, <2>2 DEF IInv, SharedInv, SendInv
<1>9. AppendInv'
  BY
  DEF IInv, TypeOK, ArchiveType, SharedInv, AppendInv, SendInv, SemaphoreInv
<1>10. UploadWindow' /\ TruncatedRecoverable'
  BY
  DEF IInv, SharedInv, SendInv, AppendInv, UploadWindow, TruncatedRecoverable
<1>11. OvershootByOne'
  BY DEF IInv, SharedInv, AppendInv, OvershootByOne, Names
<1> QED
  BY <1>1, <1>2, <1>3, <1>4, <1>5, <1>6, <1>7, <1>8, <1>9, <1>10, <1>11
  DEF IInv, TypeOK, SharedInv

\* append_to_zip opens the archive that its stat saw, or dies.
LEMMA append_zip_open_Inv ==
  ASSUME IInv, append_zip_open
  PROVE  IInv'
<1> USE DEF append_zip_open
<1>1. faults' \in 0..MaxFaults
  BY ConstantsAssumption
  DEF ConstantsAssumption, Works, Fails, IInv, TypeOK, EnvironmentType
<1>2. CASE ProcessEnds("segv")
  BY <1>1, <1>2, ProcessEnds_Inv
<1>3. CASE ~ProcessEnds("segv")
  <2> USE <1>3 DEF DownloadFrame
  <2>1. EnvironmentType'
    BY <1>1 DEF IInv, TypeOK, EnvironmentType, RemoteFile
  <2>2. ArchiveType' /\ ProcessType' /\ ScanType'
    BY DEF IInv, TypeOK, ArchiveType, ProcessType, ScanType
  <2>3. QueueType'
    BY DEF IInv, TypeOK, QueueType, ArchiveType
  <2>4. RemoteInv'
    BY DEF IInv, RemoteInv
  <2>5. ThreadsInv' /\ SemaphoreInv'
    BY DEF IInv, SharedInv, ThreadsInv, SemaphoreInv
  <2>6. SendInv' /\ AppendInv'
    BY DEF IInv, SharedInv, SendInv, AppendInv
  <2>7. UploadWindow' /\ TruncatedRecoverable' /\ OvershootByOne'
    BY DEF IInv, SharedInv, UploadWindow, TruncatedRecoverable, OvershootByOne
  <2> QED
    BY <2>1, <2>2, <2>3, <2>4, <2>5, <2>6, <2>7 DEF IInv, TypeOK, SharedInv
<1> QED
  BY <1>2, <1>3

\* An archived file leaves file_history.
LEMMA prune_history_Inv ==
  ASSUME IInv, prune_history
  PROVE  IInv'
<1> USE DEF prune_history, erase, DownloadFrame
<1>1. QueueType'
  BY RemoveAtType DEF IInv, TypeOK, QueueType
<1>2. EnvironmentType' /\ ArchiveType' /\ ProcessType' /\ ScanType'
  BY
  DEF IInv, TypeOK, EnvironmentType, ArchiveType, ProcessType, ScanType,
      RemoteFile
<1>3. RemoteInv'
  BY DEF IInv, RemoteInv
<1>4. SharedInv'
  BY ArchiveUntouched
<1> QED
  BY <1>1, <1>2, <1>3, <1>4
  DEF IInv, TypeOK, SharedInv

\* The download thread ends an iteration.
LEMMA download_sleep_Inv ==
  ASSUME IInv, download_sleep
  PROVE  IInv'
<1> USE DEF download_sleep, DownloadFrame
<1>1. ProcessType'
  BY DEF IInv, TypeOK, ProcessType
<1>2. ScanType'
  BY ConstantsAssumption
  DEF IInv, TypeOK, ScanType, ConstantsAssumption, Seconds
<1>3. QueueType'
  BY DEF IInv, TypeOK, QueueType
<1>4. EnvironmentType' /\ ArchiveType'
  BY DEF IInv, TypeOK, EnvironmentType, ArchiveType, RemoteFile
<1>5. RemoteInv'
  BY DEF IInv, RemoteInv
<1>6. SharedInv'
  BY ArchiveUntouched
<1> QED
  BY <1>1, <1>2, <1>3, <1>4, <1>5, <1>6
  DEF IInv, TypeOK, SharedInv

\* The upload thread connects, or ends.
LEMMA ul_connect_Inv ==
  ASSUME IInv, ul_connect
  PROVE  IInv'
<1> USE DEF ul_connect, create_session, Works, Fails, UploadFrame
<1>1. EnvironmentType'
  BY ConstantsAssumption
  DEF IInv, TypeOK, EnvironmentType, ConstantsAssumption, RemoteFile
<1>2. ProcessType'
  BY DEF IInv, TypeOK, ProcessType
<1>3. ArchiveType' /\ ScanType' /\ QueueType'
  BY DEF IInv, TypeOK, ArchiveType, ScanType, QueueType
<1>4. RemoteInv'
  BY DEF IInv, RemoteInv
<1>5. ThreadsInv' /\ SemaphoreInv'
  BY DEF IInv, TypeOK, ProcessType, SharedInv, ThreadsInv, SemaphoreInv
<1>6. SendInv'
  BY DEF IInv, SharedInv, ThreadsInv, SemaphoreInv, SendInv, AppendInv
<1>7. AppendInv'
  BY
  DEF IInv, TypeOK, ArchiveType, SharedInv, AppendInv, SendInv, SemaphoreInv
<1>8. UploadWindow' /\ TruncatedRecoverable'
  BY
  DEF IInv, SharedInv, SendInv, AppendInv, UploadWindow, TruncatedRecoverable
<1>9. OvershootByOne'
  BY DEF IInv, SharedInv, OvershootByOne
<1> QED
  BY <1>1, <1>2, <1>3, <1>4, <1>5, <1>6, <1>7, <1>8, <1>9
  DEF IInv, TypeOK, SharedInv

\* The upload thread looks for an archive that is small enough.
LEMMA upload_loop_Inv ==
  ASSUME IInv, upload_loop
  PROVE  IInv'
<1> USE DEF upload_loop, UploadFrame
<1>1. ProcessType'
  BY DEF IInv, TypeOK, ProcessType
<1>2. EnvironmentType' /\ ArchiveType' /\ ScanType' /\ QueueType'
  BY
  DEF IInv, TypeOK, EnvironmentType, ArchiveType, ScanType, QueueType,
      RemoteFile
<1>3. RemoteInv'
  BY DEF IInv, RemoteInv
<1>4. ThreadsInv' /\ SemaphoreInv'
  BY DEF IInv, TypeOK, ProcessType, SharedInv, ThreadsInv, SemaphoreInv
<1>5. SendInv'
  BY DEF IInv, SharedInv, SendInv, check_file_exists
<1>6. AppendInv'
  BY
  DEF IInv, TypeOK, ArchiveType, SharedInv, AppendInv, SendInv, SemaphoreInv
<1>7. UploadWindow' /\ TruncatedRecoverable'
  BY
  DEF IInv, SharedInv, SendInv, AppendInv, UploadWindow, TruncatedRecoverable
<1>8. OvershootByOne'
  BY DEF IInv, SharedInv, OvershootByOne
<1> QED
  BY <1>1, <1>2, <1>3, <1>4, <1>5, <1>6, <1>7, <1>8
  DEF IInv, TypeOK, SharedInv

\* upload_file takes the semaphore.
LEMMA upload_sem_wait_Inv ==
  ASSUME IInv, upload_sem_wait
  PROVE  IInv'
<1> USE DEF upload_sem_wait, sem_wait, UploadFrame
<1>1. ProcessType'
  BY DEF IInv, TypeOK, ProcessType
<1>2. EnvironmentType' /\ ArchiveType' /\ ScanType' /\ QueueType'
  BY
  DEF IInv, TypeOK, EnvironmentType, ArchiveType, ScanType, QueueType,
      RemoteFile
<1>3. RemoteInv'
  BY DEF IInv, RemoteInv
<1>4. ThreadsInv' /\ SemaphoreInv'
  BY DEF IInv, TypeOK, ProcessType, SharedInv, ThreadsInv, SemaphoreInv
<1>5. SendInv'
  BY DEF IInv, SharedInv, ThreadsInv, SemaphoreInv, SendInv, AppendInv
<1>6. AppendInv'
  BY
  DEF IInv, TypeOK, ArchiveType, SharedInv, AppendInv, SendInv, SemaphoreInv
<1>7. UploadWindow' /\ TruncatedRecoverable'
  BY
  DEF IInv, SharedInv, SendInv, AppendInv, UploadWindow, TruncatedRecoverable
<1>8. OvershootByOne'
  BY DEF IInv, SharedInv, OvershootByOne
<1> QED
  BY <1>1, <1>2, <1>3, <1>4, <1>5, <1>6, <1>7, <1>8
  DEF IInv, TypeOK, SharedInv

\* upload_file opens the archive and truncates the file on RemoteHost2.
LEMMA upload_open_Inv ==
  ASSUME IInv, upload_open
  PROVE  IInv'
<1> USE DEF upload_open, Works, UploadFrame
<1>1. ArchiveType'
  BY DEF IInv, TypeOK, ArchiveType
<1>2. ProcessType'
  BY DEF IInv, TypeOK, ProcessType, ArchiveType
<1>3. EnvironmentType' /\ ScanType' /\ QueueType'
  BY DEF IInv, TypeOK, EnvironmentType, ScanType, QueueType, RemoteFile
<1>4. RemoteInv'
  BY DEF IInv, RemoteInv
<1>5. ThreadsInv' /\ SemaphoreInv'
  BY DEF IInv, TypeOK, ProcessType, SharedInv, ThreadsInv, SemaphoreInv
<1>6. SendInv'
  BY DEF IInv, SharedInv, ThreadsInv, SemaphoreInv, SendInv, AppendInv
<1>7. AppendInv'
  BY
  DEF IInv, TypeOK, ArchiveType, SharedInv, AppendInv, SendInv, SemaphoreInv
<1>8. UploadWindow' /\ TruncatedRecoverable'
  BY DEF IInv, SharedInv, SendInv, UploadWindow, TruncatedRecoverable
<1>9. OvershootByOne'
  BY DEF IInv, SharedInv, OvershootByOne
<1> QED
  BY <1>1, <1>2, <1>3, <1>4, <1>5, <1>6, <1>7, <1>8, <1>9
  DEF IInv, TypeOK, SharedInv

\* upload_file has copied the archive and posts the semaphore.
LEMMA upload_send_Inv ==
  ASSUME IInv, upload_send
  PROVE  IInv'
<1> USE DEF upload_send, sem_post, Works, UploadFrame
<1>1. ArchiveType'
  BY DEF IInv, TypeOK, ArchiveType, ProcessType
<1>2. ProcessType'
  BY DEF IInv, TypeOK, ProcessType, SharedInv, ThreadsInv, SemaphoreInv
<1>3. EnvironmentType' /\ ScanType' /\ QueueType'
  BY DEF IInv, TypeOK, EnvironmentType, ScanType, QueueType, RemoteFile
<1>4. RemoteInv'
  BY DEF IInv, RemoteInv
<1>5. ThreadsInv' /\ SemaphoreInv'
  BY DEF IInv, TypeOK, ProcessType, SharedInv, ThreadsInv, SemaphoreInv
<1>6. SendInv'
  BY DEF IInv, SharedInv, ThreadsInv, SemaphoreInv, SendInv, AppendInv
<1>7. AppendInv'
  BY
  DEF IInv, TypeOK, ArchiveType, SharedInv, AppendInv, SendInv, SemaphoreInv
<1>8. UploadWindow' /\ TruncatedRecoverable'
  BY
  DEF IInv, SharedInv, SendInv, AppendInv, UploadWindow, TruncatedRecoverable
<1>9. OvershootByOne'
  BY DEF IInv, SharedInv, OvershootByOne
<1> QED
  BY <1>1, <1>2, <1>3, <1>4, <1>5, <1>6, <1>7, <1>8, <1>9
  DEF IInv, TypeOK, SharedInv

\* upload_file posts the semaphore and returns true although a call failed.
LEMMA upload_cut_short_Inv ==
  ASSUME IInv, upload_cut_short
  PROVE  IInv'
<1> USE DEF upload_cut_short, sem_post, Fails, UploadFrame
<1>1. EnvironmentType'
  BY ConstantsAssumption
  DEF IInv, TypeOK, EnvironmentType, ConstantsAssumption, RemoteFile
<1>2. ProcessType'
  BY DEF IInv, TypeOK, ProcessType, SharedInv, ThreadsInv, SemaphoreInv
<1>3. ArchiveType' /\ ScanType' /\ QueueType'
  BY DEF IInv, TypeOK, ArchiveType, ScanType, QueueType
<1>4. RemoteInv'
  BY DEF IInv, RemoteInv
<1>5. ThreadsInv' /\ SemaphoreInv'
  BY DEF IInv, TypeOK, ProcessType, SharedInv, ThreadsInv, SemaphoreInv
<1>6. SendInv'
  BY DEF IInv, SharedInv, ThreadsInv, SemaphoreInv, SendInv, AppendInv
<1>7. AppendInv'
  BY
  DEF IInv, TypeOK, ArchiveType, SharedInv, AppendInv, SendInv, SemaphoreInv
<1>8. UploadWindow' /\ TruncatedRecoverable'
  BY
  DEF IInv, SharedInv, SendInv, AppendInv, UploadWindow, TruncatedRecoverable
<1>9. OvershootByOne'
  BY DEF IInv, SharedInv, OvershootByOne
<1> QED
  BY <1>1, <1>2, <1>3, <1>4, <1>5, <1>6, <1>7, <1>8, <1>9
  DEF IInv, TypeOK, SharedInv

\* upload_file returns with an error and posts the semaphore.
LEMMA upload_error_Inv ==
  ASSUME IInv, upload_error
  PROVE  IInv'
<1> USE DEF upload_error, upload_fails, sem_post, Works, Fails, UploadFrame
<1>1. EnvironmentType'
  BY ConstantsAssumption
  DEF IInv, TypeOK, EnvironmentType, ConstantsAssumption, RemoteFile
<1>2. ProcessType'
  BY DEF IInv, TypeOK, ProcessType, SharedInv, ThreadsInv, SemaphoreInv
<1>3. ArchiveType' /\ ScanType' /\ QueueType'
  BY DEF IInv, TypeOK, ArchiveType, ScanType, QueueType
<1>4. RemoteInv'
  BY DEF IInv, RemoteInv
<1>5. ThreadsInv' /\ SemaphoreInv'
  BY DEF IInv, TypeOK, ProcessType, SharedInv, ThreadsInv, SemaphoreInv
<1>6. SendInv'
  BY DEF IInv, SharedInv, ThreadsInv, SemaphoreInv, SendInv, AppendInv
<1>7. AppendInv'
  BY
  DEF IInv, TypeOK, ArchiveType, SharedInv, AppendInv, SendInv, SemaphoreInv
<1>8. UploadWindow' /\ TruncatedRecoverable'
  BY
  DEF IInv, SharedInv, SendInv, AppendInv, UploadWindow, TruncatedRecoverable
<1>9. OvershootByOne'
  BY DEF IInv, SharedInv, OvershootByOne
<1> QED
  BY <1>1, <1>2, <1>3, <1>4, <1>5, <1>6, <1>7, <1>8, <1>9
  DEF IInv, TypeOK, SharedInv

\* The upload thread deletes the archive, possibly while append_to_zip has it
\* open.
LEMMA delete_local_file_Inv ==
  ASSUME IInv, delete_local_file
  PROVE  IInv'
<1> USE DEF delete_local_file, Works, Fails, UploadFrame
<1>1. EnvironmentType'
  BY ConstantsAssumption
  DEF IInv, TypeOK, EnvironmentType, ConstantsAssumption, RemoteFile
<1>2. ArchiveType'
  BY DEF IInv, TypeOK, ArchiveType
<1>3. ProcessType'
  BY DEF IInv, TypeOK, ProcessType
<1>4. ScanType' /\ QueueType'
  BY DEF IInv, TypeOK, ScanType, QueueType
<1>5. RemoteInv'
  BY DEF IInv, RemoteInv
<1>6. ThreadsInv' /\ SemaphoreInv'
  BY DEF IInv, TypeOK, ProcessType, SharedInv, ThreadsInv, SemaphoreInv
<1>7. SendInv'
  BY DEF IInv, SharedInv, ThreadsInv, SemaphoreInv, SendInv, AppendInv
<1>8. AppendInv'
  <2>1. zip' = zip \/ zip' = {}
    OBVIOUS
  <2>2. ZipSize(zip') <= MAX_ZIP_SIZE \/ ZipSize(zip') = ZipSize(zip)
    BY <2>1, ConstantsAssumption DEF ConstantsAssumption
  <2>3. UNCHANGED <<dl_pc, file_contents, za>>
    OBVIOUS
  <2> QED
    BY <2>1, <2>2, <2>3 DEF IInv, SharedInv, AppendInv
<1>9. UploadWindow' /\ TruncatedRecoverable'
  BY
  DEF IInv, SharedInv, SendInv, AppendInv, UploadWindow, TruncatedRecoverable
<1>10. OvershootByOne'
  BY ConstantsAssumption
  DEF ConstantsAssumption, IInv, SharedInv, OvershootByOne
<1> QED
  BY <1>1, <1>2, <1>3, <1>4, <1>5, <1>6, <1>7, <1>8, <1>9, <1>10
  DEF IInv, TypeOK, SharedInv

\* The upload thread leaves its loop.
LEMMA upload_exit_Inv ==
  ASSUME IInv, upload_exit
  PROVE  IInv'
<1> USE DEF upload_exit, UploadFrame
<1>1. ProcessType'
  BY DEF IInv, TypeOK, ProcessType
<1>2. EnvironmentType' /\ ArchiveType' /\ ScanType' /\ QueueType'
  BY
  DEF IInv, TypeOK, EnvironmentType, ArchiveType, ScanType, QueueType,
      RemoteFile
<1>3. RemoteInv'
  BY DEF IInv, RemoteInv
<1>4. ThreadsInv' /\ SemaphoreInv'
  BY DEF IInv, TypeOK, ProcessType, SharedInv, ThreadsInv, SemaphoreInv
<1>5. SendInv'
  BY DEF IInv, SharedInv, ThreadsInv, SemaphoreInv, SendInv, AppendInv
<1>6. AppendInv'
  BY
  DEF IInv, TypeOK, ArchiveType, SharedInv, AppendInv, SendInv, SemaphoreInv
<1>7. UploadWindow' /\ TruncatedRecoverable'
  BY
  DEF IInv, SharedInv, SendInv, AppendInv, UploadWindow, TruncatedRecoverable
<1>8. OvershootByOne'
  BY DEF IInv, SharedInv, OvershootByOne
<1> QED
  BY <1>1, <1>2, <1>3, <1>4, <1>5, <1>6, <1>7, <1>8
  DEF IInv, TypeOK, SharedInv

\* main starts the threads with a fresh semaphore.
LEMMA main_start_Inv ==
  ASSUME IInv, main_start
  PROVE  IInv'
<1> USE DEF main_start
<1>1. ProcessType'
  BY ConstantsAssumption
  DEF IInv, TypeOK, ProcessType, ConstantsAssumption
<1>2. EnvironmentType' /\ ArchiveType' /\ ScanType' /\ QueueType'
  BY
  DEF IInv, TypeOK, EnvironmentType, ArchiveType, ScanType, QueueType,
      RemoteFile
<1>3. RemoteInv'
  BY DEF IInv, RemoteInv
<1>4. ThreadsInv' /\ SemaphoreInv'
  BY DEF IInv, TypeOK, ProcessType, SharedInv, ThreadsInv, SemaphoreInv
<1>5. SendInv'
  BY DEF IInv, SharedInv, ThreadsInv, SemaphoreInv, SendInv, AppendInv
<1>6. AppendInv'
  BY
  DEF IInv, TypeOK, ArchiveType, SharedInv, AppendInv, SendInv, SemaphoreInv
<1>7. UploadWindow' /\ TruncatedRecoverable'
  BY
  DEF IInv, SharedInv, SendInv, AppendInv, UploadWindow, TruncatedRecoverable
<1>8. OvershootByOne'
  BY DEF IInv, SharedInv, OvershootByOne
<1> QED
  BY <1>1, <1>2, <1>3, <1>4, <1>5, <1>6, <1>7, <1>8
  DEF IInv, TypeOK, SharedInv

\* SIGINT clears running.
LEMMA signal_handler_Inv ==
  ASSUME IInv, signal_handler
  PROVE  IInv'
<1> USE DEF signal_handler
<1>1. ProcessType'
  BY DEF IInv, TypeOK, ProcessType
<1>2. EnvironmentType' /\ ArchiveType' /\ ScanType' /\ QueueType'
  BY
  DEF IInv, TypeOK, EnvironmentType, ArchiveType, ScanType, QueueType,
      RemoteFile
<1>3. RemoteInv'
  BY DEF IInv, RemoteInv
<1>4. SharedInv'
  BY ArchiveUntouched
<1> QED
  BY <1>1, <1>2, <1>3, <1>4
  DEF IInv, TypeOK, SharedInv

\* A file on RemoteHost1 is written.
LEMMA WriteFile_Inv ==
  ASSUME IInv, NEW f \in Files, WriteFile(f)
  PROVE  IInv'
<1> USE DEF WriteFile
<1>1. EnvironmentType'
  BY ConstantsAssumption
  DEF IInv, TypeOK, EnvironmentType, ConstantsAssumption, RemoteFile
<1>2. ArchiveType' /\ ProcessType' /\ ScanType' /\ QueueType'
  BY DEF IInv, TypeOK, ArchiveType, ProcessType, ScanType, QueueType
<1>3. RemoteInv'
  BY DEF IInv, TypeOK, EnvironmentType, RemoteFile, RemoteInv
<1>4. SharedInv'
  BY ArchiveUntouched
<1> QED
  BY <1>1, <1>2, <1>3, <1>4
  DEF IInv, TypeOK, SharedInv

\* A file on RemoteHost1 is removed.
LEMMA RemoveFile_Inv ==
  ASSUME IInv, NEW f \in Files, RemoveFile(f)
  PROVE  IInv'
<1> USE DEF RemoveFile
<1>1. EnvironmentType'
  BY ConstantsAssumption
  DEF IInv, TypeOK, EnvironmentType, ConstantsAssumption, RemoteFile
<1>2. ArchiveType' /\ ProcessType' /\ ScanType' /\ QueueType'
  BY DEF IInv, TypeOK, ArchiveType, ProcessType, ScanType, QueueType
<1>3. RemoteInv'
  BY DEF IInv, TypeOK, EnvironmentType, RemoteFile, RemoteInv
<1>4. SharedInv'
  BY ArchiveUntouched
<1> QED
  BY <1>1, <1>2, <1>3, <1>4
  DEF IInv, TypeOK, SharedInv

\* A second passes.
LEMMA Tick_Inv ==
  ASSUME IInv, Tick
  PROVE  IInv'
<1> USE DEF Tick
<1>1. EnvironmentType'
  BY ConstantsAssumption
  DEF IInv, TypeOK, EnvironmentType, ConstantsAssumption, RemoteFile, Seconds
<1>2. ArchiveType' /\ ProcessType' /\ ScanType' /\ QueueType'
  BY DEF IInv, TypeOK, ArchiveType, ProcessType, ScanType, QueueType
<1>3. RemoteInv'
  BY DEF IInv, RemoteInv
<1>4. SharedInv'
  BY ArchiveUntouched
<1> QED
  BY <1>1, <1>2, <1>3, <1>4
  DEF IInv, TypeOK, SharedInv

-----------------------------------------------------------------------------

\* The program starts with nothing on its disks.
LEMMA Init_Inv ==
  ASSUME Init
  PROVE  IInv
<1> USE DEF Init, NoProcess
<1>0. ArchiveType
  BY DEF ArchiveType
<1>1. EnvironmentType /\ ProcessType
  BY ConstantsAssumption
  DEF ConstantsAssumption, EnvironmentType, RemoteFile, Seconds, ProcessType
<1>2. ScanType
  BY ConstantsAssumption DEF ConstantsAssumption, ScanType, Seconds
<1>3. QueueType
  <2>1. file_history \in Seq(Files) /\ files_to_remove \in Seq(Files)
    OBVIOUS
  <2>2. pos \in Nat \ {0} /\ za \subseteq Entry
    OBVIOUS
  <2>3. zip_existed \in BOOLEAN
    OBVIOUS
  <2>4. file_contents \in Entry \cup {NoFile}
    OBVIOUS
  <2> QED
    BY <2>1, <2>2, <2>3, <2>4 DEF QueueType
<1>4. RemoteInv
  BY DEF RemoteInv
<1>5. SharedInv
  BY ConstantsAssumption
  DEF ConstantsAssumption, SharedInv, ThreadsInv, SemaphoreInv, SendInv,
      AppendInv, UploadWindow, TruncatedRecoverable, OvershootByOne
<1> QED
  BY <1>0, <1>1, <1>2, <1>3, <1>4, <1>5 DEF IInv, TypeOK

\* A step that changes nothing preserves the invariant.
LEMMA Stutter_Inv ==
  ASSUME IInv, UNCHANGED vars
  PROVE  IInv'
<1>1. TypeOK'
  BY DEF IInv, TypeOK, EnvironmentType, RemoteFile, ArchiveType, ProcessType,
         ScanType, QueueType
<1>2. RemoteInv'
  BY DEF IInv, RemoteInv
<1>3. SharedInv'
  BY ArchiveUntouched
<1> QED
  BY <1>1, <1>2, <1>3 DEF IInv

\* Every step of the program, of a crash and of the environment preserves the
\* invariant.
LEMMA Next_Inv ==
  ASSUME IInv, [Next]_vars
  PROVE  IInv'
<1>1. CASE main_start \/ signal_handler
  BY <1>1, main_start_Inv, signal_handler_Inv
<1>2. CASE main_exit \/ Kill
  <2>1. faults' \in 0..MaxFaults
    BY <1>2 DEF main_exit, Kill, Works, IInv, TypeOK, EnvironmentType
  <2> QED
    BY <1>2, <2>1, ProcessEnds_Inv DEF main_exit, Kill
<1>3. CASE download_routine
  BY <1>3, dl_connect_Inv, download_loop_Inv, download_exit_Inv, readdir_Inv,
     list_new_files_Inv, no_new_files_Inv, check_for_new_files_Inv,
     merge_history_Inv, next_file_Inv, append_sem_wait_Inv,
     append_zip_open_Inv, append_zip_close_Inv, prune_history_Inv,
     download_sleep_Inv
  DEF download_routine
<1>4. CASE upload_routine
  BY <1>4, ul_connect_Inv, upload_loop_Inv, upload_sem_wait_Inv,
     upload_open_Inv, upload_send_Inv, upload_cut_short_Inv,
     upload_error_Inv, delete_local_file_Inv, upload_exit_Inv
  DEF upload_routine
<1>5. CASE \E f \in Files : WriteFile(f) \/ RemoveFile(f)
  BY <1>5, WriteFile_Inv, RemoveFile_Inv
<1>6. CASE Tick
  BY <1>6, Tick_Inv
<1>7. CASE NotStartedAgain \/ UNCHANGED vars
  BY <1>7, Stutter_Inv DEF NotStartedAgain
<1> QED
  BY <1>1, <1>2, <1>3, <1>4, <1>5, <1>6, <1>7 DEF Next, Environment

(***************************************************************************)
(* IInv holds in every reachable state, through kills and restarts and     *)
(* whichever calls fail.                                                   *)
(***************************************************************************)
THEOREM Invariance == Spec => []IInv
<1>1. Init => IInv
  BY Init_Inv
<1>2. IInv /\ [Next]_vars => IInv'
  BY Next_Inv
<1> QED
  BY <1>1, <1>2, PTL DEF Spec

(***************************************************************************)
(* Every variable keeps its type; the semaphore is never above 1.          *)
(***************************************************************************)
THEOREM TypeCorrectness == Spec => []TypeOK
<1>1. IInv => TypeOK
  BY DEF IInv
<1> QED
  BY <1>1, Invariance, PTL

(***************************************************************************)
(* append_to_zip and upload_file exclude each other and release the        *)
(* semaphore on every path.                                                *)
(***************************************************************************)
THEOREM MutualExclusion == Spec => []SemaphoreInv
<1>1. IInv => SemaphoreInv
  BY DEF IInv, SharedInv
<1> QED
  BY <1>1, Invariance, PTL

(***************************************************************************)
(* What upload_routine is about to delete contains all that RemoteHost2    *)
(* holds, and that is a whole archive, unless upload_file has just ended   *)
(* without noticing that its read or its sftp_close failed.                *)
(***************************************************************************)
THEOREM UploadedBeforeUnlink == Spec => []UploadWindow
<1>1. IInv => UploadWindow
  BY DEF IInv, SharedInv
<1> QED
  BY <1>1, Invariance, PTL

(***************************************************************************)
(* While RemoteHost2 holds a truncated file there is a local archive that  *)
(* can replace it, whatever failed and whenever the process was killed,    *)
(* with one exception: the file is what an upload left whose read or       *)
(* sftp_close failed without upload_file noticing.                         *)
(***************************************************************************)
THEOREM TruncationRecoverable == Spec => []TruncatedRecoverable
<1>1. IInv => TruncatedRecoverable
  BY DEF IInv, SharedInv
<1> QED
  BY <1>1, Invariance, PTL

\* Only where a read or an sftp_close can fail is an upload cut short unnoticed.
CutShortInv == cut_short => Faults \cap UnnoticedInUpload # {}

\* Every step preserves this: one action sets the flag, and needs the failure.
LEMMA CutShortInv_Step ==
  ASSUME CutShortInv, [Next]_vars
  PROVE  CutShortInv'
<1>1. CASE main_start \/ main_exit \/ signal_handler
  BY <1>1 DEF main_start, main_exit, signal_handler, ProcessEnds, CutShortInv
<1>2. CASE download_routine
  BY <1>2
  DEF download_routine, dl_connect, download_loop, download_exit, readdir,
      list_new_files, no_new_files, check_for_new_files, merge_history,
      next_file, append_sem_wait, append_zip_open, append_zip_close,
      prune_history, download_sleep, DownloadFrame, ProcessEnds, CutShortInv
<1>3. CASE upload_cut_short
  BY <1>3 DEF upload_cut_short, Fails, CutShortInv
<1>4. CASE upload_routine /\ ~upload_cut_short
  BY <1>4
  DEF upload_routine, ul_connect, upload_loop, upload_sem_wait, upload_open,
      upload_send, upload_error, delete_local_file, upload_exit, CutShortInv
<1>5. CASE Environment \/ UNCHANGED vars
  BY <1>5
  DEF Environment, Kill, WriteFile, RemoveFile, Tick, NotStartedAgain,
      ProcessEnds, CutShortInv
<1> QED
  BY <1>1, <1>2, <1>3, <1>4, <1>5 DEF Next

\* So it holds in every reachable state.
LEMMA CutShortInvariance == Spec => []CutShortInv
<1>1. Init => CutShortInv
  BY DEF Init, CutShortInv
<1>2. CutShortInv /\ [Next]_vars => CutShortInv'
  BY CutShortInv_Step
<1> QED
  BY <1>1, <1>2, PTL DEF Spec

\* An archive is deleted only after it arrived whole, and a truncated file on
\* RemoteHost2 has a local archive behind it.
NothingStandsAlone ==
  /\ ul_pc = "unlink" => dest_whole /\ dest # {}
  /\ ~dest_whole => zip # {}

(***************************************************************************)
(* Where ifstream::read and sftp_close do not fail there is no exception:  *)
(* every unlink of upload_routine follows the arrival of a whole archive,  *)
(* and every truncated file on RemoteHost2 has a local archive behind it.  *)
(***************************************************************************)
THEOREM NoticedFailuresLoseNothing ==
  ASSUME Faults \cap UnnoticedInUpload = {}
  PROVE  Spec => []NothingStandsAlone
<1>1. IInv /\ CutShortInv => NothingStandsAlone
  BY DEF IInv, SharedInv, UploadWindow, TruncatedRecoverable, CutShortInv,
         NothingStandsAlone
<1> QED
  BY <1>1, Invariance, CutShortInvariance, PTL

(***************************************************************************)
(* The local archive exceeds MAX_ZIP_SIZE by one appended file at most.    *)
(***************************************************************************)
THEOREM BoundedOvershoot == Spec => []OvershootByOne
<1>1. IInv => OvershootByOne
  BY DEF IInv, SharedInv
<1> QED
  BY <1>1, Invariance, PTL

-----------------------------------------------------------------------------

\* The archive and what is recorded of it change in three actions only.
LEMMA ArchiveSteps ==
  ASSUME [Next]_vars, ~append_zip_close, ~delete_local_file
  PROVE  zip' = zip /\ archived' = archived /\ delivered \subseteq delivered'
<1>1. CASE main_start \/ main_exit \/ signal_handler
  BY <1>1 DEF main_start, main_exit, signal_handler, ProcessEnds
<1>2. CASE download_routine
  BY <1>2
  DEF download_routine, dl_connect, download_loop, download_exit, readdir,
      list_new_files, no_new_files, check_for_new_files, merge_history,
      next_file, append_sem_wait, append_zip_open, prune_history,
      download_sleep, DownloadFrame, ProcessEnds
<1>3. CASE upload_routine
  BY <1>3
  DEF upload_routine, ul_connect, upload_loop, upload_sem_wait, upload_open,
      upload_send, upload_cut_short, upload_error, upload_exit, UploadFrame
<1>4. CASE Environment
  BY <1>4
  DEF Environment, Kill, WriteFile, RemoveFile, Tick, NotStartedAgain,
      ProcessEnds
<1>5. CASE UNCHANGED vars
  BY <1>5
<1> QED
  BY <1>1, <1>2, <1>3, <1>4, <1>5 DEF Next

(***************************************************************************)
(* An archived file is lost at the unlink of upload_routine or not at all. *)
(***************************************************************************)
THEOREM NothingElseLosesFiles == Spec => LossOnlyAtUnlink
<1>1. ASSUME IInv, [Next]_vars
      PROVE  [\/ Lost' \subseteq Lost
              \/ ul_pc = "unlink" /\ ul_pc' = "loop"]_vars
  <2>1. CASE append_zip_close
    <3>1. za = zip \/ zip = {}
      BY <1>1, <2>1 DEF append_zip_close, IInv, SharedInv, AppendInv
    <3>2. zip \subseteq zip' /\ archived' \ archived \subseteq zip'
      BY <2>1, <3>1 DEF append_zip_close, zip_commit
    <3>3. delivered' = delivered
      BY <2>1 DEF append_zip_close, DownloadFrame
    <3> QED
      BY <3>2, <3>3 DEF Lost
  <2>2. CASE delete_local_file
    BY <2>2 DEF delete_local_file
  <2>3. CASE ~append_zip_close /\ ~delete_local_file
    BY <1>1, <2>3, ArchiveSteps DEF Lost
  <2> QED
    BY <2>1, <2>2, <2>3
<1> QED
  BY <1>1, Invariance, PTL DEF Spec, LossOnlyAtUnlink

\* No step changes an archive above the threshold that is not being sent.
LEMMA WedgeStep ==
  ASSUME IInv, [Next]_vars, Wedged
  PROVE  Wedged' /\ zip' = zip
<1>0. ~(ZipSize(zip) <= MAX_ZIP_SIZE)
  BY ConstantsAssumption
  DEF ConstantsAssumption, IInv, TypeOK, ArchiveType, Wedged
<1>1. ~append_zip_close
  BY <1>0 DEF append_zip_close, IInv, SharedInv, AppendInv
<1>2. ~delete_local_file
  BY DEF delete_local_file, Wedged
<1>3. zip' = zip
  BY <1>1, <1>2, ArchiveSteps
<1>4. ul_pc' \notin {"sem_wait", "open", "send", "unlink"}
  <2>1. CASE main_start \/ main_exit \/ signal_handler
    BY <2>1 DEF main_start, main_exit, signal_handler, ProcessEnds, Wedged
  <2>2. CASE download_routine
    BY <2>2
    DEF download_routine, dl_connect, download_loop, download_exit, readdir,
        list_new_files, no_new_files, check_for_new_files, merge_history,
        next_file, append_sem_wait, append_zip_open, append_zip_close,
        prune_history, download_sleep, DownloadFrame, ProcessEnds, Wedged
  <2>3. CASE upload_loop
    BY <1>0, <2>3 DEF upload_loop, get_file_size, Wedged
  <2>4. CASE upload_routine /\ ~upload_loop
    BY <2>4
    DEF upload_routine, ul_connect, upload_sem_wait, upload_open, upload_send,
        upload_cut_short, upload_error, upload_fails, delete_local_file,
        upload_exit, Wedged
  <2>5. CASE Environment
    BY <2>5
    DEF Environment, Kill, WriteFile, RemoveFile, Tick, NotStartedAgain,
        ProcessEnds, Wedged
  <2>6. CASE UNCHANGED vars
    BY <2>6 DEF Wedged
  <2> QED
    BY <2>1, <2>2, <2>3, <2>4, <2>5, <2>6 DEF Next
<1> QED
  BY <1>3, <1>4 DEF Wedged

(***************************************************************************)
(* Neither thread changes an archive above the threshold that is not       *)
(* already being sent.                                                     *)
(***************************************************************************)
THEOREM WedgeStability == Spec => WedgeStable
<1>1. IInv /\ [Next]_vars => [Wedged => Wedged' /\ zip' = zip]_vars
  BY WedgeStep
<1> QED
  BY <1>1, Invariance, PTL DEF Spec, WedgeStable

(***************************************************************************)
(* So the message "Waiting until deleted" of download_routine announces a  *)
(* wait without end: such an archive stays, restarts included.             *)
(***************************************************************************)
THEOREM WedgedForever == Spec => [](Wedged => []Wedged)
<1>1. IInv /\ Wedged /\ [Next]_vars => Wedged'
  BY WedgeStep
<1> QED
  BY <1>1, Invariance, PTL DEF Spec
==============================================================================
