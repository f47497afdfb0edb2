----------------------------- MODULE RelayProofs ------------------------------
(***************************************************************************)
(* FileTransfer implements ArchiveRelay for every value of the constants:  *)
(* the initial states map to initial states, and every step of the threads *)
(* and of the environment maps to one step of the relay or to none.  The   *)
(* steps are taken from states that satisfy IInv (FileTransferProofs).     *)
(***************************************************************************)
EXTENDS FileTransferMapping, FileTransferProofs

USE DEF envVars, diskVars, mainVars, dlVars, scanVars, queueVars, runVars,
        zipVars, ulVars, sentVars, histVars, vars, DLHolds, ULHolds

\* A step that changes none of the archives, and neither enters nor leaves the
\* stretches that the relay knows of, is not a step of the relay.
LEMMA RelayStutters ==
  ASSUME UNCHANGED <<zip, dest, dest_whole>>,
         UNCHANGED <<dl_pc, za>> \/ (dl_pc # "zip_close" /\ dl_pc' # "zip_close"),
         UNCHANGED ul_pc \/ (ul_pc # "unlink" /\ ul_pc' # "unlink")
  PROVE  UNCHANGED Relay!relayVars
<1>1. UNCHANGED (IF dl_pc = "zip_close" THEN {za} ELSE {})
  OBVIOUS
<1>2. UNCHANGED (ul_pc = "unlink")
  OBVIOUS
<1> QED
  BY <1>1, <1>2 DEF Relay!relayVars

\* The process ends, in whatever state: the copy and the confirmation are gone.
LEMMA ProcessEnds_Crash ==
  ASSUME NEW status, ProcessEnds(status)
  PROVE  Relay!Crash
BY DEF ProcessEnds, Relay!Crash

\* zip_open reads the archive, or the process dies in zip_strerror.
LEMMA append_zip_open_Relay ==
  ASSUME append_zip_open
  PROVE  Relay!Next
<1>1. CASE dl_pc' = "zip_close"
  <2>1. Relay!Take
    BY <1>1
    DEF append_zip_open, DownloadFrame, ProcessEnds, Relay!Take
  <2> QED
    BY <2>1 DEF Relay!Next
<1>2. CASE ProcessEnds("segv")
  BY <1>2, ProcessEnds_Crash DEF Relay!Next
<1> QED
  BY <1>1, <1>2 DEF append_zip_open

\* zip_close renames a file with the entries it read and one more, or leaves
\* the archive alone.
LEMMA append_zip_close_Relay ==
  ASSUME IInv, append_zip_close
  PROVE  Relay!Next
<1>1. dl_pc = "zip_close" /\ dl_pc' # "zip_close"
  BY DEF append_zip_close
<1>2. UNCHANGED <<dest, dest_whole, ul_pc>>
  BY DEF append_zip_close, DownloadFrame
<1>3. CASE zip' = za \cup {file_contents}
  <2>1. file_contents \in Entry /\ zip \in {za, {}}
    BY <1>1 DEF IInv, SharedInv, AppendInv
  <2>2. Relay!Commit(file_contents)
    BY <1>1, <1>2, <1>3, <2>1 DEF Relay!Commit
  <2> QED
    BY <2>1, <2>2 DEF Relay!Next
<1>4. CASE zip' = zip
  <2>1. Relay!Abandon
    BY <1>1, <1>2, <1>4 DEF Relay!Abandon
  <2> QED
    BY <2>1 DEF Relay!Next
<1> QED
  BY <1>3, <1>4 DEF append_zip_close, zip_commit

\* Every step of the download thread.
LEMMA download_routine_Relay ==
  ASSUME IInv, download_routine
  PROVE  Relay!Next \/ UNCHANGED Relay!relayVars
<1>1. CASE append_zip_open
  BY <1>1, append_zip_open_Relay
<1>2. CASE append_zip_close
  BY <1>2, append_zip_close_Relay
<1>3. CASE \/ dl_connect \/ download_loop \/ download_exit
           \/ (\E f \in Files : readdir(f))
           \/ (\E a \in batch : list_new_files(a))
  BY <1>3, RelayStutters
  DEF dl_connect, download_loop, download_exit, readdir, list_new_files,
      DownloadFrame
<1>4. CASE no_new_files \/ check_for_new_files \/ merge_history
  BY <1>4, RelayStutters
  DEF no_new_files, check_for_new_files, merge_history, end_of_directory,
      DownloadFrame
<1>5. CASE next_file \/ append_sem_wait \/ prune_history \/ download_sleep
  BY <1>5, RelayStutters
  DEF next_file, append_sem_wait, prune_history, download_sleep, DownloadFrame
<1> QED
  BY <1>1, <1>2, <1>3, <1>4, <1>5 DEF download_routine

-----------------------------------------------------------------------------
\* upload_file truncates the file on RemoteHost2 while it holds the semaphore.
LEMMA upload_open_Relay ==
  ASSUME IInv, upload_open
  PROVE  Relay!Truncate
<1>1. zip # {} /\ dl_pc # "zip_close" /\ ul_pc = "open"
  BY DEF upload_open, IInv, SharedInv, ThreadsInv, SemaphoreInv, SendInv,
         TypeOK, ProcessType
<1>2. UNCHANGED <<zip, dl_pc, za>> /\ dest' = {} /\ dest_whole' = FALSE
      /\ ul_pc' = "send"
  BY DEF upload_open, UploadFrame
<1> QED
  BY <1>1, <1>2 DEF Relay!Truncate

\* It has sent what is on the disk, still under the semaphore.
LEMMA upload_send_Relay ==
  ASSUME IInv, upload_send
  PROVE  Relay!Deliver
<1>1. ufd = zip /\ dl_pc # "zip_close" /\ ~dest_whole /\ ul_pc = "send"
  BY DEF upload_send, IInv, SharedInv, ThreadsInv, SemaphoreInv, SendInv,
         TypeOK, ProcessType
<1>2. UNCHANGED <<zip, dl_pc, za>> /\ dest' = ufd /\ dest_whole' = TRUE
      /\ ul_pc' = "unlink"
  BY DEF upload_send, UploadFrame
<1> QED
  BY <1>1, <1>2 DEF Relay!Deliver

\* It has not sent all of it, and does not know.
LEMMA upload_cut_short_Relay ==
  ASSUME IInv, upload_cut_short
  PROVE  Relay!Mistake
<1>1. Faults \cap UnnoticedInUpload # {}
  BY DEF upload_cut_short, Fails
<1>2. zip # {} /\ dl_pc # "zip_close" /\ ~dest_whole /\ ul_pc = "send"
  BY DEF upload_cut_short, IInv, SharedInv, ThreadsInv, SemaphoreInv, SendInv,
         TypeOK, ProcessType
<1>3. UNCHANGED <<zip, dl_pc, za, dest, dest_whole>> /\ ul_pc' = "unlink"
  BY DEF upload_cut_short, UploadFrame
<1> QED
  BY <1>1, <1>2, <1>3 DEF Relay!Mistake

\* unlink after the semaphore was posted: a commit may be under way, or may
\* have added entries, but all that RemoteHost2 has is there.
LEMMA delete_local_file_Relay ==
  ASSUME IInv, CutShortInv, delete_local_file
  PROVE  Relay!Remove \/ Relay!Keep
<1>1. ul_pc = "unlink" /\ ul_pc' = "loop"
  BY DEF delete_local_file
<1>2. UNCHANGED <<dest, dest_whole, dl_pc, za>>
  BY DEF delete_local_file, UploadFrame
<1>3. /\ dest \subseteq zip
      /\ dest_whole \/ Faults \cap UnnoticedInUpload # {}
  BY <1>1 DEF IInv, SharedInv, UploadWindow, CutShortInv
<1>4. zip' = {} \/ zip' = zip
  BY DEF delete_local_file
<1> QED
  BY <1>1, <1>2, <1>3, <1>4 DEF Relay!Remove, Relay!Keep

\* Every step of the upload thread.
LEMMA upload_routine_Relay ==
  ASSUME IInv, CutShortInv, upload_routine
  PROVE  Relay!Next \/ UNCHANGED Relay!relayVars
<1>1. CASE upload_open \/ upload_send \/ upload_cut_short \/ delete_local_file
  BY <1>1, upload_open_Relay, upload_send_Relay, upload_cut_short_Relay,
     delete_local_file_Relay
  DEF Relay!Next
<1>2. CASE \/ ul_connect \/ upload_loop \/ upload_sem_wait \/ upload_error
           \/ upload_exit
  BY <1>2, RelayStutters
  DEF ul_connect, upload_loop, upload_sem_wait, upload_error, upload_fails,
      upload_exit, UploadFrame
<1> QED
  BY <1>1, <1>2 DEF upload_routine

(***************************************************************************)
(* The program implements the abstract relay: an append commits against    *)
(* the archive it opened or against none, upload_file delivers exactly the *)
(* archive on the disk while no append is under way, and delete_local_file *)
(* removes an archive that holds all of what RemoteHost2 has, whatever     *)
(* fails, whenever the process dies and however often it is restarted.     *)
(* What RemoteHost2 has then is a whole archive, unless ifstream::read or  *)
(* sftp_close can fail: then the relay has its step Mistake as well.       *)
(***************************************************************************)
THEOREM RelayImplemented == Spec => ImplementsRelay
<1>1. Init => Relay!Init
  BY DEF Init, NoProcess, Relay!Init
<1>2. IInv /\ CutShortInv /\ [Next]_vars => [Relay!Next]_(Relay!relayVars)
  <2> SUFFICES ASSUME IInv, CutShortInv, [Next]_vars
               PROVE  Relay!Next \/ UNCHANGED Relay!relayVars
    OBVIOUS
  <2>1. CASE main_start \/ signal_handler
    BY <2>1, RelayStutters
    DEF main_start, signal_handler, IInv, SharedInv, ThreadsInv
  <2>2. CASE main_exit \/ Kill
    BY <2>2, ProcessEnds_Crash DEF main_exit, Kill, Relay!Next
  <2>3. CASE download_routine
    BY <2>3, download_routine_Relay
  <2>4. CASE upload_routine
    BY <2>4, upload_routine_Relay
  <2>5. CASE \/ (\E f \in Files : WriteFile(f) \/ RemoveFile(f)) \/ Tick
             \/ NotStartedAgain \/ UNCHANGED vars
    BY <2>5, RelayStutters DEF WriteFile, RemoveFile, Tick, NotStartedAgain
  <2> QED
    BY <2>1, <2>2, <2>3, <2>4, <2>5 DEF Next, Environment
<1> QED
  BY <1>1, <1>2, Invariance, CutShortInvariance, PTL
  DEF Spec, ImplementsRelay, Relay!Spec
==============================================================================
