---------------------------- MODULE UploadRoutine ----------------------------
(***************************************************************************)
(* The upload thread: upload_routine and upload_file of file-transfer.cpp. *)
(***************************************************************************)
EXTENDS TransferState

\* What no step of this thread touches.
UploadFrame ==
    UNCHANGED <<envVars, mainVars, dlVars, archived, skipped>>

(***************************************************************************)
(* The thread connects to RemoteHost2.  On failure it returns and leaves   *)
(* "running" as it is.                                                     *)
(***************************************************************************)
ul_connect ==
    /\ ul_pc = "connect"
    /\ \/ create_session(TRUE) /\ ul_pc' = "loop"
       \/ create_session(FALSE) /\ ul_pc' = "done"
    /\ UNCHANGED <<diskVars, running, zip_semaphore, ufd, sentVars>>
    /\ UploadFrame

\* Mutant: no size test before an upload.
upload_loop_any_size ==
    /\ ul_pc = "loop"
    /\ running
    /\ ul_pc' = IF check_file_exists THEN "sem_wait" ELSE "loop"
    /\ UNCHANGED <<faults, diskVars, running, zip_semaphore, ufd, sentVars>>
    /\ UploadFrame

(***************************************************************************)
(* The head of the loop and the test before an upload.  Both stats are     *)
(* made without the semaphore; only this thread removes the archive, so a  *)
(* file that the first stat finds is there for the second.                 *)
(***************************************************************************)
upload_loop ==
    /\ ul_pc = "loop"
    /\ running
    /\ ul_pc' = IF check_file_exists /\ get_file_size <= MAX_ZIP_SIZE
                THEN "sem_wait"
                ELSE "loop"
    /\ UNCHANGED <<faults, diskVars, running, zip_semaphore, ufd, sentVars>>
    /\ UploadFrame

\* upload_file, its first line.
upload_sem_wait ==
    /\ ul_pc = "sem_wait"
    /\ sem_wait
    /\ ul_pc' = "open"
    /\ UNCHANGED <<faults, diskVars, running, ufd, sentVars>>
    /\ UploadFrame

(***************************************************************************)
(* Both files are opened; O_TRUNC empties what RemoteHost2 had.            *)
(***************************************************************************)
upload_open ==
    /\ ul_pc = "open"
    /\ check_file_exists
    /\ Works
    /\ ufd' = zip
    /\ dest' = {}
    /\ dest_whole' = FALSE
    /\ cut_short' = FALSE
    /\ ul_pc' = "send"
    /\ UNCHANGED <<zip, zip_semaphore, running, delivered>>
    /\ UploadFrame

(***************************************************************************)
(* The copy loop has written the whole archive; sftp_close and sem_post.   *)
(***************************************************************************)
upload_send ==
    /\ ul_pc = "send"
    /\ Works
    /\ dest' = ufd
    /\ dest_whole' = TRUE
    /\ delivered' = delivered \cup ufd
    /\ sem_post
    /\ ufd' = {}
    /\ ul_pc' = "unlink"
    /\ UNCHANGED <<zip, running, cut_short>>
    /\ UploadFrame

(***************************************************************************)
(* The copy loop or the close after it has failed and upload_file does not *)
(* see it: ifstream::read gives nothing, as at the end of the file, or the *)
(* result of sftp_close is dropped.  The file on RemoteHost2 stays         *)
(* truncated, the function returns true, and upload_routine goes on to     *)
(* delete the archive.                                                     *)
(***************************************************************************)
upload_cut_short ==
    /\ ul_pc = "send"
    /\ \E call \in UnnoticedInUpload : Fails(call)
    /\ cut_short' = TRUE
    /\ sem_post
    /\ ufd' = {}
    /\ ul_pc' = "unlink"
    /\ UNCHANGED <<diskVars, running, delivered>>
    /\ UploadFrame

(***************************************************************************)
(* The three error returns of upload_file: either file cannot be opened,   *)
(* or an sftp_write fails and leaves a truncated file on RemoteHost2.      *)
(***************************************************************************)
upload_fails ==
    \/ /\ ul_pc = "open"
       /\ IF check_file_exists
          THEN Fails("ifstream") \/ Fails("sftp_open")
          ELSE Works
    \/ /\ ul_pc = "send"
       /\ Fails("sftp_write")

\* Mutant: an error return that forgets sem_post.
upload_error_keeps_semaphore ==
    /\ upload_fails
    /\ ufd' = {}
    /\ ul_pc' = "break"
    /\ UNCHANGED <<diskVars, running, zip_semaphore, sentVars>>
    /\ UploadFrame

\* Mutant: upload_routine does not look at the result of upload_file.
upload_error_unnoticed ==
    /\ upload_fails
    /\ sem_post
    /\ ufd' = {}
    /\ ul_pc' = "unlink"
    /\ UNCHANGED <<diskVars, running, sentVars>>
    /\ UploadFrame

upload_error ==
    /\ upload_fails
    /\ sem_post
    /\ ufd' = {}
    /\ ul_pc' = "break"
    /\ UNCHANGED <<diskVars, running, sentVars>>
    /\ UploadFrame

\* Mutant: the archive is not deleted after an upload.
archive_kept ==
    /\ ul_pc = "unlink"
    /\ ul_pc' = "loop"
    /\ UNCHANGED <<faults, diskVars, running, zip_semaphore, ufd, sentVars>>
    /\ UploadFrame

(***************************************************************************)
(* delete_local_file after upload_file has returned true.  The semaphore   *)
(* has been posted; the result of unlink is ignored.                       *)
(***************************************************************************)
delete_local_file ==
    /\ ul_pc = "unlink"
    /\ \/ Works /\ zip' = {}
       \/ Fails("unlink") /\ UNCHANGED zip
    /\ ul_pc' = "loop"
    /\ UNCHANGED <<dest, dest_whole, running, zip_semaphore, ufd, sentVars>>
    /\ UploadFrame

(***************************************************************************)
(* The end of the thread, after the loop is left because "running" is      *)
(* false or through the break after a failed upload.                       *)
(***************************************************************************)
upload_exit ==
    /\ \/ ul_pc = "loop" /\ ~running
       \/ ul_pc = "break"
    /\ running' = FALSE
    /\ ul_pc' = "done"
    /\ UNCHANGED <<faults, diskVars, zip_semaphore, ufd, sentVars>>
    /\ UploadFrame

upload_routine ==
    \/ ul_connect
    \/ upload_loop
    \/ upload_sem_wait
    \/ upload_open
    \/ upload_send
    \/ upload_cut_short
    \/ upload_error
    \/ delete_local_file
    \/ upload_exit
=============================================================================
