--------------------------- MODULE DownloadRoutine ---------------------------
(***************************************************************************)
(* The download thread: download_routine of file-transfer.cpp with         *)
(* check_for_new_files, list_new_files, file_exists_in_zip, download_file  *)
(* and append_to_zip.                                                      *)
(***************************************************************************)
EXTENDS TransferState

\* What no step of this thread touches, apart from the end of the process.
DownloadFrame ==
    UNCHANGED <<envVars, dest, dest_whole, mainVars, ulVars, sentVars>>

(***************************************************************************)
(* The thread connects to RemoteHost1 and sets the first last_run.  On     *)
(* failure it returns and leaves "running" as it is.                       *)
(***************************************************************************)
dl_connect ==
    /\ dl_pc = "connect"
    /\ \/ /\ create_session(TRUE)
          /\ dl_pc' = "loop"
          /\ last_run' = clock
          /\ last_runs' = {clock}
       \/ /\ create_session(FALSE)
          /\ dl_pc' = "done"
          /\ UNCHANGED <<last_run, last_runs>>
    /\ UNCHANGED <<zip, running, zip_semaphore, now, scanVars, queueVars,
                   zipVars, archived, skipped>>
    /\ DownloadFrame

(***************************************************************************)
(* The head of the loop and sftp_opendir.  "now" is read before the        *)
(* directory is.                                                           *)
(***************************************************************************)
download_loop ==
    /\ dl_pc = "loop"
    /\ running
    /\ \/ /\ Works
          /\ now' = clock
          /\ unread' = Files
          /\ dl_pc' = "list"
       \/ /\ Fails("opendir")
          /\ UNCHANGED <<now, unread, dl_pc>>
    /\ UNCHANGED <<zip, running, zip_semaphore, last_run, last_runs, batch,
                   new_files, queueVars, zipVars, archived, skipped>>
    /\ DownloadFrame

download_exit ==
    /\ dl_pc = "loop"
    /\ ~running
    /\ running' = FALSE
    /\ dl_pc' = "done"
    /\ UNCHANGED <<faults, zip, zip_semaphore, runVars, scanVars, queueVars,
                   zipVars, archived, skipped>>
    /\ DownloadFrame

(***************************************************************************)
(* The server lists one more name.  It answers a request with several      *)
(* names at once, which libssh hands out one by one, so attributes may be  *)
(* old by the time list_new_files examines them.                           *)
(***************************************************************************)
readdir(f) ==
    /\ dl_pc = "list"
    /\ f \in unread
    /\ unread' = unread \ {f}
    /\ batch' = IF remote1[f].present
                THEN batch \cup {[name |-> f, ver |-> remote1[f].ver,
                                  mtime |-> remote1[f].mtime]}
                ELSE batch
    /\ UNCHANGED <<faults, zip, running, zip_semaphore, dl_pc, runVars,
                   new_files, queueVars, zipVars, archived, skipped>>
    /\ DownloadFrame

(***************************************************************************)
(* Whether the archive has an entry of this name, whatever its content.    *)
(* No semaphore is taken, and the answer is false when the archive cannot  *)
(* be opened.                                                              *)
(***************************************************************************)
file_exists_in_zip(name, result) ==
    \/ result /\ name \in Names(zip) /\ Works
    \/ ~result /\ name \notin Names(zip) /\ Works
    \/ ~result /\ name \in Names(zip) /\ Fails("probe")

\* The loop body of list_new_files.
list_new_files(a) ==
    /\ dl_pc = "list"
    /\ a \in batch
    /\ batch' = batch \ {a}
    /\ \/ /\ a.mtime <= last_run
          /\ Works
          /\ UNCHANGED <<new_files, skipped>>
       \/ /\ a.mtime > last_run
          /\ file_exists_in_zip(a.name, TRUE)
          /\ skipped' = skipped \cup {[name |-> a.name, ver |-> a.ver]}
          /\ UNCHANGED new_files
       \/ /\ a.mtime > last_run
          /\ file_exists_in_zip(a.name, FALSE)
          /\ new_files' = Append(new_files, a.name)
          /\ UNCHANGED skipped
    /\ UNCHANGED <<zip, running, zip_semaphore, dl_pc, runVars, unread,
                   queueVars, zipVars, archived>>
    /\ DownloadFrame

(***************************************************************************)
(* sftp_readdir returns NULL, at the end of the directory or on an error:  *)
(* list_new_files does not tell them apart.                                *)
(***************************************************************************)
end_of_directory ==
    /\ dl_pc = "list"
    /\ batch = {}
    /\ IF unread = {} THEN Works ELSE Fails("readdir")
    /\ unread' = {}

\* check_for_new_files returns nullopt: last_run stays, the thread sleeps.
no_new_files ==
    /\ end_of_directory
    /\ new_files = <<>>
    /\ dl_pc' = "loop"
    /\ now' = 0
    /\ UNCHANGED <<zip, running, zip_semaphore, last_run, last_runs, batch,
                   new_files, queueVars, zipVars, archived, skipped>>
    /\ DownloadFrame

\* Mutant: last_run is the time at which the scan ended.
late_last_run ==
    /\ end_of_directory
    /\ new_files # <<>>
    /\ dl_pc' = "merge"
    /\ last_run' = clock
    /\ last_runs' = last_runs \cup {clock}
    /\ UNCHANGED <<zip, running, zip_semaphore, now, batch, new_files,
                   queueVars, zipVars, archived, skipped>>
    /\ DownloadFrame

\* It returns new files: the next scan looks for what is later than "now".
check_for_new_files ==
    /\ end_of_directory
    /\ new_files # <<>>
    /\ dl_pc' = "merge"
    /\ last_run' = now
    /\ last_runs' = last_runs \cup {now}
    /\ UNCHANGED <<zip, running, zip_semaphore, now, batch, new_files,
                   queueVars, zipVars, archived, skipped>>
    /\ DownloadFrame

(***************************************************************************)
(* One iteration of the loop that adds new_files to file_history, and the  *)
(* start of the download loop after the last one.                          *)
(***************************************************************************)
merge_history ==
    /\ dl_pc = "merge"
    /\ new_files # <<>>
    /\ new_files' = Tail(new_files)
    /\ file_history' = IF Contains(file_history, Head(new_files))
                       THEN file_history
                       ELSE Append(file_history, Head(new_files))
    /\ dl_pc' = IF Tail(new_files) = <<>> THEN "next" ELSE "merge"
    /\ UNCHANGED <<faults, zip, running, zip_semaphore, runVars, unread,
                   batch, files_to_remove, pos, zipVars, archived, skipped>>
    /\ DownloadFrame

(***************************************************************************)
(* The content is what the file has now, which may be newer than what was  *)
(* listed.  A file that is gone by now cannot be downloaded.               *)
(***************************************************************************)
download_file(f, ok) ==
    IF ok
    THEN /\ remote1[f].present
         /\ Works
         /\ file_contents' = [name |-> f, ver |-> remote1[f].ver]
    ELSE /\ IF remote1[f].present THEN Fails("download") ELSE Works
         /\ UNCHANGED file_contents

(***************************************************************************)
(* One iteration of the loop over file_history up to append_to_zip.  The   *)
(* loop ends after the last file, above the size threshold and at the      *)
(* first file that cannot be downloaded.                                   *)
(***************************************************************************)
next_file ==
    /\ dl_pc = "next"
    /\ \/ /\ pos > Len(file_history) \/ get_file_size > MAX_ZIP_SIZE
          /\ Works
          /\ dl_pc' = "prune"
          /\ UNCHANGED file_contents
       \/ /\ pos <= Len(file_history)
          /\ get_file_size <= MAX_ZIP_SIZE
          /\ \/ /\ download_file(file_history[pos], TRUE)
                /\ dl_pc' = "sem_wait"
             \/ /\ download_file(file_history[pos], FALSE)
                /\ dl_pc' = "prune"
    /\ UNCHANGED <<zip, running, zip_semaphore, runVars, scanVars, queueVars,
                   zip_existed, za, archived, skipped>>
    /\ DownloadFrame

(***************************************************************************)
(* append_to_zip: sem_wait, and the stat with which zip_open starts.       *)
(***************************************************************************)
append_sem_wait ==
    /\ dl_pc = "sem_wait"
    /\ sem_wait
    /\ zip_existed' = check_file_exists
    /\ dl_pc' = "zip_open"
    /\ UNCHANGED <<faults, zip, running, runVars, scanVars, queueVars,
                   file_contents, za, archived, skipped>>
    /\ DownloadFrame

(***************************************************************************)
(* The rest of zip_open reads the archive that its stat saw.  If the file  *)
(* cannot be opened by then it returns NULL; append_to_zip passes that     *)
(* NULL to zip_strerror, which reads through it: the process dies.         *)
(***************************************************************************)
append_zip_open ==
    /\ dl_pc = "zip_open"
    /\ \/ /\ zip_existed => check_file_exists
          /\ Works
          /\ za' = zip
          /\ dl_pc' = "zip_close"
          /\ UNCHANGED <<zip, running, zip_semaphore, runVars, scanVars,
                         queueVars, file_contents, zip_existed, archived,
                         skipped>>
          /\ DownloadFrame
       \/ /\ IF zip_existed /\ ~check_file_exists
             THEN Works
             ELSE Fails("zip_open")
          /\ ProcessEnds("segv")

\* Mutant: the archive is opened with ZIP_TRUNCATE.
zip_commit_truncates(result) ==
    /\ IF result
       THEN zip' = {file_contents} /\ archived' = archived \cup {file_contents}
       ELSE UNCHANGED <<zip, archived>>
    /\ Works

(***************************************************************************)
(* What adding file_contents to the open archive za and zip_close do to    *)
(* the file: result is whether append_to_zip returns true.  A name that    *)
(* za has already makes zip_close fail (zip_file_add refuses it, and the   *)
(* encryption then set on the old entry needs a password to read it); when *)
(* zip_file_add fails for another reason nothing has changed and zip_close *)
(* succeeds.  A successful commit renames a new file holding za and the    *)
(* new entry to LOCAL_ZIP_PATH, whatever is or is not there by then.       *)
(***************************************************************************)
zip_commit(result) ==
    \/ /\ result
       /\ file_contents.name \notin Names(za)
       /\ Works
       /\ zip' = za \cup {file_contents}
       /\ archived' = archived \cup {file_contents}
    \/ /\ result
       /\ file_contents.name \notin Names(za)
       /\ Fails("add")
       /\ UNCHANGED <<zip, archived>>
    \/ /\ ~result
       /\ IF file_contents.name \in Names(za)
          THEN Works
          ELSE Fails("source") \/ Fails("zip_close")
       /\ UNCHANGED <<zip, archived>>

\* Mutant: download_routine does not look at the result of append_to_zip.
append_result_ignored ==
    /\ dl_pc = "zip_close"
    /\ sem_post
    /\ \E result \in BOOLEAN : zip_commit(result)
    /\ files_to_remove' = Append(files_to_remove, file_contents.name)
    /\ pos' = pos + 1
    /\ dl_pc' = "next"
    /\ zip_existed' = FALSE
    /\ za' = {}
    /\ UNCHANGED <<running, runVars, scanVars, file_history, file_contents,
                   skipped>>
    /\ DownloadFrame

(***************************************************************************)
(* The end of append_to_zip with its sem_post, and what download_routine   *)
(* does with the result.                                                   *)
(***************************************************************************)
append_zip_close ==
    /\ dl_pc = "zip_close"
    /\ sem_post
    /\ \/ /\ zip_commit(TRUE)
          /\ files_to_remove' = Append(files_to_remove, file_contents.name)
          /\ pos' = pos + 1
          /\ dl_pc' = "next"
       \/ /\ zip_commit(FALSE)
          /\ dl_pc' = "prune"
          /\ UNCHANGED <<files_to_remove, pos>>
    /\ zip_existed' = FALSE
    /\ za' = {}
    /\ UNCHANGED <<running, runVars, scanVars, file_history, file_contents,
                   skipped>>
    /\ DownloadFrame

\* Mutant: archived files stay in file_history.
erase_nothing(f) == UNCHANGED file_history

(***************************************************************************)
(* erase(remove(...)).  Each file of files_to_remove was read from         *)
(* file_history, where the merge lets no name in twice: it is found at one *)
(* position.                                                               *)
(***************************************************************************)
erase(f) ==
    \E k \in DOMAIN file_history :
        /\ file_history[k] = f
        /\ file_history' = RemoveAt(file_history, k)

\* One iteration of the loop that erases files_to_remove from file_history.
prune_history ==
    /\ dl_pc = "prune"
    /\ files_to_remove # <<>>
    /\ erase(Head(files_to_remove))
    /\ files_to_remove' = Tail(files_to_remove)
    /\ UNCHANGED <<faults, zip, running, zip_semaphore, dl_pc, runVars,
                   scanVars, pos, zipVars, archived, skipped>>
    /\ DownloadFrame

(***************************************************************************)
(* The end of an iteration: its local variables go out of scope, and the   *)
(* thread sleeps before it starts again.                                   *)
(***************************************************************************)
download_sleep ==
    /\ dl_pc = "prune"
    /\ files_to_remove = <<>>
    /\ pos' = 1
    /\ now' = 0
    /\ dl_pc' = "loop"
    /\ UNCHANGED <<faults, zip, running, zip_semaphore, last_run, last_runs,
                   scanVars, file_history, files_to_remove, zipVars, archived,
                   skipped>>
    /\ DownloadFrame

download_routine ==
    \/ dl_connect
    \/ download_loop
    \/ download_exit
    \/ \E f \in Files : readdir(f)
    \/ \E a \in batch : list_new_files(a)
    \/ no_new_files
    \/ check_for_new_files
    \/ merge_history
    \/ next_file
    \/ append_sem_wait
    \/ append_zip_open
    \/ append_zip_close
    \/ prune_history
    \/ download_sleep
=============================================================================
