---------------------------- MODULE TransferState ----------------------------
(***************************************************************************)
(* The state of the file-transfer program (file-transfer.cpp): what the    *)
(* process keeps in memory, what it leaves on disks, and the environment   *)
(* it talks to.  The two worker threads are in DownloadRoutine and         *)
(* UploadRoutine; FileTransfer composes them with main.                    *)
(*                                                                         *)
(* RemoteHost1 holds a directory of files that other programs write.  The  *)
(* download thread copies new ones into one ZIP archive on the local disk; *)
(* the upload thread copies that archive to a fixed path on RemoteHost2    *)
(* and unlinks it.  The threads share the archive, a semaphore around it   *)
(* and the flag "running".                                                 *)
(***************************************************************************)
EXTENDS Integers, FiniteSets, SequencesExt

CONSTANTS
    Files,          \* names of the regular files in REMOTE1_COLLECT_DIR
    ZipSize(_),     \* size in bytes of an archive with these entries
    MAX_ZIP_SIZE,   \* threshold above which the archive is left alone
    Faults,         \* library calls that may fail in this instance
    MaxChanges,     \* bound: writes and removals on RemoteHost1
    MaxClock,       \* bound: seconds that pass
    MaxFaults,      \* bound: failed calls in one behaviour
    MaxStarts       \* bound: times the program is started

(***************************************************************************)
(* The content of a file is abstracted to the number of the write that     *)
(* produced it; an archive entry is a name with such a version.            *)
(***************************************************************************)
Versions == 1..MaxChanges
Seconds  == 0..MaxClock
Entry    == [name : Files, ver : Versions]
Names(z) == {e.name : e \in z}

(***************************************************************************)
(* The calls whose failure the code meets.  "probe" is the zip_open of     *)
(* file_exists_in_zip; "add" is zip_file_add, whose return value           *)
(* append_to_zip ignores.  "read" is the ifstream::read of upload_file,    *)
(* which ends the copy loop when it fails just as the end of the file      *)
(* does; the result of "sftp_close", after that loop, is ignored.          *)
(***************************************************************************)
UnnoticedInUpload == {"read", "sftp_close"}

FaultKinds == {"connect", "opendir", "readdir", "probe", "download",
               "zip_open", "source", "add", "zip_close",
               "ifstream", "sftp_open", "sftp_write", "unlink"}
              \cup UnnoticedInUpload

ASSUME ConstantsAssumption ==
    /\ MAX_ZIP_SIZE \in Nat
    /\ MaxChanges \in Nat
    /\ MaxClock \in Nat
    /\ MaxFaults \in Nat
    /\ MaxStarts \in Nat
    /\ Faults \subseteq FaultKinds
    /\ \A z \in SUBSET Entry : ZipSize(z) \in Nat
    /\ ZipSize({}) = 0

VARIABLES
    (* Environment *)
    clock,           \* seconds, the granularity of time_t and mtime
    remote1,         \* REMOTE1_COLLECT_DIR: per name, what is there now
    changes,         \* writes and removals there so far
    faults,          \* failed calls so far
    (* Disks *)
    zip,             \* entries of LOCAL_ZIP_PATH, {} when there is no file
    dest,            \* entries readable at REMOTE2_DEST_PATH
    dest_whole,      \* FALSE while that file is a truncated archive
    (* Process *)
    main_pc,         \* "off": no process; "join": main waits for its threads
    starts,          \* times main was entered
    exit_status,     \* how the last process ended
    running,         \* the global flag
    zip_semaphore,   \* value of the semaphore (0 without a process)
    (* Download thread: its program point, then its local variables *)
    dl_pc, last_run, now,
    unread,          \* names the server has not listed yet in this scan
    batch,           \* attributes received from the server, not yet examined
    new_files, file_history, files_to_remove,
    pos,             \* position of the loop over file_history
    file_contents,
    zip_existed,     \* what the stat inside zip_open saw
    za,              \* entries of the archive append_to_zip has open
    (* Upload thread *)
    ul_pc,
    ufd,             \* entries of the archive that upload_file has open
    (* History variables, read by properties only *)
    archived,        \* entries some zip_close has written to the archive
    delivered,       \* entries of every archive that arrived whole
    cut_short,       \* upload_file took the truncated file there for a whole one
    skipped,         \* entries passed over because the name is in the archive
    last_runs        \* the values last_run has had in this process

diskVars  == <<zip, dest, dest_whole>>
mainVars  == <<main_pc, starts, exit_status>>
scanVars  == <<unread, batch, new_files>>
queueVars == <<file_history, files_to_remove, pos>>
runVars   == <<last_run, now, last_runs>>
zipVars   == <<file_contents, zip_existed, za>>
dlVars    == <<dl_pc, runVars, scanVars, queueVars, zipVars>>
ulVars    == <<ul_pc, ufd>>
sentVars  == <<delivered, cut_short>>
histVars  == <<archived, sentVars, skipped>>
envVars   == <<clock, remote1, changes>>
vars      == <<envVars, faults, diskVars, mainVars, running, zip_semaphore,
               dlVars, ulVars, histVars>>

(***************************************************************************)
(* Program points.  A thread that sleeps is at "loop": the length of a     *)
(* sleep only decides when the next iteration happens.                     *)
(***************************************************************************)
DLStates == {"off", "connect", "loop", "list", "merge", "next", "sem_wait",
             "zip_open", "zip_close", "prune", "done"}
ULStates == {"off", "connect", "loop", "sem_wait", "open", "send", "unlink",
             "break", "done"}

\* Program points at which a thread holds zip_semaphore.
DLHolds == {"zip_open", "zip_close"}
ULHolds == {"open", "send"}

(***************************************************************************)
(* A call that is allowed to fail does so at the cost of one fault.        *)
(***************************************************************************)
Fails(call) ==
    /\ call \in Faults
    /\ faults < MaxFaults
    /\ faults' = faults + 1

Works == UNCHANGED faults

(***************************************************************************)
(* create_ssh_session (connect, key, authentication) and then              *)
(* create_sftp_session.  Each gives back what it holds when a call fails,  *)
(* and the thread ends; none of it touches the state the threads share.    *)
(***************************************************************************)
create_session(ok) ==
    IF ok THEN Works ELSE Fails("connect")

\* Mutant: stat fails for an archive that exists.
get_file_size_fails == 0

(***************************************************************************)
(* libzip never leaves an archive without entries, so "no entries" and     *)
(* "no file" are one state, of size 0 as get_file_size has it.             *)
(***************************************************************************)
get_file_size == ZipSize(zip)

check_file_exists == zip # {}

\* Mutant: the semaphore is not waited for.
sem_wait_missing == UNCHANGED zip_semaphore

sem_wait ==
    /\ zip_semaphore > 0
    /\ zip_semaphore' = zip_semaphore - 1

sem_post == zip_semaphore' = zip_semaphore + 1

\* The pair file_contents before the first download.
NoFile == [name |-> "none", ver |-> 0]

\* The values of the program's variables when there is no process.
NoProcess ==
    /\ main_pc = "off"
    /\ running = TRUE
    /\ zip_semaphore = 0
    /\ dl_pc = "off"
    /\ last_run = 0 /\ now = 0 /\ last_runs = {}
    /\ unread = {} /\ batch = {} /\ new_files = <<>>
    /\ file_history = <<>> /\ files_to_remove = <<>> /\ pos = 1
    /\ file_contents = NoFile /\ zip_existed = FALSE /\ za = {}
    /\ ul_pc = "off" /\ ufd = {}

(***************************************************************************)
(* The process is gone: everything it held in memory is lost, the disks    *)
(* stay as they are.  A half-written temporary file of zip_close is never  *)
(* looked at again.                                                        *)
(***************************************************************************)
ProcessEnds(status) ==
    /\ exit_status' = status
    /\ main_pc' = "off"
    /\ running' = TRUE
    /\ zip_semaphore' = 0
    /\ dl_pc' = "off"
    /\ last_run' = 0 /\ now' = 0 /\ last_runs' = {}
    /\ unread' = {} /\ batch' = {} /\ new_files' = <<>>
    /\ file_history' = <<>> /\ files_to_remove' = <<>> /\ pos' = 1
    /\ file_contents' = NoFile /\ zip_existed' = FALSE /\ za' = {}
    /\ ul_pc' = "off" /\ ufd' = {}
    /\ UNCHANGED <<starts, envVars, diskVars, histVars>>
=============================================================================
