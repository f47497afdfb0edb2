---------------------------- MODULE FileTransfer -----------------------------
(***************************************************************************)
(* The whole program: main with its two threads (DownloadRoutine and       *)
(* UploadRoutine), the SIGINT handler, and the environment, that is, the   *)
(* programs that write files on RemoteHost1, the clock, and a kill of the  *)
(* process at any point.  (That the machine stops is not modelled: what    *)
(* reaches the disk then is up to the file system.)                        *)
(***************************************************************************)
EXTENDS DownloadRoutine, UploadRoutine

Init ==
    /\ clock = 0
    /\ remote1 = [f \in Files |-> [ver |-> 0, mtime |-> 0, present |-> FALSE]]
    /\ changes = 0
    /\ faults = 0
    /\ zip = {}
    /\ dest = {}
    /\ dest_whole = TRUE
    /\ starts = 0
    /\ exit_status = "none"
    /\ NoProcess
    /\ archived = {}
    /\ delivered = {}
    /\ cut_short = FALSE
    /\ skipped = {}

-----------------------------------------------------------------------------
(* main *)

\* sem_init and the creation of the two threads.
main_start ==
    /\ main_pc = "off"
    /\ starts < MaxStarts
    /\ starts' = starts + 1
    /\ main_pc' = "join"
    /\ exit_status' = "none"
    /\ zip_semaphore' = 1
    /\ dl_pc' = "connect"
    /\ ul_pc' = "connect"
    /\ UNCHANGED <<envVars, faults, diskVars, running, runVars, scanVars,
                   queueVars, zipVars, ufd, histVars>>

\* Both joins have returned: sem_destroy and return 0.
main_exit ==
    /\ main_pc = "join"
    /\ dl_pc = "done"
    /\ ul_pc = "done"
    /\ Works
    /\ ProcessEnds("clean")

\* SIGINT.  The threads see the flag at the head of their loops.
signal_handler ==
    /\ main_pc = "join"
    /\ running
    /\ running' = FALSE
    /\ UNCHANGED <<envVars, faults, diskVars, mainVars, zip_semaphore, dlVars,
                   ulVars, histVars>>

-----------------------------------------------------------------------------
(* The environment *)

\* The process is killed; the system goes on, and so do its disks.
Kill ==
    /\ main_pc = "join"
    /\ Works
    /\ ProcessEnds("killed")

\* Some program creates or rewrites a file on RemoteHost1.
WriteFile(f) ==
    /\ changes < MaxChanges
    /\ changes' = changes + 1
    /\ remote1' = [remote1 EXCEPT ![f] = [ver |-> @.ver + 1, mtime |-> clock,
                                          present |-> TRUE]]
    /\ UNCHANGED <<clock, faults, diskVars, mainVars, running, zip_semaphore,
                   dlVars, ulVars, histVars>>

\* Some program removes a file on RemoteHost1.
RemoveFile(f) ==
    /\ changes < MaxChanges
    /\ changes' = changes + 1
    /\ remote1[f].present
    /\ remote1' = [remote1 EXCEPT ![f] = [ver |-> @.ver, mtime |-> @.mtime,
                                          present |-> FALSE]]
    /\ UNCHANGED <<clock, faults, diskVars, mainVars, running, zip_semaphore,
                   dlVars, ulVars, histVars>>

Tick ==
    /\ clock < MaxClock
    /\ clock' = clock + 1
    /\ UNCHANGED <<remote1, changes, faults, diskVars, mainVars, running,
                   zip_semaphore, dlVars, ulVars, histVars>>

\* The program has been started as often as the bound allows.
NotStartedAgain ==
    /\ main_pc = "off"
    /\ starts = MaxStarts
    /\ UNCHANGED vars

Environment ==
    \/ Kill
    \/ \E f \in Files : WriteFile(f) \/ RemoveFile(f)
    \/ Tick
    \/ NotStartedAgain

Next ==
    \/ main_start
    \/ main_exit
    \/ signal_handler
    \/ download_routine
    \/ upload_routine
    \/ Environment

Spec == Init /\ [][Next]_vars

(***************************************************************************)
(* Every library call returns and every runnable thread is scheduled.      *)
(* Nothing is assumed of the environment, of SIGINT or of a restart.       *)
(***************************************************************************)
Fairness ==
    /\ WF_vars(main_exit)
    /\ WF_vars(download_routine)
    /\ WF_vars(upload_routine)

FairSpec == Spec /\ Fairness

-----------------------------------------------------------------------------
(* Properties *)

Attributes == [name : Files, ver : Versions, mtime : Seconds]
RemoteFile == [ver : 0..changes, mtime : Seconds, present : BOOLEAN]

EnvironmentType ==
    /\ clock \in Seconds
    /\ changes \in 0..MaxChanges
    /\ remote1 \in [Files -> RemoteFile]
    /\ faults \in 0..MaxFaults

ArchiveType ==
    /\ zip \subseteq Entry
    /\ dest \subseteq Entry
    /\ dest_whole \in BOOLEAN
    /\ archived \subseteq Entry
    /\ delivered \subseteq Entry
    /\ cut_short \in BOOLEAN
    /\ skipped \subseteq Entry

ProcessType ==
    /\ main_pc \in {"off", "join"}
    /\ starts \in 0..MaxStarts
    /\ exit_status \in {"none", "clean", "killed", "segv"}
    /\ running \in BOOLEAN
    /\ zip_semaphore \in {0, 1}
    /\ dl_pc \in DLStates
    /\ ul_pc \in ULStates
    /\ ufd \subseteq Entry

ScanType ==
    /\ last_run \in Seconds
    /\ now \in Seconds
    /\ last_runs \subseteq Seconds
    /\ unread \subseteq Files
    /\ batch \subseteq Attributes
    /\ new_files \in Seq(Files)

QueueType ==
    /\ file_history \in Seq(Files)
    /\ files_to_remove \in Seq(Files)
    /\ pos \in Nat \ {0}
    /\ file_contents \in Entry \cup {NoFile}
    /\ zip_existed \in BOOLEAN
    /\ za \subseteq Entry

\* The values that every variable of the program can take: in particular the
\* semaphore is never posted above 1.
TypeOK ==
    /\ EnvironmentType
    /\ ArchiveType
    /\ ProcessType
    /\ ScanType
    /\ QueueType

(***************************************************************************)
(* zip_semaphore is released on every path of append_to_zip and            *)
(* upload_file and never twice: while the process lives, either it is free *)
(* or exactly one thread is between its sem_wait and its sem_post.         *)
(***************************************************************************)
SemaphoreInv ==
    main_pc = "join" =>
        /\ ~(dl_pc \in DLHolds /\ ul_pc \in ULHolds)
        /\ zip_semaphore = IF dl_pc \in DLHolds \/ ul_pc \in ULHolds
                           THEN 0
                           ELSE 1

(***************************************************************************)
(* When upload_routine is about to delete the local archive, RemoteHost2   *)
(* holds a complete archive, and every entry of it is still among those    *)
(* about to be deleted: whatever the download thread did since sem_post,   *)
(* it only added.  The one exception is an upload that upload_file         *)
(* completed although its read or its sftp_close had failed.               *)
(***************************************************************************)
UploadWindow ==
    ul_pc = "unlink" =>
        /\ dest \subseteq zip
        /\ (dest_whole /\ dest # {}) \/ cut_short

(***************************************************************************)
(* A truncated file on RemoteHost2 (a failed upload, a process killed in   *)
(* upload_file) does not stand alone: the archive it came from still       *)
(* exists locally, so that another upload can replace it.  Only an upload  *)
(* whose failing read or sftp_close upload_file did not notice leaves a    *)
(* truncated file and nothing else, until the next upload begins.          *)
(***************************************************************************)
TruncatedRecoverable ==
    ~dest_whole => zip # {} \/ cut_short

(***************************************************************************)
(* The threshold of download_routine is tested before a file of unknown    *)
(* size is appended: the archive exceeds MAX_ZIP_SIZE by one file at most, *)
(* also when the upload thread deletes it between that test and the        *)
(* commit.                                                                 *)
(***************************************************************************)
OvershootByOne ==
    ZipSize(zip) > MAX_ZIP_SIZE =>
        \E e \in zip : ZipSize(zip \ {e}) <= MAX_ZIP_SIZE

(***************************************************************************)
(* append_to_zip never meets its own file name in the archive: the names   *)
(* found by list_new_files are still absent when their turn comes, in      *)
(* later iterations too, and file_history holds no name twice.             *)
(***************************************************************************)
AppendIsFresh ==
    /\ dl_pc = "zip_close" => file_contents.name \notin Names(za)
    /\ IsInjective(file_history)

(***************************************************************************)
(* What is present on RemoteHost1 and was written after the thread         *)
(* connected and before its last successful scan began is waiting in       *)
(* file_history, has been archived in this version, or was passed over     *)
(* because the archive had the name.  Only a file written in the very      *)
(* second in which such a scan began can be overlooked.                    *)
(***************************************************************************)
NotForgotten ==
    \A f \in Files :
        LET r == remote1[f]
            e == [name |-> f, ver |-> r.ver]
        IN  /\ r.present
            /\ r.mtime < last_run
            /\ r.mtime \notin last_runs
            /\ \E s \in last_runs : s < r.mtime
            => \/ Contains(file_history, f)
               \/ Contains(new_files, f)
               \/ e \in archived \cup skipped

(***************************************************************************)
(* Nothing that append_to_zip has put into the archive is lost, by a       *)
(* failed call, a kill or a commit that overlaps the deletion, other than  *)
(* by the upload thread's unlink itself.                                   *)
(***************************************************************************)
Lost == archived \ (zip \cup delivered)

LossOnlyAtUnlink ==
    [][Lost' \subseteq Lost \/ (ul_pc = "unlink" /\ ul_pc' = "loop")]_vars

(***************************************************************************)
(* An archive above the threshold that the upload thread is not already    *)
(* sending stays as it is: neither thread changes it any more, nor does a  *)
(* restart.                                                                *)
(***************************************************************************)
Wedged ==
    /\ ZipSize(zip) > MAX_ZIP_SIZE
    /\ ul_pc \notin {"sem_wait", "open", "send", "unlink"}

WedgeStable ==
    [][Wedged => Wedged' /\ zip' = zip]_vars

(***************************************************************************)
(* Once "running" is false (SIGINT, a failed upload) the process ends: no  *)
(* thread waits for the semaphore forever.                                 *)
(***************************************************************************)
Shutdown ==
    (main_pc = "join" /\ ~running) ~> (main_pc = "off")

(***************************************************************************)
(* A local archive is deleted in the end, unless it has grown above the    *)
(* threshold or there is no upload thread to send it.                      *)
(***************************************************************************)
ArchiveDrains ==
    (zip # {}) ~> \/ zip = {}
                  \/ ZipSize(zip) > MAX_ZIP_SIZE
                  \/ ~running
                  \/ ul_pc \in {"off", "done"}

-----------------------------------------------------------------------------
(* The inductive invariant behind the safety properties *)

\* Threads exist exactly while main waits for them.
ThreadsInv ==
    /\ main_pc = "off" <=> dl_pc = "off"
    /\ main_pc = "off" <=> ul_pc = "off"

\* From its test to its unlink, the upload thread has an archive to send, and
\* what it reads is what is on the disk.  What it sends to is truncated.
SendInv ==
    /\ ul_pc \in {"sem_wait", "open", "send", "unlink"} => zip # {}
    /\ ul_pc = "send" => ufd = zip /\ ~dest_whole /\ dest = {}

\* From its test of the size to its commit, the download thread has a file to
\* append and an archive below the threshold; while it holds the archive open
\* that archive can only have been deleted.
AppendInv ==
    /\ dl_pc \in {"sem_wait", "zip_open", "zip_close"} =>
           file_contents \in Entry /\ ZipSize(zip) <= MAX_ZIP_SIZE
    /\ dl_pc = "zip_close" =>
           ZipSize(za) <= MAX_ZIP_SIZE /\ (za = zip \/ zip = {})

\* A file that can be listed or downloaded has been written.
RemoteInv == \A f \in Files : remote1[f].present => remote1[f].ver >= 1

(***************************************************************************)
(* What the threads rely on when they touch the archive, together: every   *)
(* step preserves the conjunction.                                         *)
(***************************************************************************)
SharedInv ==
    /\ ThreadsInv
    /\ SemaphoreInv
    /\ SendInv
    /\ AppendInv
    /\ UploadWindow
    /\ TruncatedRecoverable
    /\ OvershootByOne

IInv == TypeOK /\ RemoteInv /\ SharedInv

-----------------------------------------------------------------------------
(* The inductive invariants behind AppendIsFresh and NotForgotten *)

\* Files that were found and are still to be appended.
Pending ==
    {file_history[k] : k \in Len(files_to_remove) + 1 .. Len(file_history)}

AppendStates == {"sem_wait", "zip_open", "zip_close"}

(***************************************************************************)
(* files_to_remove holds the files appended in this iteration, which are   *)
(* the first of file_history; pos is the next one.                         *)
(***************************************************************************)
HistoryInv ==
    /\ IsInjective(file_history)
    /\ Len(files_to_remove) <= Len(file_history)
    /\ \A k \in 1..Len(files_to_remove) : files_to_remove[k] = file_history[k]
    /\ dl_pc \in AppendStates \cup {"next"} => pos = Len(files_to_remove) + 1
    /\ dl_pc \notin AppendStates \cup {"next", "prune"} =>
           files_to_remove = <<>> /\ pos = 1
    /\ dl_pc \in AppendStates =>
           pos <= Len(file_history) /\ file_contents.name = file_history[pos]

\* What is found or waits is not in the archive, as long as file_exists_in_zip
\* can always read it.
FreshInv ==
    /\ \A f \in Pending : f \notin Names(zip) /\ f \notin Names(za)
    /\ \A k \in 1..Len(new_files) : new_files[k] \notin Names(zip)
    /\ dl_pc \notin {"list", "merge"} => new_files = <<>>
    /\ dl_pc # "zip_close" => za = {}

\* Files and scans carry times of the past; last_run is the latest scan.
ClockInv ==
    /\ last_run <= clock
    /\ \A s \in last_runs : s <= last_run
    /\ last_runs # {} => last_run \in last_runs
    /\ \A f \in Files : remote1[f].mtime <= clock
    /\ dl_pc = "list" => last_run <= now /\ now <= clock

Current(f) == [name |-> f, ver |-> remote1[f].ver]

\* Written after the thread connected and before the last scan, in no second
\* in which a scan began.
Due(f) ==
    /\ remote1[f].present
    /\ remote1[f].mtime < last_run
    /\ remote1[f].mtime \notin last_runs
    /\ \E s \in last_runs : s < remote1[f].mtime

\* Found, waiting, archived or passed over, in the version that is there.
Kept(f) ==
    \/ f \in Pending
    \/ Contains(new_files, f)
    \/ Current(f) \in archived \cup skipped

DueInv == \A f \in Files : Due(f) => Kept(f)

\* A scan under way has found, or will still find, what was written between
\* the last one and its own start.
ListInv ==
    dl_pc = "list" => \A f \in Files :
        LET r == remote1[f]
        IN  r.present /\ last_run < r.mtime /\ r.mtime < now =>
                \/ f \in unread
                \/ [name |-> f, ver |-> r.ver, mtime |-> r.mtime] \in batch
                \/ Contains(new_files, f)
                \/ Current(f) \in skipped

\* What is being appended is what is on RemoteHost1, unless that was removed
\* or rewritten since, too late for the last scan.
ContentsInv ==
    dl_pc \in AppendStates =>
        LET r == remote1[file_contents.name]
        IN  r.present /\ r.mtime < last_run => r.ver = file_contents.ver

ScanInv == ClockInv /\ DueInv /\ ListInv /\ ContentsInv
=============================================================================
