----------------------------- MODULE OldTransfer -----------------------------
(***************************************************************************)
(* The sequential program, file-transfer-old.cpp: one thread that scans,   *)
(* downloads, archives and uploads in turn.  The local archive is never    *)
(* deleted: it grows from round to round and from run to run.  The process *)
(* may be killed at any step and started again.                            *)
(***************************************************************************)
EXTENDS LibZip

CONSTANT MaxClock       \* bound: last second

ASSUME OldAssumption == MaxClock \in Nat \ {0}

VARIABLES
    clock,          \* seconds; both hosts read the same clock
    remote1,        \* RemoteHost1: version (0: no file) and mtime of each file
    pc,             \* where main is
    last_run,
    unread,         \* names that sftp_readdir has yet to return
    new_files,      \* names, from the scan to the end of the round
    pos,            \* index of the loops over new_files
    local,          \* content of each file under LOCAL_PATH
    closing,        \* what create_zip_from_files returns after zip_close
    dest,           \* REMOTE2_DEST_PATH: its entries
    dest_whole,     \* ... and whether it is a complete archive
    \* history
    slept_at,       \* when the last round ended
    uploaded        \* content that was in an archive uploaded whole

envVars     == <<clock, remote1>>
scanVars    == <<last_run, slept_at, unread, new_files>>
destVars    == <<dest, dest_whole, uploaded>>
vars        == <<envVars, pc, scanVars, pos, local, closing, destVars,
                 libzipVars, failed>>

Content(entries) ==
    {[name |-> entries[i].name, data |-> entries[i].data] : i \in DOMAIN entries}

Init ==
    /\ LibZipInit
    /\ clock = 1
    /\ remote1 = [f \in Files |-> [ver |-> 0, mtime |-> 0]]
    /\ pc = "connect"
    /\ last_run = 1
    /\ slept_at = 1
    /\ unread = {}
    /\ new_files = <<>>
    /\ pos = 1
    /\ local = [f \in Files |-> NoData]
    /\ closing = FALSE
    /\ dest = <<>>
    /\ dest_whole = FALSE
    /\ uploaded = {}

-----------------------------------------------------------------------------
(* RemoteHost1 and its users; the process being killed and started *)

tick ==
    /\ clock < MaxClock
    /\ clock' = clock + 1
    /\ UNCHANGED <<remote1, pc, scanVars, pos, local, closing, destVars,
                   libzipVars, failed>>

\* A file is written, at most once in a second.
write_remote(f) ==
    /\ remote1[f].mtime < clock
    /\ remote1' = [remote1 EXCEPT ![f] = [ver |-> clock, mtime |-> clock]]
    /\ UNCHANGED <<clock, pc, scanVars, pos, local, closing, destVars,
                   libzipVars, failed>>

remove_remote(f) ==
    /\ remote1[f].ver > 0
    /\ remote1' = [remote1 EXCEPT ![f].ver = 0]
    /\ UNCHANGED <<clock, pc, scanVars, pos, local, closing, destVars,
                   libzipVars, failed>>

\* What is in memory is lost; a temporary file is left behind, unused.
process_ends ==
    /\ pc' = "dead"
    /\ unread' = {}
    /\ new_files' = <<>>
    /\ pos' = 1
    /\ closing' = FALSE
    /\ za' = <<>>
    /\ tmp' = <<>>
    /\ UNCHANGED <<envVars, last_run, slept_at, local, destVars, zip>>

killed ==
    /\ pc \notin {"dead", "exit"}
    /\ Fails("kill")
    /\ process_ends

started ==
    /\ pc \in {"dead", "exit"}
    /\ pc' = "connect"
    /\ last_run' = clock
    /\ slept_at' = clock
    /\ Works
    /\ UNCHANGED <<envVars, unread, new_files, pos, local, closing, destVars,
                   libzipVars>>

-----------------------------------------------------------------------------
(* main *)

\* The four sessions.  When one fails the others are released: exit code 1.
connect ==
    /\ pc = "connect"
    /\ \/ pc' = "scan" /\ Works
       \/ pc' = "exit" /\ Fails("connect")
    /\ UNCHANGED <<envVars, scanVars, pos, local, closing, destVars, libzipVars>>

\* sftp_opendir
list_open ==
    /\ pc = "scan"
    /\ \/ pc' = "list" /\ unread' = Files /\ Works
       \/ pc' = "end" /\ UNCHANGED unread /\ Fails("opendir")
    /\ UNCHANGED <<envVars, last_run, slept_at, new_files, pos, local, closing,
                   destVars, libzipVars>>

\* The loop of list_new_files.
list_new_files(f) ==
    /\ pc = "list"
    /\ f \in unread
    /\ unread' = unread \ {f}
    /\ new_files' = IF remote1[f].ver > 0 /\ remote1[f].mtime > last_run
                    THEN Append(new_files, f)
                    ELSE new_files
    /\ Works
    /\ UNCHANGED <<envVars, pc, last_run, slept_at, pos, local, closing,
                   destVars, libzipVars>>

(***************************************************************************)
(* sftp_readdir returns NULL, at the end of the directory or on an error.  *)
(* check_for_new_files returns nullopt for an empty list.                  *)
(***************************************************************************)
list_end ==
    /\ pc = "list"
    /\ IF unread = {} THEN Works ELSE Fails("readdir")
    /\ unread' = {}
    /\ pc' = IF new_files = <<>> THEN "end" ELSE "download"
    /\ UNCHANGED <<envVars, last_run, slept_at, new_files, pos, local, closing,
                   destVars, libzipVars>>

\* Mutant: the loops run past the last file.
advance_past(stage, next) ==
    IF pos <= Len(new_files)
    THEN pos' = pos + 1 /\ pc' = stage
    ELSE pos' = 1 /\ pc' = next

\* The next of new_files, and the stage that follows the last one.
advance(stage, next) ==
    IF pos < Len(new_files)
    THEN pos' = pos + 1 /\ pc' = stage
    ELSE pos' = 1 /\ pc' = next

(***************************************************************************)
(* download_file returns true: an error of sftp_read ends its loop as the  *)
(* end of the file does.                                                   *)
(***************************************************************************)
download_file(f) ==
    /\ remote1[f].ver > 0
    /\ \E whole \in BOOLEAN :
        /\ local' = [local EXCEPT ![f] = [ver |-> remote1[f].ver, whole |-> whole]]
        /\ IF whole THEN Works ELSE Fails("read")

\* It returns false: one of the two files cannot be opened.
download_file_fails(f) ==
    /\ IF remote1[f].ver = 0 THEN Works ELSE Fails("open")
    /\ UNCHANGED local

\* One iteration of download_files, which stops at the first failure.
download_files ==
    /\ pc = "download"
    /\ \/ download_file(new_files[pos]) /\ advance("download", "zip_open")
       \/ download_file_fails(new_files[pos]) /\ pos' = 1 /\ pc' = "end"
    /\ UNCHANGED <<envVars, scanVars, closing, destVars, libzipVars>>

(***************************************************************************)
(* create_zip_from_files.  A failed zip_open is reported with zip_strerror *)
(* of the NULL it returned: the process dies.                              *)
(***************************************************************************)
zip_open ==
    /\ pc = "zip_open"
    /\ \/ /\ Works
          /\ za' = read_cdir
          /\ pc' = "add"
          /\ UNCHANGED <<envVars, scanVars, pos, local, closing, destVars, zip, tmp>>
       \/ /\ Fails("zip_open")
          /\ process_ends

\* Mutant: the encryption is set before the entry is there.
add_encrypted_early(f) ==
    LET entries == zip_file_set_encryption(za, zip_name_locate(f))
    IN  IF zip_name_locate(f) # 0
        THEN entries
        ELSE zip_file_add(f, local[f])

\* za after zip_file_add and zip_file_set_encryption, neither of which fails.
add_encrypted(f) ==
    LET entries == zip_file_add(f, local[f])
        i == IF zip_name_locate(f) # 0 THEN zip_name_locate(f) ELSE Len(entries)
    IN  zip_file_set_encryption(entries, i)

(***************************************************************************)
(* One iteration of its loop.  The results of zip_file_add and             *)
(* zip_file_set_encryption are ignored: a file may be left out, or stay    *)
(* unencrypted.  Without a source what was added so far is written, and    *)
(* the function returns false.                                             *)
(***************************************************************************)
zip_add ==
    /\ pc = "add"
    /\ LET f == new_files[pos]
       IN  \/ /\ Works
              /\ za' = add_encrypted(f)
              /\ closing' = TRUE
              /\ advance("add", "close")
           \/ /\ Fails("zip_file_add")
              /\ za' = zip_file_set_encryption(za, zip_name_locate(f))
              /\ closing' = TRUE
              /\ advance("add", "close")
           \/ /\ Fails("set_encryption")
              /\ za' = zip_file_add(f, local[f])
              /\ closing' = TRUE
              /\ advance("add", "close")
           \/ /\ Fails("source")
              /\ closing' = FALSE
              /\ pos' = 1
              /\ pc' = "close"
              /\ UNCHANGED za
    /\ UNCHANGED <<envVars, scanVars, local, destVars, zip, tmp>>

\* Mutant: the result of zip_close is not looked at.
zip_created_anyway(result) == pc' = "upload"

\* What main does with the result of create_zip_from_files.
zip_created(result) == pc' = IF result THEN "upload" ELSE "end"

zip_close ==
    /\ pc = "close"
    /\ \/ close_discards /\ Works /\ zip_created(closing)
       \/ close_begin_write /\ Works /\ pc' = "write"
       \/ zip_changed /\ rollback_write /\ Fails("begin_write") /\ zip_created(FALSE)
    /\ UNCHANGED <<envVars, scanVars, pos, local, closing, destVars>>

zip_close_writes ==
    /\ pc = "write"
    /\ \/ close_add_data /\ Works /\ UNCHANGED pc
       \/ close_cannot_add /\ rollback_write /\ Works /\ zip_created(FALSE)
       \/ commit_write /\ Works /\ zip_created(closing)
       \/ rollback_write /\ Fails("zip_close") /\ zip_created(FALSE)
    /\ UNCHANGED <<envVars, scanVars, pos, local, closing, destVars>>

\* Mutant: the destination is created with O_EXCL.
upload_open_exclusive ==
    /\ pc = "upload"
    /\ IF zip # <<>> /\ dest = <<>>
       THEN dest_whole' = FALSE /\ pc' = "copy"
       ELSE pc' = "delete" /\ UNCHANGED dest_whole
    /\ Works
    /\ UNCHANGED <<envVars, scanVars, pos, local, closing, dest, uploaded,
                   libzipVars>>

(***************************************************************************)
(* upload_file: O_TRUNC empties the destination, then the archive is       *)
(* copied.  A failure is logged, or not even noticed (the local read, the  *)
(* close): main goes on alike.  A file that is missing on this side        *)
(* (nothing was ever added) cannot be uploaded.                            *)
(***************************************************************************)
upload_open ==
    /\ pc = "upload"
    /\ \/ /\ zip # <<>>
          /\ Works
          /\ dest' = <<>>
          /\ dest_whole' = FALSE
          /\ pc' = "copy"
       \/ /\ IF zip = <<>> THEN Works ELSE Fails("upload")
          /\ pc' = "delete"
          /\ UNCHANGED <<dest, dest_whole>>
    /\ UNCHANGED <<envVars, scanVars, pos, local, closing, uploaded, libzipVars>>

\* Mutant: the archive is deleted once it is uploaded.
upload_and_delete ==
    /\ pc = "copy"
    /\ dest' = zip
    /\ dest_whole' = TRUE
    /\ uploaded' = uploaded \cup Content(zip)
    /\ zip' = <<>>
    /\ pc' = "delete"
    /\ Works
    /\ UNCHANGED <<envVars, scanVars, pos, local, closing, za, tmp>>

upload_file ==
    /\ pc = "copy"
    /\ pc' = "delete"
    /\ \/ /\ Works
          /\ dest' = zip
          /\ dest_whole' = TRUE
          /\ uploaded' = uploaded \cup Content(zip)
       \/ /\ Fails("upload")
          /\ UNCHANGED destVars
    /\ UNCHANGED <<envVars, scanVars, pos, local, closing, libzipVars>>

\* delete_local_file of the next local file.
delete_local_file ==
    /\ pc = "delete"
    /\ \/ local' = [local EXCEPT ![new_files[pos]] = NoData] /\ Works
       \/ UNCHANGED local /\ Fails("unlink")
    /\ advance("delete", "end")
    /\ UNCHANGED <<envVars, scanVars, closing, destVars, libzipVars>>

\* Mutant: last_run is the time at which the last round ended.
end_of_round_early ==
    /\ pc = "end"
    /\ pc' = "sleep"
    /\ last_run' = slept_at
    /\ slept_at' = clock
    /\ new_files' = <<>>
    /\ closing' = FALSE
    /\ Works
    /\ UNCHANGED <<envVars, unread, pos, local, destVars, libzipVars>>

\* The end of a round, whatever came of it.
end_of_round ==
    /\ pc = "end"
    /\ pc' = "sleep"
    /\ last_run' = clock
    /\ slept_at' = clock
    /\ new_files' = <<>>
    /\ closing' = FALSE
    /\ Works
    /\ UNCHANGED <<envVars, unread, pos, local, destVars, libzipVars>>

\* Mutant: last_run is set after the sleep.
wake_and_stamp ==
    /\ pc = "sleep"
    /\ pc' = "scan"
    /\ last_run' = clock
    /\ Works
    /\ UNCHANGED <<envVars, slept_at, unread, new_files, pos, local, closing,
                   destVars, libzipVars>>

\* CHECK_INTERVAL has passed.
wake ==
    /\ pc = "sleep"
    /\ pc' = "scan"
    /\ Works
    /\ UNCHANGED <<envVars, scanVars, pos, local, closing, destVars, libzipVars>>

main ==
    \/ connect
    \/ list_open
    \/ \E f \in Files : list_new_files(f)
    \/ list_end
    \/ download_files
    \/ zip_open
    \/ zip_add
    \/ zip_close
    \/ zip_close_writes
    \/ upload_open
    \/ upload_file
    \/ delete_local_file
    \/ end_of_round
    \/ wake

Environment ==
    \/ tick
    \/ \E f \in Files : write_remote(f) \/ remove_remote(f)
    \/ killed
    \/ started

Next == main \/ Environment

(***************************************************************************)
(* The thread runs while it can: each of its calls returns (CopyLoops,     *)
(* SshSession and SshChannel say when).                                    *)
(***************************************************************************)
Spec == Init /\ [][Next]_vars /\ WF_vars(main)

-----------------------------------------------------------------------------
(* Properties *)

Data == [ver : 0..MaxClock, whole : BOOLEAN]

Archives == Seq([name : Files, data : Data, encrypted : BOOLEAN])

TimeType ==
    /\ clock \in 1..MaxClock
    /\ remote1 \in [Files -> [ver : 0..MaxClock, mtime : 0..MaxClock]]
    /\ last_run \in 1..clock
    /\ slept_at \in 1..clock

LoopType ==
    /\ pc \in {"connect", "scan", "list", "download", "zip_open", "add", "close",
              "write", "upload", "copy", "delete", "end", "sleep", "exit", "dead"}
    /\ unread \subseteq Files
    /\ unread # {} => pc = "list"
    /\ new_files \in Seq(Files)
    /\ IsInjective(new_files)
    /\ pos \in 1..Len(new_files) \/ pos = 1
    /\ pc \in {"download", "zip_open", "add", "delete"} => pos \in DOMAIN new_files
    /\ closing \in BOOLEAN

ArchiveType ==
    /\ local \in [Files -> Data]
    /\ zip \in Archives
    /\ za \in Seq([name : Files, orig : Data, encrypted : BOOLEAN,
                   source : Data, password : BOOLEAN])
    /\ za # <<>> => pc \in {"add", "close", "write"}
    /\ tmp \in Archives
    /\ dest \in Archives
    /\ dest_whole \in BOOLEAN
    /\ uploaded \subseteq [name : Files, data : Data]

\* Types, and which loop each index and buffer belongs to.
TypeOK ==
    /\ TimeType
    /\ LoopType
    /\ ArchiveType

(***************************************************************************)
(* The local archive loses nothing: not by zip_close, whether it succeeds, *)
(* fails or is killed half-way, nor by an upload.  (zip_close writes to a  *)
(* temporary file; main keeps the archive after an upload.)                *)
(***************************************************************************)
ArchiveGrows == [][Content(zip) \subseteq Content(zip')]_vars

(***************************************************************************)
(* Whatever was on RemoteHost2 once is still in the local archive, so that *)
(* an upload that truncates the destination and fails loses nothing for    *)
(* good; and a complete destination is no more than what is here.          *)
(***************************************************************************)
LostCopyIsRecoverable ==
    /\ uploaded \subseteq Content(zip)
    /\ dest_whole => Content(dest) \subseteq Content(zip)

(***************************************************************************)
(* No entry is stored or sent in the clear, unless                         *)
(* zip_file_set_encryption failed, whose result nobody looks at.           *)
(***************************************************************************)
EncryptedUnlessFault ==
    "set_encryption" \notin failed =>
        /\ \A i \in DOMAIN zip : zip[i].encrypted
        /\ \A i \in DOMAIN dest : dest[i].encrypted

(***************************************************************************)
(* The local copy of a file is deleted only when the archive holds that    *)
(* very content, as far as zip_file_add and zip_file_set_encryption, the   *)
(* results of which create_zip_from_files ignores, did not fail.  (A name  *)
(* the archive has already makes zip_close fail.)                          *)
(***************************************************************************)
DeletedWasArchived ==
    [][\A f \in Files :
        /\ local[f] # NoData
        /\ local'[f] = NoData
        /\ failed \cap {"zip_file_add", "set_encryption"} = {}
        => [name |-> f, data |-> local[f]] \in Content(zip)]_vars

(***************************************************************************)
(* No version of a file is archived and then downloaded for the archive    *)
(* once more: last_run is past the mtime of whatever a round has listed or *)
(* downloaded, and a round that fails is not repeated.                     *)
(***************************************************************************)
AddedIsNew ==
    pc = "add" => \A i \in DOMAIN za :
        za[i].name = new_files[pos] => za[i].orig.ver # local[new_files[pos]].ver

(***************************************************************************)
(* A file written after the last round ended is taken when a scan comes to *)
(* it, however long the program slept: last_run is set before the sleep.   *)
(***************************************************************************)
WrittenInSleepIsTaken ==
    [][\A f \in Files :
        /\ pc = "list" /\ pc' = "list"
        /\ f \in unread \ unread'
        /\ remote1[f].ver > 0
        /\ remote1[f].mtime > slept_at
        => Contains(new_files', f)]_vars

(***************************************************************************)
(* What has been archived is uploaded in the end, in the round that        *)
(* archived it, unless a call fails or the process ends.                   *)
(***************************************************************************)
ArchivedIsUploaded ==
    ~(Content(zip) \subseteq uploaded) ~>
        \/ Content(zip) \subseteq uploaded
        \/ failed \cap {"upload", "source", "kill"} # {}

-----------------------------------------------------------------------------
(* The inductive invariant behind the safety properties *)

\* Where create_zip_from_files has the archive open.
Open == {"add", "close", "write"}

\* The stages that work on new_files.
Round == {"download", "zip_open", "upload", "copy", "delete"} \cup Open

\* A round has files, its loops start at the first one, and what the scan has
\* yet to list is not among them.
LoopInv ==
    /\ pc \in Round => pos \in 1..Len(new_files)
    /\ pc \notin {"download", "add", "delete"} => pos = 1
    /\ pc \notin Round \cup {"list", "end"} => new_files = <<>>
    /\ \A f \in unread : ~Contains(new_files, f)
    /\ slept_at = last_run

\* The zip_t starts with the entries of the archive; the temporary file has
\* the first entries of the zip_t.
OpenInv ==
    /\ pc \in Open =>
        /\ Len(zip) <= Len(za)
        /\ \A i \in 1..Len(zip) :
            /\ za[i].name = zip[i].name
            /\ za[i].orig = zip[i].data
            /\ za[i].encrypted = zip[i].encrypted
            /\ za[i].source = NoData
        /\ \A i \in Len(zip) + 1 .. Len(za) :
            za[i].orig = NoData /\ za[i].encrypted = FALSE
    /\ pc = "write" =>
        /\ Len(tmp) <= Len(za)
        /\ \A i \in 1..Len(tmp) :
            tmp[i] = written(za[i]) /\ add_data_possible(za[i])

\* What is in the zip_t is encrypted or will be.
PasswordInv ==
    "set_encryption" \notin failed =>
        \A i \in 1..Len(za) : za[i].password \/ za[i].encrypted

\* Versions are the times at which they were written, and all in the past.
PastInv ==
    /\ \A f \in Files : remote1[f].ver \in {0, remote1[f].mtime}
    /\ \A f \in Files : remote1[f].mtime <= clock /\ local[f].ver <= clock
    /\ \A i \in 1..Len(zip) : zip[i].data.ver <= clock
    /\ \A i \in 1..Len(za) : za[i].source.ver <= clock

\* The versions a round works on are later than last_run; those in the archive
\* are not, until the round commits.
RoundInv ==
    /\ pc \notin {"upload", "copy", "delete", "end", "exit", "dead"} =>
           \A i \in 1..Len(zip) : zip[i].data.ver <= last_run
    /\ pc \in {"list", "download"} =>
           \A k \in 1..Len(new_files) : remote1[new_files[k]].mtime > last_run
    /\ pc = "download" =>
           \A k \in 1..pos - 1 : local[new_files[k]].ver > last_run
    /\ pc \in Open \cup {"zip_open"} =>
           \A k \in 1..Len(new_files) : local[new_files[k]].ver > last_run

\* The file was added to the zip_t, or was there before in encrypted form,
\* which zip_close will refuse.
Taken(f) ==
    \E i \in 1..Len(za) :
        /\ za[i].name = f
        /\ za[i].password
        /\ \/ za[i].orig = NoData /\ za[i].source = local[f]
           \/ za[i].source = NoData /\ za[i].encrypted

\* From the loop that adds the files to the one that deletes them.
AddedInv ==
    /\ pc = "add" => \A i \in Len(zip) + 1 .. Len(za) :
           \E k \in 1..pos - 1 : za[i].name = new_files[k]
    /\ failed \cap {"zip_file_add", "set_encryption"} = {} =>
        /\ pc = "add" => \A k \in 1..pos - 1 : Taken(new_files[k])
        /\ pc \in {"close", "write"} /\ closing =>
               \A k \in 1..Len(new_files) : Taken(new_files[k])
        /\ pc \in {"upload", "copy", "delete"} =>
               \A k \in pos..Len(new_files) :
                   [name |-> new_files[k], data |-> local[new_files[k]]]
                       \in Content(zip)

OldInv ==
    /\ TypeOK
    /\ LoopInv
    /\ OpenInv
    /\ PasswordInv
    /\ EncryptedUnlessFault
    /\ PastInv
    /\ RoundInv
    /\ AddedInv
    /\ LostCopyIsRecoverable
=============================================================================
