# A TLA+ model of file-transfer

`file-transfer.cpp` relays files between two hosts. One thread polls a directory
of RemoteHost1 over SFTP and puts new files into an encrypted ZIP archive on the
local disk; another thread copies that archive to a fixed path on RemoteHost2 and
deletes it. The program is linked with two libraries whose sources are in the
repository, libssh 0.9.6 and libzip 1.9.2, and it has a sequential predecessor,
`file-transfer-old.cpp`. This directory holds TLA+ modules that model the two
programs and the parts of the libraries they depend on, TLC configurations that
check them on small instances, and TLAPS proofs of their safety properties, and of
the refinement of the abstract specification, for every instance.

## The system

| part | state | operations | talks to |
|---|---|---|---|
| download thread (`download_routine`, `check_for_new_files`, `list_new_files`, `file_exists_in_zip`, `download_file`, `append_to_zip`) | `last_run`, `now`, `new_files`, `file_history`, `files_to_remove`, `file_contents`, the open archive | scan the directory, queue new names, download, append to the archive, erase from the queue | RemoteHost1, the archive, `zip_semaphore`, `running` |
| upload thread (`upload_routine`, `upload_file`, `delete_local_file`) | the open stream | test the archive, send it, unlink it | RemoteHost2, the archive, `zip_semaphore`, `running` |
| `main`, `signal_handler` | `running`, `zip_semaphore` | start and join the threads; SIGINT clears `running` | both threads |
| disks | `LOCAL_ZIP_PATH`, `REMOTE2_DEST_PATH`, `REMOTE1_COLLECT_DIR` | | survive the process |
| session set-up (`create_ssh_session`, `create_sftp_session`) | session, key, SFTP session | connect, import the key, authenticate, open the SFTP channel | libssh |
| libssh: SFTP client (`sftp.c`) | `id_counter`, message queue, file offsets | requests and their answers, matched by id | channel |
| libssh: channel (`channels.c`) | windows, buffer, states, flags, end-of-file marks | open, request, read, write, grow the window, EOF, CLOSE, free | session |
| libssh: session (`packet.c`, `packet_cb.c`, `kex.c`, `client.c`, `auth.c`) | session, handshake, service and authentication states, keys, `out_queue` | filter and handle packets, exchange keys, authenticate, wait | server |
| libzip | entries with pending changes, temporary file | add, encrypt, commit or roll back | disk |
| `file-transfer-old.cpp` | `last_run`, the files of a round, the archive (never deleted) | scan, download, archive, upload, delete the downloads | both hosts; not built by the Makefile |
| `download_files`, `create_zip_from_files` of `file-transfer.cpp` | | no caller | |
| `daemonize`, `delete_self` | | disabled (commented out; `DELETE_ON_EXEC` is false) | |

What makes it hard: the two threads share one file, and only part of what they do
to it is under the semaphore (`file_exists_in_zip`, both `stat`s of the upload
thread and the `unlink` are not); libzip reads the archive at `zip_open` and
replaces it by a rename at `zip_close`, whatever happened in between; directory
entries, `last_run` and file times have the granularity of a second and are read
at different moments; every library call may fail, and some results are ignored;
the process may be killed between any two steps and keeps nothing but the disks.
Under it, both ends of a connection may ask for new keys, close the channel or
disappear at any packet, and one read of the socket may bring several packets,
which are all handled before a waiting call looks at its condition again.

What makes it correct, part by part:

- download thread: no update on RemoteHost1 goes unnoticed; a queued name is
  appended once; a failed append loses nothing; the archive stays near the
  threshold.
- upload thread: what is deleted locally was delivered; a truncated delivery can
  be repeated; the archive is deleted in the end.
- both: mutual exclusion, every path releases the semaphore, the process can be
  shut down.
- copies: a result of `true` means a faithful copy; nothing of a call is left over
  for the next one.
- libssh: both sides agree on windows and keys; nothing that arrived is dropped;
  what was acquired is released once; every call returns.
- libzip and the sequential program: the archive never loses an entry; a download
  is deleted only when it is in the archive; every entry is encrypted.

`PROJECT.json` lists the hazards at their lines with the properties about each.

## Modules

| module | models |
|---|---|
| `TransferState` | constants and assumptions, all variables, failing calls, `stat` helpers, semaphore operations, the end of a process |
| `DownloadRoutine` | the download thread, one action per step that others can observe |
| `UploadRoutine` | the upload thread, likewise |
| `FileTransfer` | `main`, SIGINT, kills and restarts, the writers on RemoteHost1, the clock; `Next`, `Spec`, `FairSpec`; the properties and the inductive invariant |
| `ArchiveRelay` | abstract specification: one writer, one sender and a crash, in terms of archives only |
| `FileTransferMapping` | the refinement mapping from `FileTransfer` to `ArchiveRelay` |
| `FileTransferClaims` | what messages of the program say and the code does not do |
| `FileTransferProofs` | theorems about the threads and the archive, from `IInv` |
| `RelayProofs` | the refinement of `ArchiveRelay`, proved |
| `ScanProofs` | theorems about scans and the queue of the download thread |
| `SftpClient` | the calls of libssh's SFTP client that the program makes, and an SFTP server |
| `CopyLoops`, `CopyLoopsProofs` | the loops of `list_new_files`, `download_file` and `upload_file` over `SftpClient`; theorems |
| `SshChannel`, `SshChannelProofs` | the life of the one channel of a session, with an SSH server; theorems |
| `SshSession`, `SshSessionProofs` | `create_ssh_session`, key exchanges, authentication and requests, with an SSH server; theorems |
| `LibZip` | an archive in memory and `zip_close` |
| `OldTransfer`, `OldTransferProofs` | `file-transfer-old.cpp` over `LibZip`; theorems |
| `MC...` | instances for TLC |

`FileTransfer` is composed of the two threads; a whole SFTP call is one step there.
`CopyLoops` opens these calls up to requests and answers, on a connection that
works or is broken. `SshChannel` opens a request and its answer up to bytes and
windows, and `SshSession` a packet to keys. Each level takes from the one below
that a call returns, with an answer or an error, which is what `CallsReturn` says
in `CopyLoops`, `SshChannel` and `SshSession`.

### How state and actions correspond to the code

The threaded program:

- The content of a file is the number of the write that produced it. An archive
  is a set of entries (name, version). libzip never leaves an archive without
  entries (`zip_close` removes or does not create such a file), so `zip = {}`
  means that there is no file, and `get_file_size` is 0 as in the code.
- `ZipSize` gives the size of an archive; nothing is assumed of it but that it is
  a natural number, 0 for no entries.
- A step is a maximal piece of code that touches shared state once. Pieces that
  the other thread cannot tell apart are joined: the semaphore operations with
  the access next to them, `time()` with `sftp_opendir`, the size test with the
  download that follows. Sleeping is being at the head of the loop.
- A scan reads the directory entry by entry. The server answers with several
  names at once, so attributes wait in `batch` before `list_new_files` examines
  them; they may be stale by then, and so may be the answer of
  `file_exists_in_zip`.
- `append_to_zip` is three steps: `sem_wait` with the `stat` inside `zip_open`
  (`append_sem_wait`), opening and reading that file (`append_zip_open`), and the
  commit with `sem_post` (`append_zip_close`). If the file is gone when it is
  opened, `zip_open` returns `NULL`, which `append_to_zip` gives to
  `zip_strerror`: the process dies (`exit_status = "segv"`). `zip_commit` follows
  libzip: a name that is there already makes `zip_close` fail, because
  `zip_file_set_encryption` is then applied to the old entry, for which there is
  no password; a `zip_file_add` that fails otherwise leaves the archive unchanged
  and `zip_close` succeeds.
- `upload_file` is `upload_sem_wait`, `upload_open` (which truncates the remote
  file), and then one of three ends: `upload_send` (the archive arrived whole),
  `upload_error` (an error return), or `upload_cut_short`: the copy loop ends at a
  failing `ifstream::read` as it does at the end of the file, or `sftp_close` fails
  and nobody looks, and `upload_file` returns `true` although the remote file is
  truncated. The `unlink` after the first and the third is `delete_local_file`,
  without the semaphore.
- `Fails(call)` is a call that returns an error; `Faults` says which calls may do
  so in an instance and `MaxFaults` how often.
- `ProcessEnds` forgets everything but the disks. `main_start` may follow.
- `archived`, `delivered`, `cut_short`, `skipped` and `last_runs` are history
  variables that no guard reads. `cut_short` is set by `upload_cut_short` and cleared
  when the next upload begins: the truncated file on RemoteHost2 is one that the
  program took for whole.
- A kill ends the process and nothing else. That the machine stops is not
  modelled: libzip renames its temporary file without `fsync`, and what the disk
  has then is up to the file system.

The refinement: `ArchiveRelay` knows the local archive, the copy of it the writer
has open, the file on RemoteHost2, whether that is whole, and whether the sender
takes it for whole. Its `Commit` says that the archive is the one that was copied or
gone; its `Remove` needs a confirmed delivery that is contained in the archive. It
allows the loss at the `unlink`, which the code has, and no other. Its constant
`Mistakes` stands for the two failures that `upload_file` does not notice: if neither
is in `Faults`, the relay has no `Mistake` step and removes an archive only after a
whole delivery; otherwise a sender may confirm a truncated file.

Copies: data is a sequence of blocks, a request asks for at most `ReadSize` or
`WriteSize` of them, and the server may answer with fewer. A function is entered
with its first request; each further step takes an answer and sends the next
request, as the synchronous calls of libssh do. Request ids count modulo
`IdSpace` (2^32 in the code). `readdir_names` hands out all names of an answer at
once: later calls of `sftp_readdir` do so without a request.

Channel: packets carry a type and a length. `channel_write` is one turn of the
loop of `channel_write_common`; `pc = "write"` with `len > 0` and an empty window is
the wait inside. `burst` is the number of packets that the last read of the socket
brought and that have to be handled before the waiting call goes on. `Flushing`
stands for `ssh_blocking_flush`, which may handle packets while the socket does
not take data: in the model it may do so as long as something is under way to the
server. The two branches of `channel_rcv_close`, the flags and the two ways to free
a channel are as in the code.

Session: a key is the number of the exchange that produced it; every packet has
the number of the key it was sent with, and a receiver detects a different one.
The limits that make `ssh_packet_need_rekey` true (time, packets, blocks) may be
reached at any packet, `MaxRekeys` times. The window counts packets (`credit`). Of
authentication there is what `ssh_userauth_publickey` does: request the service,
send the signed request, wait. `handles` are the session and the key that
`create_ssh_session` holds.

libzip: `za` is the list of entries with their pending changes (`source`,
`password`), `tmp` the temporary file of `zip_close`. An entry that has a password
set but no new source is read and encrypted anew, which fails for an encrypted
one. A `zip_close` that fails leaves its caller with a `zip_t` that neither program
discards.

The sequential program: one action per call that can fail or take time, in the
order of `main`. An error of `sftp_read` makes a download that is not `whole`. Both
hosts and the program read one clock. `failed` is the set of kinds of calls that
have failed so far, of which there may be `MaxFaults`; each may fail any number of
times.

The definitions marked `Mutant:` are not part of the specifications. Each replaces
one definition to show that a property notices the change.

## Runs

Bounds: `MaxChanges` writes and removals on RemoteHost1, `MaxClock` seconds,
`MaxFaults` failing calls (kinds of calls in `OldTransfer`), `MaxStarts` processes,
`MaxRefusals` refused requests, `MaxRewrites` rewrites of a file, `MaxCalls` calls
or requests, `MaxRekeys` and `MaxServerRekeys` key exchanges that the client and the
server ask for.

| run | instance | checks |
|---|---|---|
| `relay` | 2 files, threshold 2; 3 changes, 2 seconds, no fault, 1 process | `TypeOK`, `UploadWindow`, `OvershootByOne`, `AppendIsFresh`, `NotForgotten`, `LossOnlyAtUnlink` |
| `restart` | 2 files, threshold 3; 2 changes, 2 seconds, 1 fault: of the calls the code looks at, the `unlink`, and the `read` and `sftp_close` that `upload_file` does not notice; 2 processes | `SemaphoreInv`, `TruncatedRecoverable`, `IInv`, `NotForgotten`, `WedgeStable`, `ImplementsRelay` |
| `liveness` | 2 files, threshold 3; 2 changes, 1 second, 1 fault, those the code ignores included, 1 process, under `FairSpec` | `Shutdown`, `ArchiveDrains` |
| `copy` | 2 names, files of 1 or 3 blocks, 2 blocks a request, 4 ids; 2 calls, 2 rewrites, 1 refusal, a local read error, a broken connection | `NothingLeftBehind`, `DownloadIsFaithful`, `UploadIsPrefix`, `ListingIsComplete`, `CallsReturn` |
| `channel` | windows of 2 (server) and 1 growing to 4 (client), packets of 2, requests of 3, answers of 2 and 5; 2 requests | `TypeOK`, `WindowsAgree`, `Aligned`, `OrderlyEnd`, `FreedOnce`, `AnswerNotDropped`, `CallsReturn` |
| `session` | requests of 3 packets, window of 2; 2 requests, 2 exchanges of the client and 1 of the server after the first | `TypeOK`, `NeverRefused`, `QueueNotStranded`, `HandlesReleased`, `ExchangeEnds`, `CallsReturn` |
| `old` | 2 files, 3 seconds with a write of each file in each; one kind of call that fails, or kills | `TypeOK`, `LostCopyIsRecoverable`, `EncryptedUnlessFault`, `AddedIsNew`, `ArchiveGrows`, `DeletedWasArchived`, `WrittenInSleepIsTaken`, `ArchivedIsUploaded` |

What the properties say is in the comments above them. In short:

- `NothingLeftBehind`: a function over the SFTP session ends with no request,
  answer, queued message or open handle, whichever way out it takes. So ids may
  be used again.
- `DownloadIsFaithful`, `UploadIsPrefix`, `ListingIsComplete`: what the results of the
  three loops are worth, with the exceptions the code has.
- `WindowsAgree`: each window is what the other side may still send, plus data and
  grants under way. `Aligned`: the buffer is empty between requests and while a
  request is written, which is why a delayed close is not missed by the wait for
  the window. `AnswerNotDropped`, `OrderlyEnd`, `FreedOnce`: the end of a channel.
- `NeverRefused`: with an honest server no packet meets the wrong keys or the
  filter, however exchanges cross. `QueueNotStranded`: a packet is queued only while
  an exchange is going on that will send it. `ExchangeEnds`, `HandlesReleased`.
- `ArchiveGrows`, `LostCopyIsRecoverable`, `DeletedWasArchived`, `EncryptedUnlessFault`,
  `AddedIsNew`, `WrittenInSleepIsTaken`, `ArchivedIsUploaded`: the sequential program
  keeps its archive, so that nothing is lost once it was archived, whatever happens
  to the copy on RemoteHost2.

Sizes in the first three runs: an entry has size 1, or 3 when the file is long; one
of the two files is long from the start, and every file is long once it has been
rewritten. With threshold 2 a long file exceeds it alone; with threshold 3 every
file may be sent alone and the two together exceed it.

Why the bounds are enough for the cases to happen: two files give the append that
races with the deletion, and both ways of exceeding the threshold; three changes
give a rewrite of one file next to the arrival of another; three different seconds
are needed for a file that is newer than the start and older than a scan; two
processes give every interruption followed by a recovery; one fault reaches every
error path. `OvershootByOne` excludes an archive of two long files under
threshold 2, of which no single one can be taken away to get below the threshold.
In `copy` four ids are fewer than the requests of two calls, so they wrap around
in a call or between calls; three blocks and two a request give a short
last block and short answers in the middle. In `channel` a request needs two packets
and a grant, and the longer answer needs the client's window to grow more than
once. In `session` the three packets of a request may lie before, in and after an
exchange, and exchanges may follow each other at once. In `old` three seconds give
a round, a sleep and another round. Larger instances of `old` passed as well: two
kinds of faults at once, and four seconds (about 940,000 states each).

Two properties of the threaded program depend on which calls fail. `NotForgotten`
does not hold when `sftp_readdir` or `zip_file_add` fails, and `AppendIsFresh` not when
the `zip_open` of `file_exists_in_zip` does (the archive then seems not to have the
name): the code ignores these failures. `relay` has no failing call and `restart` all
the others; `liveness` has the three.

The failures that `upload_file` does not notice, `read` and `sftp_close`, are in both
`restart` and `liveness`. With them an archive is deleted of which RemoteHost2 has
only a part, so `UploadWindow`, `TruncatedRecoverable` and the relay name this case:
it is their only exception. (A failure that `upload_file` does see and
`upload_routine` overlooked would break them; that is the mutant of
`TruncatedRecoverable`.) `LossOnlyAtUnlink`, `SemaphoreInv`, `WedgeStable`, `Shutdown` and
`ArchiveDrains` hold with these failures as they stand.

Deadlock is checked in every run. The steps `NotStartedAgain`, `Finished`, `Done` and
`Stopped` stand for programs and threads that have ended.

Fairness: in `FileTransfer`, weak fairness of each thread and of the end of `main`.
The threads are scheduled by the operating system and poll on timers, so a thread
that can run does run. It includes that library calls return, with a result or an
error; libssh blocks without a time limit here, so a peer that stops answering
without closing the connection is outside `FairSpec`. No fairness is assumed of
SIGINT, of writers, of the clock or of restarts. `sem_wait` is only weakly fair:
neither liveness property needs more, since each thread takes the semaphore a
bounded number of times between two visits to the head of its loop and new files
are finite in number. In `CopyLoops`, `SshChannel` and `SshSession` the thread, the
handling of packets that have arrived and the server's work on what it has received
are weakly fair; closing, breaking and asking for keys are not. In `SshChannel` a
server also grants what it has taken. In `OldTransfer` the program is weakly fair,
its environment is not.

### Disagreements between the code and what it says

Each of these runs ends with a behaviour that breaks the claim.

| run | claim | what happens |
|---|---|---|
| `threshold_wait` | "ZIP file exceeds threshold. Waiting until deleted." | no thread sends or deletes an archive above the threshold; the wait is endless |
| `unlink_race` | "Successfully uploaded ZIP archive" | entries appended between `sem_post` and `unlink` are deleted unsent |
| `zip_open_race` | "Error creating ZIP archive: ..." and `return false` | `zip_strerror(NULL)`; reachable by the `unlink` of the other thread without any failing call |
| `skip_by_name` | "File already exists in ZIP" | only an older version does, and the rewrite may never be transferred |
| `auth_disconnect` | libssh: `SSH_AUTH_ERROR`, "A serious error happened" | `ssh_auth_response_termination` looks at `auth.state` only; after a DISCONNECT the call polls a closed socket forever, and the thread never starts |

`LossOnlyAtUnlink` says how far `unlink_race` goes: archived files are lost by that
`unlink` and by no other step. `NotForgotten` says how far `skip_by_name` goes: without
ignored failures a file is overlooked only because the archive has its name, or
because it was written in the second in which a scan began. The latter is the edge
of `mtime > last_run` with both in whole seconds: a file written after its entry
was read, but in the second of `now`, is never newer than `last_run`. The run `session`
has DISCONNECT in every phase but authentication, and there `CallsReturn` holds.

Further points, seen while modelling, without a run of their own:

- `file_history` is "yet to be downloaded" (`file-transfer.cpp:436`) but looked at
  only when a scan finds a new file: after a failed download the rest waits for an
  unrelated file.
- `list_new_files` takes every `NULL` of `sftp_readdir` for the end of the directory;
  libssh's documentation (`doc/sftp.dox:371`) asks for `sftp_dir_eof()`.
- A read error on the local archive ends the loop of `upload_file` like its end
  (`file-transfer.cpp:363`), and the result of `sftp_close` (`374`) is dropped: the
  upload is reported as successful and the archive deleted, with a truncated file on
  RemoteHost2 (`upload_cut_short`; `CopyLoops` has the read error block by block).
- A failed `zip_file_add` is reported as "Successfully added file ZIP archive." and
  the file leaves `file_history`.
- A failed `zip_close` leaves the `zip_t` and its descriptor open.
- `ssh_channel_request_termination` does not look at the state of the channel: a
  server that closes it instead of answering leaves `create_sftp_session` waiting.
- `ssh_get_error` is given an `sftp_session` (`file-transfer.cpp:125`, `357`, `367`),
  which only affects the message.
- In the sequential program a truncated download is archived as complete, files
  written during a round are never found, a name that is in the archive already
  makes the whole batch fail, and a failed upload is repeated only after another
  new file.

## Theorems

Every safety invariant and every action property of the passing runs is proved as
well, for every value of the constants that the named assumption of its module
allows. Each proof has the same shape: an inductive invariant, one lemma per action
(or per group of actions with the same effect) for each of its conjuncts, and the
property as a consequence. The inductive invariants stand at the end of the module
they are about; TLC checked each of them on the instance of its component's run
before it was proved. `IInv` is part of the run `restart`.

### The threaded program (`FileTransferProofs`, `RelayProofs`, `ScanProofs`)

For every set of files, every `ZipSize`, threshold, set of failing calls and bound
(`ConstantsAssumption`):

| theorem | states |
|---|---|
| `Invariance` | `Spec => []IInv` |
| `TypeCorrectness` | `Spec => []TypeOK` |
| `MutualExclusion` | `Spec => []SemaphoreInv` |
| `UploadedBeforeUnlink` | `Spec => []UploadWindow` |
| `TruncationRecoverable` | `Spec => []TruncatedRecoverable` |
| `NoticedFailuresLoseNothing` | `"read"`, `"sftp_close"` not in `Faults` gives `Spec => []NothingStandsAlone`: the two properties above without their exception |
| `BoundedOvershoot` | `Spec => []OvershootByOne` |
| `NothingElseLosesFiles` | `Spec => LossOnlyAtUnlink` |
| `WedgeStability` | `Spec => WedgeStable` |
| `WedgedForever` | `Spec => [](Wedged => []Wedged)` |
| `RelayImplemented` | `Spec => ImplementsRelay` |
| `HistoryInvariance` | `Spec => []HistoryInv` |
| `FreshAppends` | `"probe" \notin Faults` gives `Spec => []AppendIsFresh` |
| `NoFileForgotten` | `"readdir"`, `"add"` not in `Faults` gives `Spec => []NotForgotten` |

None of the properties is inductive alone. `UploadWindow` needs that the archive
being sent is the one on the disk (`SendInv`), which holds because a commit needs
the semaphore (`SemaphoreInv`), and that a commit which overlaps the window after
`sem_post` only adds (`AppendInv`: the open archive is the one on the disk, or the
one on the disk is gone). The same part of `AppendInv` gives `LossOnlyAtUnlink`.
`AppendInv` also carries the result of the size test from `next_file` to the
commit, past a deletion in between; `OvershootByOne` and the wedge follow from
it. `TruncatedRecoverable` needs `SendInv` and `UploadWindow`: the archive exists
when the remote file is truncated, and the only deletion comes after a complete
copy or after one that was cut short unnoticed. `RemoteInv` gives downloaded versions their type. `IInv` is their
conjunction with `TypeOK`; steps that do not touch the archive share the lemma
`ArchiveUntouched`.

`RelayImplemented` takes one more fact, `CutShortInv`: an upload is cut short only
where `ifstream::read` or `sftp_close` can fail. It shows of each action that it is one
step of `ArchiveRelay` or leaves all it knows alone (`RelayStutters`). The same fact
gives `NoticedFailuresLoseNothing`.

`HistoryInv` is the bookkeeping of `download_routine`: the names in `file_history` are
different, `files_to_remove` is its front, and the file in hand is the one behind
that. It holds whatever fails. `FreshInv` adds that no name found or waiting is in the archive or in
the `zip_t`. `ScanInv` relates every file to the scans: one that was due is waiting,
archived or passed over (`DueInv`), one that a scan under way has to find is still
unread, in an answer or found (`ListInv`), and what is being appended is the version
on RemoteHost1 (`ContentsInv`); scans and files carry times of the past (`ClockInv`).
The assumptions on `Faults` of the two theorems of `ScanProofs` are failures the code
ignores, with which the properties do not hold (see Runs); the run `liveness` has
these failures.

### The sequential program (`OldTransferProofs`)

For every set of files and failing calls, and any `MaxClock` of at least 1
(`OldAssumption`): `OldInvariance` (`[]OldInv`), `OldTypeCorrectness` (`[]TypeOK`),
`LostCopies` (`[]LostCopyIsRecoverable`), `Encryption` (`[]EncryptedUnlessFault`),
`NoVersionTwice` (`[]AddedIsNew`), `ArchiveKeepsAll` (`ArchiveGrows`), `DeletedCopies`
(`DeletedWasArchived`), `SleepLosesNothing` (`WrittenInSleepIsTaken`).

`OpenInv` says that a `zip_t` begins with the entries of the archive on the disk and
that the temporary file of `zip_close` has the first entries of the `zip_t` as they
will be written: with it a `zip_close` that gets through loses nothing. `PasswordInv`
is about entries not yet written. `RoundInv` and `PastInv` order the versions: those a
round works on are later than `last_run`, those in the archive are not, until the
round commits. `AddedInv` follows the files of a round from the loop that adds them
to the one that deletes them.

### The copy loops (`CopyLoopsProofs`)

For every archive, content, directory, block size and id space
(`CopyAssumption` and that of `SftpClient`): `CopyInvariance` (`[]CopyInv`), `NothingLeft`
(`[]NothingLeftBehind`), `ListingComplete` (`[]ListingIsComplete`), `FaithfulDownload`
(`[]DownloadIsFaithful`), `UploadPrefix` (`[]UploadIsPrefix`).

At most one packet is under way, and it belongs to the call in progress (`NetInv`);
so an id space of one would do, and the wrap-around of the 32-bit counter is
harmless. `HandleInv` says which handle the server has open; `ListInv`, `DownInv` and
`UpInv` follow names and blocks through request, answer and buffer.

### The channel (`SshChannelProofs`)

For all sizes of windows, packets, requests and answers and any number of requests
(`ChannelAssumption`: the window is grown at a limit not above its base):
`ChannelInvariance` (`[]ChannelInv`), `ChannelTypes` (`[]TypeOK`), `WindowAgreement`
(`[]WindowsAgree`), `Alignment` (`[]Aligned`), `Orderly` (`[]OrderlyEnd`),
`FreedExactlyOnce` (`[]FreedOnce`), `NoAnswerDropped` (`AnswerNotDropped`).

`LinkInv` is the phase both ends are in and the packets this allows; `CloseInv`,
`EndInv` and `OrderInv` say who has ended what and that the other side knows or is
about to; `FlowInv` says where the bytes of the request and of its answer are, which
gives `Aligned`. Bytes under way are counted as the cardinality of a set of positions
(packet, offset), because sums over a sequence would need an induction that the
provers do not have.

### The session (`SshSessionProofs`)

For requests and windows of any size, any number of requests and of key exchanges
that either side asks for, and DISCONNECT in every phase (`SessionAssumption`):

| theorem | states |
|---|---|
| `SessionInvariance` | `Spec => []SessionInv` |
| `SessionTypes` | `Spec => []TypeOK` |
| `NobodyRefuses` | `Spec => []NeverRefused` |
| `NothingStranded` | `Spec => []QueueNotStranded` |
| `AllReleased` | `Spec => []HandlesReleased` |

That nobody refuses a packet is a statement about both ends and all that lies
between them, so most of `SessionInv` describes the two queues. `ServerKexInv` and
`ClientKexInv` give for each packet under way the keys it was sent with, and where
KEXINIT, KEXDH_INIT, KEXDH_REPLY and NEWKEYS may be in each stage of an exchange:
what follows the server's NEWKEYS has the next keys, nothing but exchange packets
follows a KEXINIT. `AuthInv` and `OrderInv` say which request of the authentication is
open and that its answers come in order, `SuccessInv` that data and further
exchanges come behind USERAUTH_SUCCESS; the filter needs all three, since it looks at
`session_state`, `auth_state` and `service_state`. For `QueueNotStranded` there is
`WaitInv`: between its own NEWKEYS and the server's the client is in a wait and
sends nothing, although `ssh_packet_send` would queue a packet that nothing sends.
`CreditInv` counts the window: credit, data under way or queued, grants owed and
grants under way together are never more than `Window`.

### Only model-checked

The liveness properties (`Shutdown`, `ArchiveDrains`, `ArchivedIsUploaded`,
`ExchangeEnds` and the three `CallsReturn`) are outside the prover: it has neither
fairness nor ENABLED. The five claims that the code breaks are shown by
counterexamples. No module declares a RECURSIVE operator.

## Not modelled

- A consumer on RemoteHost2. The destination path is fixed, so each upload
  replaces the previous one; `delivered` counts what has arrived whole.
- File times that do not come from the writing of the file (a clock skew between
  the hosts, `touch`, `mv` of an older file into the directory).
- `download_files` and `create_zip_from_files` of `file-transfer.cpp`, which nobody
  calls; `daemonize`, `delete_self`: disabled. Logging.
- The version exchange of `sftp_init` and the negotiation of algorithms: they
  succeed or fail once, and nothing later depends on more than that.
- A peer that breaks the protocol. The servers of the models are honest, and may
  refuse, close, disconnect or vanish at any moment the protocol allows.
- The rest of the two libraries, by far the larger part of the repository: three
  alternative cryptographic backends and the key formats (`pki*.c`, `libcrypto.c`,
  `gcrypt`, `mbedtls`), the parsers of options and configuration files, the server
  side, GSSAPI, agents, known hosts and forwarding of libssh; compression, ciphers,
  the ZIP format and the platform sources of libzip; examples and tests. Most of it
  is a function from bytes to bytes without a state the properties here could be
  about, belongs to a build this repository does not make, or is reached by no call
  of the program. The map therefore covers the two programs and, of the libraries,
  the files that carry protocol state; a large share of all lines is not to be
  reached with faithful models.

## Plan

1. Done: the threaded program, its runs and theorems; the abstract relay and its
   refinement; the copy loops, the SFTP client, the channel and the session; libzip
   and the sequential program; proofs of all safety and action properties of the
   passing runs and of the refinement.
2. Theorems that go beyond the runs: what the levels promise each other (that the
   bytes of a request reach the server of `SshChannel` in the order of the packets of
   `SshSession`), and bounds, for example on the length of `out_queue`.
3. Shorter proofs where several lemmas repeat a case split.
