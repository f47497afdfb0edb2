------------------------------ MODULE CopyLoops ------------------------------
(***************************************************************************)
(* The functions of file-transfer.cpp that talk to an SFTP server, request *)
(* by request: list_new_files and download_file, which the download thread *)
(* calls, and upload_file, which the upload thread calls.  FileTransfer    *)
(* has each of their loops as one step; here other programs write the file *)
(* while it is read, the server refuses requests, and the connection       *)
(* breaks between any two of them.                                         *)
(***************************************************************************)
EXTENDS SftpClient

CONSTANTS
    ReadSize,     \* blocks in temp_buffer of download_file
    WriteSize,    \* blocks in buffer of upload_file
    Archive,      \* content of the local archive
    Lengths,      \* lengths that the file on RemoteHost1 may have
    MaxRewrites,  \* bound: rewrites of that file
    MaxCalls,     \* bound: calls of the three functions
    ReadErrors    \* whether ifstream::read may fail

ASSUME CopyAssumption ==
    /\ ReadSize \in Nat \ {0}
    /\ WriteSize \in Nat \ {0}
    /\ MaxRewrites \in Nat
    /\ MaxCalls \in Nat
    /\ ReadErrors \in BOOLEAN
    /\ Archive \in Seq(Nat)
    /\ Lengths \subseteq Nat

VARIABLES
    thread,       \* "download" or "upload"
    pc,           \* the call that waits for an answer
    calls,        \* functions called so far
    version,      \* the last version of the file on RemoteHost1
    buffer,       \* download_file: what has been read
    new_files,    \* list_new_files: what has been listed
    position,     \* upload_file: blocks read from the local archive
    failed,       \* an sftp_read or sftp_write has returned an error
    result,       \* what the last function returned
    (* History variables *)
    seen,         \* contents the remote file has had since it was opened
    complete,     \* the last listing met the end of the directory
    bad           \* ifstream::read has failed in this upload

localVars == <<buffer, new_files, position, failed>>
histVars  == <<seen, complete, bad>>
vars == <<sftpVars, thread, pc, calls, version, localVars, result, histVars>>

Content(v, n) == [i \in 1..n |-> v]

Init ==
    /\ SftpInit
    /\ thread \in {"download", "upload"}
    /\ IF thread = "download"
       THEN version = 1 /\ \E n \in Lengths : remote = Content(1, n)
       ELSE version = 0 /\ remote = <<>>
    /\ pc = "idle"
    /\ calls = 0
    /\ buffer = <<>> /\ new_files = {} /\ position = 0 /\ failed = FALSE
    /\ result = "none"
    /\ seen = {} /\ complete = FALSE /\ bad = FALSE

\* What no step of the thread touches.
Frame == UNCHANGED <<conn, replies, serverVars, thread, version>>

\* The thread calls one of its functions.
Enter(t) ==
    /\ pc = "idle"
    /\ thread = t
    /\ calls < MaxCalls
    /\ calls' = calls + 1
    /\ result' = "none"
    /\ UNCHANGED <<queue, file>>
    /\ Frame

\* The function returns.
Return(r) ==
    /\ pc' = "idle"
    /\ result' = r
    /\ UNCHANGED <<requests, id_counter, call_id, calls>>

Continue(next) ==
    /\ pc' = next
    /\ UNCHANGED <<calls, result>>

-----------------------------------------------------------------------------
(* list_new_files *)

list_new_files ==
    /\ Enter("download")
    /\ sftp_opendir
    /\ pc' = "opendir"
    /\ new_files' = {}
    /\ complete' = FALSE
    /\ UNCHANGED <<buffer, position, failed, seen, bad>>

list_opendir ==
    /\ pc = "opendir"
    /\ \/ /\ parse_handle_msg
          /\ sftp_readdir(file')
          /\ Continue("readdir")
       \/ /\ CallFails
          /\ Return("false")
          /\ UNCHANGED file
    /\ UNCHANGED <<localVars, histVars>>
    /\ Frame

(***************************************************************************)
(* The loop goes on until sftp_readdir returns NULL, at the end of the     *)
(* directory and on an error alike, and closes the directory.              *)
(***************************************************************************)
list_readdir ==
    /\ pc = "readdir"
    /\ \/ /\ readdir_returns
          /\ new_files' = new_files \cup readdir_names
          /\ sftp_readdir(file)
          /\ Continue("readdir")
          /\ UNCHANGED complete
       \/ /\ sftp_dequeue("EOF") /\ complete' = TRUE
          /\ sftp_handle_close(file)
          /\ Continue("closedir")
          /\ UNCHANGED new_files
       \/ /\ CallFails
          /\ sftp_handle_close(file)
          /\ Continue("closedir")
          /\ UNCHANGED <<new_files, complete>>
    /\ UNCHANGED <<file, buffer, position, failed, seen, bad>>
    /\ Frame

\* sftp_closedir; its result is ignored.
list_closedir ==
    /\ pc = "closedir"
    /\ sftp_dequeue("OK") \/ CallFails
    /\ Return(IF new_files = {} THEN "false" ELSE "true")
    /\ file' = NoHandle
    /\ UNCHANGED <<localVars, histVars>>
    /\ Frame

-----------------------------------------------------------------------------
(* download_file *)

download_file ==
    /\ Enter("download")
    /\ sftp_open("OPEN_READ")
    /\ pc' = "open"
    /\ buffer' = <<>>
    /\ failed' = FALSE
    /\ seen' = {remote}
    /\ UNCHANGED <<new_files, position, complete, bad>>

download_open ==
    /\ pc = "open"
    /\ \/ /\ parse_handle_msg
          /\ sftp_read(file', ReadSize)
          /\ Continue("read")
       \/ /\ CallFails
          /\ Return("false")
          /\ UNCHANGED file
    /\ UNCHANGED <<localVars, histVars>>
    /\ Frame

\* Mutant: nbytes < 0 is not told apart from the end of the file.
read_error_unnoticed ==
    /\ CallFails
    /\ sftp_handle_close(file)
    /\ Continue("close")
    /\ UNCHANGED failed

\* Mutant: the loop ends at nbytes = 0 only.
read_error_retried ==
    /\ CallFails
    /\ sftp_read(file, ReadSize)
    /\ Continue("read")
    /\ UNCHANGED failed

\* sftp_read returns -1: the loop ends, and nbytes < 0 is remembered.
read_error ==
    /\ CallFails
    /\ sftp_handle_close(file)
    /\ Continue("close")
    /\ failed' = TRUE

\* One iteration of the loop: data, the end of the file, or an error.
download_read ==
    /\ pc = "read"
    /\ \/ /\ read_returns
          /\ buffer' = buffer \o Message.data
          /\ sftp_read(file', ReadSize)
          /\ Continue("read")
          /\ UNCHANGED failed
       \/ /\ sftp_dequeue("EOF")
          /\ sftp_handle_close(file)
          /\ Continue("close")
          /\ UNCHANGED <<buffer, failed, file>>
       \/ /\ read_error
          /\ UNCHANGED <<buffer, file>>
    /\ UNCHANGED <<new_files, position, histVars>>
    /\ Frame

\* sftp_close; its result is ignored.  nbytes < 0 makes the function fail.
download_close ==
    /\ pc = "close"
    /\ sftp_dequeue("OK") \/ CallFails
    /\ Return(IF failed THEN "false" ELSE "true")
    /\ file' = NoHandle
    /\ UNCHANGED <<localVars, histVars>>
    /\ Frame

-----------------------------------------------------------------------------
(* upload_file once it has opened the local archive (UploadRoutine has the *)
(* failure to open it); the semaphore keeps the archive as it is.          *)

upload_file ==
    /\ Enter("upload")
    /\ sftp_open("OPEN_TRUNC")
    /\ pc' = "create"
    /\ position' = 0
    /\ failed' = FALSE
    /\ bad' = FALSE
    /\ UNCHANGED <<buffer, new_files, seen, complete>>

\* What gcount() is after file.read: less than asked for at the end.
Gcount == IF Len(Archive) - position < WriteSize
          THEN Len(Archive) - position
          ELSE WriteSize

(***************************************************************************)
(* The head of the loop: the next blocks are written, or there are none.   *)
(* An error inside ifstream::read leaves gcount() at 0, like the end of    *)
(* the file.                                                               *)
(***************************************************************************)
read_and_write(f) ==
    \/ /\ Gcount > 0
       /\ sftp_write(f, SubSeq(Archive, position + 1, position + Gcount))
       /\ position' = position + Gcount
       /\ Continue("write")
       /\ UNCHANGED bad
    \/ /\ Gcount = 0 \/ ReadErrors
       /\ bad' = (Gcount > 0)
       /\ sftp_handle_close(f)
       /\ Continue("finish")
       /\ UNCHANGED position

upload_open ==
    /\ pc = "create"
    /\ \/ /\ parse_handle_msg
          /\ read_and_write(file')
       \/ /\ CallFails
          /\ Return("false")
          /\ UNCHANGED <<file, position, bad>>
    /\ UNCHANGED <<buffer, new_files, failed, seen, complete>>
    /\ Frame

\* Mutant: the loop goes on when sftp_write has failed.
upload_write_goes_on ==
    /\ pc = "write"
    /\ \/ write_returns(position - file.offset)
       \/ CallFails /\ file' = advance(file, position - file.offset)
    /\ read_and_write(file')
    /\ UNCHANGED <<failed, buffer, new_files, seen, complete>>
    /\ Frame

upload_write ==
    /\ pc = "write"
    /\ \/ /\ write_returns(position - file.offset)
          /\ read_and_write(file')
          /\ UNCHANGED failed
       \/ /\ CallFails
          /\ file' = advance(file, position - file.offset)
          /\ failed' = TRUE
          /\ sftp_handle_close(file)
          /\ Continue("finish")
          /\ UNCHANGED <<position, bad>>
    /\ UNCHANGED <<buffer, new_files, seen, complete>>
    /\ Frame

\* sftp_close; its result is ignored.
upload_close ==
    /\ pc = "finish"
    /\ sftp_dequeue("OK") \/ CallFails
    /\ Return(IF failed THEN "false" ELSE "true")
    /\ file' = NoHandle
    /\ UNCHANGED <<localVars, histVars>>
    /\ Frame

-----------------------------------------------------------------------------
(* Composition *)

\* Some program rewrites the file on RemoteHost1, in place.
Rewrite(n) ==
    /\ thread = "download"
    /\ version <= MaxRewrites
    /\ version' = version + 1
    /\ remote' = Content(version + 1, n)
    /\ seen' = seen \cup {remote'}
    /\ UNCHANGED <<conn, netVars, clientVars, file, handles, unlisted,
                   refusals, thread, pc, calls, localVars, result, complete,
                   bad>>

callerVars == <<thread, pc, calls, version, localVars, result, histVars>>

Dispatch    == pc # "idle" /\ sftp_read_and_dispatch /\ UNCHANGED callerVars
Serve       == Server /\ UNCHANGED callerVars
ConnectionLost == Disconnect /\ UNCHANGED callerVars

Caller ==
    \/ list_new_files \/ list_opendir \/ list_readdir \/ list_closedir
    \/ download_file \/ download_open \/ download_read \/ download_close
    \/ upload_file \/ upload_open \/ upload_write \/ upload_close

\* The thread has made all the calls that the bound allows.
Finished ==
    /\ pc = "idle"
    /\ calls = MaxCalls
    /\ UNCHANGED vars

Next ==
    \/ Caller
    \/ Dispatch
    \/ Serve
    \/ ConnectionLost
    \/ \E n \in Lengths : Rewrite(n)
    \/ Finished

(***************************************************************************)
(* A server that is connected answers, and what has arrived is read.  A    *)
(* broken connection is noticed.                                           *)
(***************************************************************************)
Spec == Init /\ [][Next]_vars /\ WF_vars(Caller) /\ WF_vars(Dispatch)
             /\ WF_vars(Serve)

-----------------------------------------------------------------------------
(* Properties *)

(***************************************************************************)
(* When a function has returned, nothing of it is left: no answer under    *)
(* way or queued that a later call with the same id could take for its     *)
(* own, and no open handle on the server, on the error paths too.          *)
(***************************************************************************)
NothingLeftBehind ==
    pc = "idle" =>
        /\ requests = <<>>
        /\ replies = <<>>
        /\ queue = <<>>
        /\ handles = {}
        /\ file = NoHandle

(***************************************************************************)
(* When download_file returns true, it has a content that the file had     *)
(* while it was being read, provided nobody wrote it meanwhile; otherwise  *)
(* each block is at its place in some version the file had meanwhile, and  *)
(* the end is the end of such a version or lies beyond it.                 *)
(***************************************************************************)
DownloadIsFaithful ==
    pc = "close" /\ ~failed =>
        /\ \A i \in DOMAIN buffer :
               \E s \in seen : i \in DOMAIN s /\ buffer[i] = s[i]
        /\ \E s \in seen : Len(buffer) >= Len(s)
        /\ \A s \in seen : seen = {s} => buffer = s

(***************************************************************************)
(* While upload_file works and after it has failed, what is on RemoteHost2 *)
(* is a prefix of the archive: blocks arrive in order, none is skipped or  *)
(* sent twice, whatever is refused.  When it returns true all blocks have  *)
(* arrived, unless the local archive could not be read.                    *)
(***************************************************************************)
UploadIsPrefix ==
    thread = "upload" =>
        /\ IsPrefix(remote, Archive)
        /\ result = "true" /\ ~bad => remote = Archive

(***************************************************************************)
(* A listing without an error has every name of the directory, however the *)
(* server groups them into answers.                                        *)
(***************************************************************************)
ListingIsComplete ==
    pc = "closedir" /\ complete => new_files = Names

\* Each function returns, also when the connection breaks.
CallsReturn == (pc # "idle") ~> (pc = "idle")
-----------------------------------------------------------------------------
(* The inductive invariant behind the safety properties *)

\* The calls that open a handle, and those that close it.
Opening == {"opendir", "open", "create"}
Closing == {"closedir", "close", "finish"}

\* The answer that has arrived at the client, or is about to.
HasReply == replies # <<>> \/ queue # <<>>
Reply == IF queue # <<>> THEN queue[1] ELSE replies[1]
Replied(type) == HasReply /\ Reply.type = type

\* The request that a call makes, and the answers it may get.
Asks(op) ==
    \/ pc = "opendir" /\ op = "OPENDIR"
    \/ pc = "readdir" /\ op = "READDIR"
    \/ pc = "open" /\ op = "OPEN_READ"
    \/ pc = "read" /\ op = "READ"
    \/ pc = "create" /\ op = "OPEN_TRUNC"
    \/ pc = "write" /\ op = "WRITE"
    \/ pc \in Closing /\ op = "CLOSE"

Fits(type) ==
    \/ type = "FAILURE"
    \/ pc \in Opening /\ type = "HANDLE"
    \/ pc = "readdir" /\ type \in {"NAME", "EOF"}
    \/ pc = "read" /\ type \in {"DATA", "EOF"}
    \/ pc \in Closing \cup {"write"} /\ type = "OK"

\* Where each thread may be.
PcInv ==
    /\ pc \in {"idle", "readdir", "read", "write"} \cup Opening \cup Closing
    /\ pc \in {"opendir", "readdir", "closedir", "open", "read", "close"} =>
           thread = "download"
    /\ pc \in {"create", "write", "finish"} => thread = "upload"
    /\ pc # "idle" => result = "none"
    /\ conn \in {"up", "down"}
    /\ {failed, complete, bad} \subseteq BOOLEAN

One(q) == Len(q) = 1 /\ q = <<q[1]>>

\* One packet at most is under way, and it is about the call in progress.
NetInv ==
    /\ pc = "idle" => requests = <<>> /\ ~HasReply
    /\ requests # <<>> =>
           /\ One(requests) /\ ~HasReply
           /\ conn = "up"
           /\ requests[1].id = call_id
           /\ Asks(requests[1].op)
    /\ replies = <<>> \/ (One(replies) /\ queue = <<>>)
    /\ queue = <<>> \/ One(queue)
    /\ HasReply => Reply.id = call_id /\ Fits(Reply.type)

\* The server has the handle open that the client has or is about to get.
HandleInv ==
    /\ file = [handle |-> file.handle, offset |-> file.offset]
    /\ conn = "down" => handles = {}
    /\ pc = "idle" => handles = {} /\ file = NoHandle
    /\ pc \in Opening =>
           /\ file = NoHandle
           /\ handles \subseteq IF Replied("HANDLE") THEN {Reply.handle} ELSE {}
    /\ pc \in {"readdir", "read", "write"} => handles \subseteq {file.handle}
    /\ pc \in Closing =>
           /\ handles \subseteq {file.handle}
           /\ handles # {} => requests # <<>>
           /\ requests # <<>> => requests[1].file.handle = file.handle

\* Every name is listed, in the answer, or yet to be listed.
ListInv ==
    /\ pc = "opendir" =>
           /\ new_files = {} /\ complete = FALSE
           /\ Replied("HANDLE") => unlisted = Names
    /\ pc = "readdir" =>
           /\ complete = FALSE
           /\ requests # <<>> => new_files \cup unlisted = Names
           /\ Replied("NAME") =>
                  new_files \cup Reply.names \cup unlisted = Names
           /\ Replied("EOF") => new_files = Names
    /\ ListingIsComplete

\* Block b is at index i of some content the file had since it was opened.
InSome(i, b) == \E s \in seen : i \in 1..Len(s) /\ s[i] = b

\* The buffer reaches to the end of one of them.
AtEnd == \E s \in seen : Len(s) <= Len(buffer)

\* Each block that was read, or is in the answer, is at its place.
DownInv == thread = "download" =>
    /\ buffer \in Seq(Nat) /\ remote \in Seq(Nat) /\ seen \subseteq Seq(Nat)
    /\ version \in Nat
    /\ pc \in {"open", "read", "close"} =>
           remote \in seen /\ \A i \in 1..Len(buffer) : InSome(i, buffer[i])
    /\ pc = "open" => buffer = <<>>
    /\ pc = "read" =>
           /\ file.offset = Len(buffer)
           /\ requests # <<>> =>
                  requests[1].file = file /\ requests[1].count = ReadSize
           /\ Replied("DATA") =>
                  /\ Reply.data \in Seq(Nat)
                  /\ \A j \in 1..Len(Reply.data) :
                         InSome(Len(buffer) + j, Reply.data[j])
           /\ Replied("EOF") => AtEnd
    /\ pc = "close" /\ ~failed => AtEnd

\* The remote file has the blocks up to the offset, and those being written.
UpInv == thread = "upload" =>
    /\ remote \in Seq(Nat) /\ Len(remote) <= Len(Archive)
    /\ \A i \in 1..Len(remote) : remote[i] = Archive[i]
    /\ position \in 0..Len(Archive)
    /\ pc = "create" => position = 0 /\ (Replied("HANDLE") => remote = <<>>)
    /\ pc = "write" =>
           /\ file.offset \in 0..position
           /\ requests # <<>> =>
                  /\ requests[1].file = file
                  /\ requests[1].data = SubSeq(Archive, file.offset + 1, position)
                  /\ Len(remote) = file.offset
           /\ Replied("OK") => Len(remote) = position
    /\ pc = "finish" /\ ~failed /\ ~bad => Len(remote) = Len(Archive)
    /\ result = "true" /\ ~bad => Len(remote) = Len(Archive)

CopyInv ==
    /\ PcInv
    /\ NetInv
    /\ HandleInv
    /\ ListInv
    /\ DownInv
    /\ UpInv
=============================================================================
