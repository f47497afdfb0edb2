----------------------------- MODULE SftpClient ------------------------------
(***************************************************************************)
(* The SFTP requests of one session (libssh, sftp.c) and the server they   *)
(* reach.  A thread of the program has a session of its own and waits for  *)
(* the answer of every request, so that one request is under way at a      *)
(* time.  The server keeps one directory and one file: the file that       *)
(* download_file reads or upload_file writes.                              *)
(*                                                                         *)
(* Content is a sequence of blocks; a block is the number of the version   *)
(* it belongs to.  How the bytes of a packet travel is in SshChannel.      *)
(***************************************************************************)
EXTENDS Integers, SequencesExt

CONSTANTS
    IdSpace,       \* number of request ids (2^32 in the code)
    Names,         \* names in the directory
    MaxRefusals    \* bound: requests that the server refuses

ASSUME SftpAssumption ==
    /\ IdSpace \in Nat \ {0}
    /\ MaxRefusals \in Nat

VARIABLES
    conn,          \* "up" or "down"
    requests,      \* packets on their way to the server
    replies,       \* packets on their way to the client
    id_counter,    \* sftp->id_counter
    queue,         \* sftp->queue: messages received and not dequeued
    call_id,       \* id of the request the current call waits for
    file,          \* the client's sftp_file or sftp_dir: handle and offset
    handles,       \* handles open on the server
    unlisted,      \* names the server has yet to list
    remote,        \* content of the file on the server
    refusals       \* requests refused so far

netVars    == <<requests, replies>>
clientVars == <<id_counter, queue, call_id>>
serverVars == <<handles, unlisted, remote, refusals>>
sftpVars   == <<conn, netVars, clientVars, file, serverVars>>

NoHandle == [handle |-> 0, offset |-> 0]
Handles  == 1..2

SftpInit ==
    /\ conn = "up"
    /\ requests = <<>>
    /\ replies = <<>>
    /\ id_counter = 0
    /\ queue = <<>>
    /\ call_id = 0
    /\ file = NoHandle
    /\ handles = {}
    /\ unlisted = {}
    /\ refusals = 0

-----------------------------------------------------------------------------
(* Client *)

\* ++session->id_counter, an unsigned integer.
sftp_get_new_id == (id_counter + 1) % IdSpace

(***************************************************************************)
(* How every call begins: a new id, and a packet with it, the handle and   *)
(* the offset of f, a count and data.  On a dead connection nothing is     *)
(* sent, and the call will fail.                                           *)
(***************************************************************************)
sftp_packet_write(op, f, count, data) ==
    /\ id_counter' = sftp_get_new_id
    /\ call_id' = sftp_get_new_id
    /\ requests' = IF conn = "up"
                   THEN Append(requests, [op |-> op, id |-> sftp_get_new_id,
                                          file |-> f, count |-> count,
                                          data |-> data])
                   ELSE requests

\* The first message in the queue with the id of the current call; 0: none.
Found    == SelectInSeq(queue, LAMBDA m : m.id = call_id)
Answered == Found # 0
Message  == queue[Found]

(***************************************************************************)
(* One packet is read, made a message and queued.  Only the answer to the  *)
(* current call ends the loop around this function.                        *)
(***************************************************************************)
sftp_read_and_dispatch ==
    /\ replies # <<>>
    /\ ~Answered
    /\ queue' = Append(queue, Head(replies))
    /\ replies' = Tail(replies)
    /\ UNCHANGED <<conn, requests, id_counter, call_id, file, serverVars>>

\* Mutant: the message stays in the queue.
sftp_dequeue_peeks(type) ==
    /\ Answered
    /\ Message.type = type
    /\ UNCHANGED queue

\* The call has an answer of this type.
sftp_dequeue(type) ==
    /\ Answered
    /\ Message.type = type
    /\ queue' = RemoveAt(queue, Found)

(***************************************************************************)
(* The call returns an error: the connection is gone and no packet is      *)
(* left, or the answer is a status that is neither OK nor EOF.             *)
(***************************************************************************)
CallFails ==
    \/ /\ conn = "down"
       /\ replies = <<>>
       /\ ~Answered
       /\ UNCHANGED queue
    \/ sftp_dequeue("FAILURE")

(***************************************************************************)
(* The calls the program makes.  Each is a request, and the answer other   *)
(* than an error that lets it return.                                      *)
(***************************************************************************)
sftp_opendir == sftp_packet_write("OPENDIR", NoHandle, 0, <<>>)

\* flags is "OPEN_READ" (O_RDONLY) or "OPEN_TRUNC" (O_WRONLY|O_CREAT|O_TRUNC).
sftp_open(flags) == sftp_packet_write(flags, NoHandle, 0, <<>>)

\* A new sftp_file or sftp_dir.
parse_handle_msg ==
    /\ sftp_dequeue("HANDLE")
    /\ file' = [handle |-> Message.handle, offset |-> 0]

sftp_handle_close(f) == sftp_packet_write("CLOSE", f, 0, <<>>)

sftp_readdir(f) == sftp_packet_write("READDIR", f, 0, <<>>)

readdir_returns == sftp_dequeue("NAME")

\* Mutant: one name is taken from an answer, whatever its count.
readdir_one_name == {CHOOSE n \in Message.names : TRUE}

\* The names of one answer, which later calls hand out without a request.
readdir_names == Message.names

\* The sftp_file after n blocks.
advance(f, n) == [f EXCEPT !.offset = @ + n]

sftp_read(f, count) == sftp_packet_write("READ", f, count, <<>>)

read_returns ==
    /\ sftp_dequeue("DATA")
    /\ file' = advance(file, Len(Message.data))

sftp_write(f, data) == sftp_packet_write("WRITE", f, 0, data)

write_returns(n) ==
    /\ sftp_dequeue("OK")
    /\ file' = advance(file, n)

-----------------------------------------------------------------------------
(* Server *)

(***************************************************************************)
(* The server answers the oldest request: with a status (OK, EOF or        *)
(* FAILURE), a handle, some names or some data.                            *)
(***************************************************************************)
Answer(type, handle, names, data) ==
    /\ conn = "up"
    /\ requests # <<>>
    /\ requests' = Tail(requests)
    /\ replies' = Append(replies, [type |-> type, id |-> Head(requests).id,
                                   handle |-> handle, names |-> names,
                                   data |-> data])
    /\ UNCHANGED <<conn, clientVars, file>>

Status(s) == Answer(s, 0, {}, <<>>)

Requested(op) == requests # <<>> /\ Head(requests).op = op

ServeOpen ==
    /\ \E h \in Handles \ handles :
           handles' = handles \cup {h} /\ Answer("HANDLE", h, {}, <<>>)
    /\ \/ Requested("OPENDIR") /\ unlisted' = Names /\ UNCHANGED remote
       \/ Requested("OPEN_READ") /\ UNCHANGED <<unlisted, remote>>
       \/ Requested("OPEN_TRUNC") /\ remote' = <<>> /\ UNCHANGED unlisted
    /\ UNCHANGED refusals

\* Some of the names, or the end of the directory.
ServeReaddir ==
    /\ Requested("READDIR")
    /\ \/ \E some \in SUBSET unlisted \ {{}} :
              Answer("NAME", 0, some, <<>>) /\ unlisted' = unlisted \ some
       \/ /\ unlisted = {}
          /\ Status("EOF")
          /\ UNCHANGED unlisted
    /\ UNCHANGED <<handles, remote, refusals>>

\* Some of the blocks asked for, or the end of the file.
ServeRead ==
    /\ Requested("READ")
    /\ LET r == Head(requests)
           n == Len(remote) - r.file.offset
       IN  \/ \E k \in 1..r.count :
                  /\ k <= n
                  /\ Answer("DATA", 0, {}, SubSeq(remote, r.file.offset + 1,
                                                 r.file.offset + k))
           \/ n <= 0 /\ Status("EOF")
    /\ UNCHANGED serverVars

\* s with data at an offset; a gap before it is filled with zeros.
WriteAt(s, offset, data) ==
    [i \in 1..(IF offset + Len(data) > Len(s)
               THEN offset + Len(data)
               ELSE Len(s)) |->
        IF i > offset /\ i <= offset + Len(data)
        THEN data[i - offset]
        ELSE IF i \in DOMAIN s THEN s[i] ELSE 0]

ServeWrite ==
    /\ Requested("WRITE")
    /\ LET r == Head(requests)
       IN  remote' = WriteAt(remote, r.file.offset, r.data)
    /\ Status("OK")
    /\ UNCHANGED <<handles, unlisted, refusals>>

ServeClose ==
    /\ Requested("CLOSE")
    /\ handles' = handles \ {Head(requests).file.handle}
    /\ Status("OK")
    /\ UNCHANGED <<unlisted, remote, refusals>>

\* Any other error.  A failed WRITE may have written some of its blocks; a
\* handle whose CLOSE failed is not open any more.
Refuse ==
    /\ refusals < MaxRefusals
    /\ refusals' = refusals + 1
    /\ Status("FAILURE")
    /\ handles' = IF Requested("CLOSE")
                  THEN handles \ {Head(requests).file.handle}
                  ELSE handles
    /\ \/ UNCHANGED remote
       \/ /\ Requested("WRITE")
          /\ LET r == Head(requests)
             IN  \E k \in 1..Len(r.data) - 1 :
                     remote' = WriteAt(remote, r.file.offset,
                                       SubSeq(r.data, 1, k))
    /\ UNCHANGED unlisted

Server ==
    \/ ServeOpen \/ ServeReaddir \/ ServeRead \/ ServeWrite \/ ServeClose
    \/ Refuse

(***************************************************************************)
(* The connection breaks: requests are lost, and so are answers that have  *)
(* not arrived; the server closes what the session had open.               *)
(***************************************************************************)
Disconnect ==
    /\ conn = "up"
    /\ conn' = "down"
    /\ requests' = <<>>
    /\ \E k \in 0..Len(replies) : replies' = SubSeq(replies, 1, k)
    /\ handles' = {}
    /\ UNCHANGED <<clientVars, file, unlisted, remote, refusals>>
=============================================================================
