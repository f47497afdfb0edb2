--------------------------- MODULE CopyLoopsProofs ---------------------------
(***************************************************************************)
(* Proofs about CopyLoops, the functions that list, download and upload,   *)
(* request by request: for every archive, chunk size, directory and number *)
(* of request ids, whatever the server refuses and wherever the connection *)
(* breaks.  CopyInv is preserved by every step; it says which single       *)
(* packet may be under way at each point, and what is known of the server  *)
(* from it.                                                                *)
(***************************************************************************)
EXTENDS CopyLoops, SequenceTheorems, TLAPS

USE DEF netVars, clientVars, serverVars, sftpVars, localVars, histVars,
        callerVars, vars

-----------------------------------------------------------------------------
(* Packets *)

\* A queue of one packet.
LEMMA OnePacket ==
  ASSUME NEW q, One(q)
  PROVE  Head(q) = q[1] /\ Tail(q) = <<>>
<1>1. q \in Seq({q[1]}) /\ q # <<>>
  <2> DEFINE e == q[1]
  <2>1. q = <<e>>
    BY DEF One
  <2> HIDE DEF e
  <2>2. <<e>> \in Seq({e}) /\ <<e>> # <<>>
    OBVIOUS
  <2> QED
    BY <2>1, <2>2 DEF e
<1>2. Tail(q) \in Seq({q[1]}) /\ Len(Tail(q)) = 0
  BY <1>1, HeadTailProperties DEF One
<1>3. Head(q) = q[1]
  BY <1>1, HeadTailProperties
<1> QED
  BY <1>2, <1>3, EmptySeq

\* A call that has an answer takes the only message in the queue.
LEMMA dequeue_Effect ==
  ASSUME NetInv, NEW type, sftp_dequeue(type)
  PROVE  /\ Replied(type) /\ Message = Reply
         /\ requests = <<>> /\ replies = <<>> /\ queue' = <<>>
<1>1. queue # <<>>
  BY DEF sftp_dequeue, Answered, Found, SelectInSeq
<1>2. /\ Len(queue) = 1 /\ queue = <<queue[1]>> /\ Reply = queue[1]
      /\ queue[1].id = call_id /\ HasReply
      /\ requests = <<>> /\ replies = <<>>
  BY <1>1 DEF NetInv, One, HasReply, Reply
<1>3. Found = 1
  <2>1. {i \in 1..Len(queue) : queue[i].id = call_id} = {1}
    BY <1>2
  <2> QED
    BY <2>1 DEF Found, SelectInSeq, Min
<1>4. queue' = <<>>
  <2>1. SubSeq(queue, 1, 0) = <<>> /\ SubSeq(queue, 2, 1) = <<>>
    BY SubSeqEmpty
  <2> QED
    BY <1>2, <1>3, <2>1 DEF sftp_dequeue, RemoveAt
<1> QED
  BY <1>2, <1>3, <1>4 DEF sftp_dequeue, Message, Replied

\* A call that fails leaves no packet behind.
LEMMA CallFails_Effect ==
  ASSUME NetInv, CallFails
  PROVE  /\ Replied("FAILURE") \/ conn = "down"
         /\ requests = <<>> /\ replies = <<>> /\ queue' = <<>>
<1>1. CASE sftp_dequeue("FAILURE")
  BY <1>1, dequeue_Effect
<1>2. CASE conn = "down" /\ replies = <<>> /\ ~Answered /\ UNCHANGED queue
  <2>1. requests = <<>>
    BY <1>2 DEF NetInv
  <2>2. queue = <<>>
    <3> SUFFICES ASSUME queue # <<>>
                 PROVE  FALSE
      OBVIOUS
    <3>1. Len(queue) = 1 /\ queue[1].id = call_id
      BY DEF NetInv, One, HasReply, Reply
    <3>2. {i \in 1..Len(queue) : queue[i].id = call_id} = {1}
      BY <3>1
    <3> QED
      BY <1>2, <3>2 DEF Answered, Found, SelectInSeq, Min
  <2> QED
    BY <1>2, <2>1, <2>2
<1> QED
  BY <1>1, <1>2 DEF CallFails

\* A request is the only one under way, or lost on a dead connection.
LEMMA packet_write_Effect ==
  ASSUME requests = <<>>, NEW op, NEW f, NEW count, NEW data,
         sftp_packet_write(op, f, count, data)
  PROVE  \/ conn # "up" /\ requests' = <<>>
         \/ /\ conn = "up" /\ One(requests)'
            /\ requests'[1] = [op |-> op, id |-> call_id', file |-> f,
                               count |-> count, data |-> data]
BY DEF sftp_packet_write, One

\* A packet that is read moves from the network to the queue.
LEMMA Dispatch_Effect ==
  ASSUME NetInv, Dispatch
  PROVE  /\ requests = <<>> /\ replies' = <<>> /\ One(queue)'
         /\ HasReply /\ HasReply' /\ Reply' = Reply
         /\ UNCHANGED <<conn, requests, id_counter, call_id, file, serverVars,
                        callerVars>>
<1>1. /\ requests = <<>> /\ queue = <<>> /\ HasReply
      /\ replies = <<replies[1]>> /\ Reply = replies[1]
  BY DEF NetInv, One, HasReply, Reply, Dispatch, sftp_read_and_dispatch
<1>2. queue' = <<replies[1]>> /\ replies' = <<>>
  BY <1>1 DEF Dispatch, sftp_read_and_dispatch
<1> QED
  BY <1>1, <1>2
  DEF Dispatch, sftp_read_and_dispatch, One, HasReply, Reply

\* The answer of the server takes the place of the request.
LEMMA Answer_Effect ==
  ASSUME NetInv, NEW type, NEW handle, NEW names, NEW data,
         Answer(type, handle, names, data)
  PROVE  /\ One(requests) /\ Head(requests) = requests[1]
         /\ requests' = <<>> /\ queue' = <<>> /\ One(replies)'
         /\ ~HasReply /\ HasReply'
         /\ Reply' = [type |-> type, id |-> call_id, handle |-> handle,
                      names |-> names, data |-> data]
         /\ UNCHANGED <<conn, clientVars, file>>
         /\ conn = "up"
<1>1. /\ Len(requests) = 1 /\ requests = <<requests[1]>> /\ ~HasReply
      /\ replies = <<>> /\ queue = <<>> /\ requests[1].id = call_id
  BY DEF NetInv, One, HasReply, Answer
<1>2. /\ Head(requests) = requests[1]
      /\ requests' = <<>> /\ queue' = <<>>
      /\ replies' = <<[type |-> type, id |-> call_id, handle |-> handle,
                       names |-> names, data |-> data]>>
  <2>1. Head(requests) = requests[1] /\ Tail(requests) = <<>>
    BY <1>1, OnePacket DEF One
  <2> QED
    BY <1>1, <2>1 DEF Answer
<1> QED
  BY <1>1, <1>2 DEF Answer, One, HasReply, Reply

\* What the connection loses, and what has arrived before.
LEMMA Disconnect_Effect ==
  ASSUME NetInv, ConnectionLost
  PROVE  /\ conn' = "down" /\ requests' = <<>> /\ handles' = {}
         /\ replies' \in {replies, <<>>}
         /\ HasReply' => HasReply /\ Reply' = Reply
         /\ UNCHANGED <<clientVars, file, unlisted, remote, refusals,
                        callerVars>>
<1>1. PICK k \in 0..Len(replies) : replies' = SubSeq(replies, 1, k)
  BY DEF ConnectionLost, Disconnect
<1>2. replies' \in {replies, <<>>}
  <2>1. CASE replies = <<>>
    BY <1>1, <2>1, SubSeqEmpty
  <2>2. CASE Len(replies) = 1 /\ replies = <<replies[1]>>
    <3>1. SubSeq(replies, 1, 0) = <<>>
      BY SubSeqEmpty
    <3>2. SubSeq(replies, 1, 1) = replies
      BY <2>2
    <3> QED
      BY <1>1, <2>2, <3>1, <3>2
  <2> QED
    BY <2>1, <2>2 DEF NetInv, One
<1> QED
  BY <1>2 DEF ConnectionLost, Disconnect, HasReply, Reply

-----------------------------------------------------------------------------
(* One packet at a time *)

\* The functions and their stages.
LEMMA PcInv_Step ==
  ASSUME PcInv, [Next]_vars
  PROVE  PcInv'
<1> USE DEF PcInv, Opening, Closing, Frame
<1>1. CASE \/ list_new_files \/ list_opendir \/ list_readdir
           \/ list_closedir
  BY <1>1
  DEF list_new_files, list_opendir, list_readdir, list_closedir, Enter,
      Return, Continue
<1>2. CASE download_file \/ download_open \/ download_read \/ download_close
  BY <1>2
  DEF download_file, download_open, download_read, download_close, read_error,
      Enter, Return, Continue
<1>3. CASE upload_file \/ upload_open \/ upload_write \/ upload_close
  <2>1. ASSUME bad' = (Gcount > 0)
        PROVE  bad' \in BOOLEAN
    <3>1. CASE Gcount > 0
      BY <2>1, <3>1
    <3>2. CASE ~(Gcount > 0)
      BY <2>1, <3>2
    <3> QED
      BY <3>1, <3>2
  <2>2. bad' \in BOOLEAN /\ failed' \in BOOLEAN /\ UNCHANGED complete
    BY <1>3, <2>1
    DEF upload_file, upload_open, upload_write, upload_close, read_and_write
  <2>3. /\ UNCHANGED <<conn, thread>>
        /\ pc' # "idle" => result' = "none"
        /\ \/ pc' = "idle"
           \/ thread = "upload" /\ pc' \in {"create", "write", "finish"}
    BY <1>3
    DEF upload_file, upload_open, upload_write, upload_close, read_and_write,
        Enter, Return, Continue
  <2>4. {failed', complete', bad'} \subseteq BOOLEAN
    BY <2>2
  <2> QED
    BY <2>3, <2>4
<1>4. CASE Dispatch \/ Serve \/ ConnectionLost
  BY <1>4
  DEF Dispatch, sftp_read_and_dispatch, ConnectionLost, Disconnect, Serve,
      Server, ServeOpen, ServeReaddir, ServeRead, ServeWrite, ServeClose,
      Refuse, Status, Answer
<1>5. CASE (\E n \in Lengths : Rewrite(n)) \/ Finished \/ UNCHANGED vars
  BY <1>5 DEF Rewrite, Finished
<1> QED
  BY <1>1, <1>2, <1>3, <1>4, <1>5 DEF Next, Caller

\* A call with nothing else under way sends its request.
LEMMA NetInv_Sends ==
  ASSUME PcInv', requests = <<>>, replies' = <<>>, queue' = <<>>,
         UNCHANGED conn, pc' # "idle",
         NEW op, NEW f, NEW count, NEW data,
         sftp_packet_write(op, f, count, data), Asks(op)'
  PROVE  NetInv'
<1>1. CASE conn # "up" /\ requests' = <<>>
  BY <1>1 DEF NetInv, HasReply
<1>2. CASE /\ conn = "up" /\ One(requests)'
           /\ requests'[1] = [op |-> op, id |-> call_id', file |-> f,
                              count |-> count, data |-> data]
  <2>1. requests'[1].op = op /\ requests'[1].id = call_id'
    BY <1>2
  <2> QED
    BY <1>2, <2>1 DEF NetInv, HasReply
<1> QED
  BY <1>1, <1>2, packet_write_Effect

\* A function that returns leaves nothing under way.
LEMMA NetInv_Returns ==
  ASSUME requests' = <<>>, replies' = <<>>, queue' = <<>>
  PROVE  NetInv'
BY DEF NetInv, HasReply

\* What the caller does with the answer of a call: it sends the next request,
\* or returns.
LEMMA CallerSteps ==
  ASSUME NetInv, Caller
  PROVE  /\ requests = <<>> /\ replies = <<>> /\ queue' = <<>>
         /\ UNCHANGED <<conn, replies, handles, unlisted, remote, refusals,
                        thread, version>>
         /\ ~HasReply'
<1>1. CASE list_new_files \/ download_file \/ upload_file
  BY <1>1
  DEF list_new_files, download_file, upload_file, Enter, Frame, NetInv,
      HasReply
<1>2. CASE list_opendir \/ download_open \/ upload_open
  BY <1>2, dequeue_Effect, CallFails_Effect
  DEF list_opendir, download_open, upload_open, parse_handle_msg, Frame,
      HasReply
<1>3. CASE list_readdir \/ download_read \/ upload_write
  BY <1>3, dequeue_Effect, CallFails_Effect
  DEF list_readdir, download_read, upload_write, readdir_returns,
      read_returns, read_error, write_returns, Frame, HasReply
<1>4. CASE list_closedir \/ download_close \/ upload_close
  BY <1>4, dequeue_Effect, CallFails_Effect
  DEF list_closedir, download_close, upload_close, Frame, HasReply
<1> QED
  BY <1>1, <1>2, <1>3, <1>4 DEF Caller

\* The request that follows, if there is one, belongs to the next stage.
LEMMA CallerSends ==
  ASSUME NetInv, Caller
  PROVE  \/ pc' = "idle" /\ UNCHANGED requests
         \/ \E op, f, count, data :
               /\ sftp_packet_write(op, f, count, data)
               /\ Asks(op)' /\ pc' # "idle"
<1> USE DEF Asks, Closing
<1>1. CASE list_new_files \/ download_file \/ upload_file
  BY <1>1, Zenon
  DEF list_new_files, download_file, upload_file, sftp_opendir, sftp_open
<1>2. CASE list_opendir \/ list_readdir
  BY <1>2, Zenon
  DEF list_opendir, list_readdir, sftp_readdir, sftp_handle_close, Return,
      Continue
<1>3. CASE download_open \/ download_read
  BY <1>3, Zenon
  DEF download_open, download_read, read_error, sftp_read, sftp_handle_close,
      Return, Continue
<1>4. CASE upload_open \/ upload_write
  BY <1>4, Zenon
  DEF upload_open, upload_write, read_and_write, sftp_write,
      sftp_handle_close, Return, Continue
<1>5. CASE list_closedir \/ download_close \/ upload_close
  BY <1>5 DEF list_closedir, download_close, upload_close, Return
<1> QED
  BY <1>1, <1>2, <1>3, <1>4, <1>5 DEF Caller

\* The kinds of answer that the server gives.
LEMMA ServeSteps ==
  ASSUME NetInv, Serve
  PROVE  \E type, handle, names, data :
           Answer(type, handle, names, data) /\ Fits(type)
<1>1. requests # <<>> => Asks(Head(requests).op) /\ pc # "idle"
  <2> SUFFICES ASSUME requests # <<>>
               PROVE  Asks(Head(requests).op) /\ pc # "idle"
    OBVIOUS
  <2>1. requests = <<requests[1]>> /\ Asks(requests[1].op) /\ pc # "idle"
    BY DEF NetInv, One
  <2>2. Head(requests) = requests[1]
    BY <2>1
  <2> QED
    BY <2>1, <2>2
<1>2. ASSUME NEW op, Requested(op)
      PROVE  Asks(op)
  BY <1>1, <1>2 DEF Requested
<1>3. CASE ServeOpen
  <2>1. pc \in Opening
    BY <1>2, <1>3 DEF ServeOpen, Asks, Opening, Closing
  <2> QED
    BY <1>3, <2>1 DEF ServeOpen, Fits
<1>4. CASE ServeReaddir
  <2>1. pc = "readdir"
    BY <1>2, <1>4 DEF ServeReaddir, Asks
  <2> QED
    BY <1>4, <2>1, Zenon DEF ServeReaddir, Fits, Status
<1>5. CASE ServeRead
  <2>1. pc = "read"
    BY <1>2, <1>5 DEF ServeRead, Asks
  <2> QED
    BY <1>5, <2>1, Zenon DEF ServeRead, Fits, Status
<1>6. CASE ServeWrite
  <2>1. pc = "write"
    BY <1>2, <1>6 DEF ServeWrite, Asks
  <2> QED
    BY <1>6, <2>1, Zenon DEF ServeWrite, Fits, Status
<1>7. CASE ServeClose
  <2>1. pc \in Closing
    BY <1>2, <1>7 DEF ServeClose, Asks
  <2> QED
    BY <1>7, <2>1, Zenon DEF ServeClose, Fits, Status
<1>8. CASE Refuse
  BY <1>8, Zenon DEF Refuse, Fits, Status
<1> QED
  BY <1>3, <1>4, <1>5, <1>6, <1>7, <1>8 DEF Serve, Server

\* Every step keeps to one packet at a time.
LEMMA NetInv_Step ==
  ASSUME PcInv, NetInv, [Next]_vars
  PROVE  NetInv'
<1>0. PcInv'
  BY PcInv_Step
<1>1. CASE Caller
  <2>1. /\ requests = <<>> /\ replies' = <<>> /\ queue' = <<>>
        /\ UNCHANGED conn
    BY <1>1, CallerSteps
  <2>2. CASE UNCHANGED requests
    BY <2>1, <2>2, NetInv_Returns
  <2>3. CASE \E op, f, count, data :
               /\ sftp_packet_write(op, f, count, data)
               /\ Asks(op)' /\ pc' # "idle"
    BY <1>0, <2>1, <2>3, NetInv_Sends
  <2> QED
    BY <1>1, <2>2, <2>3, CallerSends
<1>2. CASE Dispatch
  BY <1>2, Dispatch_Effect DEF NetInv, Fits, HasReply
<1>3. CASE Serve
  <2>1. PICK type, handle, names, data :
          Answer(type, handle, names, data) /\ Fits(type)
    BY <1>3, ServeSteps
  <2>2. /\ requests' = <<>> /\ queue' = <<>> /\ One(replies)' /\ HasReply'
        /\ Reply'.type = type /\ Reply'.id = call_id /\ UNCHANGED call_id
        /\ UNCHANGED pc /\ pc # "idle"
    BY <1>3, <2>1, Answer_Effect DEF Serve, NetInv, One
  <2> QED
    BY <2>1, <2>2 DEF NetInv, Fits
<1>4. CASE ConnectionLost
  BY <1>4, Disconnect_Effect DEF NetInv, Fits, One, HasReply, Reply
<1>5. CASE (\E n \in Lengths : Rewrite(n)) \/ Finished \/ UNCHANGED vars
  <2>1. UNCHANGED <<conn, netVars, clientVars, pc>>
    BY <1>5 DEF Rewrite, Finished
  <2> QED
    BY <2>1 DEF NetInv, One, HasReply, Reply, Asks, Fits
<1> QED
  BY <1>1, <1>2, <1>3, <1>4, <1>5 DEF Next

-----------------------------------------------------------------------------
(* Handles *)

\* The sftp_file of the client and its handle.
LEMMA advance_Effect ==
  ASSUME NEW f, f = [handle |-> f.handle, offset |-> f.offset], NEW n
  PROVE  /\ advance(f, n) = [handle |-> f.handle, offset |-> f.offset + n]
         /\ advance(f, n).handle = f.handle
         /\ advance(f, n).offset = f.offset + n
<1> DEFINE h == f.handle
           o == f.offset
<1>1. f = [handle |-> h, offset |-> o]
  OBVIOUS
<1> HIDE DEF h, o
<1>2. [[handle |-> h, offset |-> o] EXCEPT !.offset = @ + n]
        = [handle |-> h, offset |-> o + n]
  OBVIOUS
<1>3. advance(f, n) = [handle |-> h, offset |-> o + n]
  BY <1>1, <1>2 DEF advance
<1> QED
  BY <1>3 DEF h, o

\* A call that opens: the handle of the answer becomes the client's.
LEMMA parse_handle_msg_Effect ==
  ASSUME NetInv, parse_handle_msg
  PROVE  /\ Replied("HANDLE")
         /\ file' = [handle |-> Reply.handle, offset |-> 0]
         /\ file'.handle = Reply.handle /\ file'.offset = 0
<1>1. Replied("HANDLE") /\ Message = Reply
  BY dequeue_Effect DEF parse_handle_msg
<1>2. file' = [handle |-> Reply.handle, offset |-> 0]
  BY <1>1 DEF parse_handle_msg
<1> QED
  BY <1>1, <1>2

\* The functions open one handle and close it on every way out.
LEMMA HandleInv_Caller ==
  ASSUME PcInv, NetInv, HandleInv, Caller
  PROVE  HandleInv'
<1>0. /\ UNCHANGED <<conn, handles>> /\ requests = <<>> /\ ~HasReply'
      /\ conn \in {"up", "down"} /\ ~Replied("HANDLE")'
  BY CallerSteps DEF PcInv, Replied
<1>1. ASSUME NEW op, NEW f, NEW count, NEW data,
             sftp_packet_write(op, f, count, data)
      PROVE  \/ conn = "down" /\ requests' = <<>>
             \/ requests' # <<>> /\ requests'[1].file = f
  <2>1. CASE conn # "up" /\ requests' = <<>>
    BY <1>0, <2>1
  <2>2. CASE /\ One(requests)'
             /\ requests'[1] = [op |-> op, id |-> call_id', file |-> f,
                                count |-> count, data |-> data]
    BY <2>2 DEF One
  <2> QED
    BY <1>0, <1>1, <2>1, <2>2, packet_write_Effect
<1>2. CASE list_new_files \/ download_file \/ upload_file
  <2>1. pc' \in Opening /\ UNCHANGED file /\ pc = "idle"
    BY <1>2 DEF list_new_files, download_file, upload_file, Enter, Opening
  <2> QED
    BY <1>0, <2>1 DEF HandleInv, Opening, Closing
<1>3. CASE list_opendir \/ download_open \/ upload_open
  <2>1. pc \in Opening
    BY <1>3 DEF list_opendir, download_open, upload_open, Opening
  <2>2. CASE pc' = "idle" /\ UNCHANGED file /\ CallFails
    <3>1. handles = {} /\ file = NoHandle
      BY <2>1, <2>2, CallFails_Effect DEF HandleInv, Replied
    <3> QED
      BY <1>0, <2>2, <3>1 DEF HandleInv, Opening, Closing
  <2>3. CASE /\ parse_handle_msg
             /\ \/ pc' \in {"readdir", "read", "write"}
                \/ pc' = "finish" /\ sftp_handle_close(file')
    <3>1. /\ file' = [handle |-> file'.handle, offset |-> file'.offset]
          /\ handles \subseteq {file'.handle}
      BY <2>1, <2>3, parse_handle_msg_Effect DEF HandleInv
    <3>2. CASE pc' \in {"readdir", "read", "write"}
      BY <1>0, <3>1, <3>2 DEF HandleInv, Opening, Closing
    <3>3. CASE pc' = "finish" /\ sftp_handle_close(file')
      <4>1. \/ conn = "down" /\ requests' = <<>>
            \/ requests' # <<>> /\ requests'[1].file = file'
        BY <1>1, <3>3 DEF sftp_handle_close
      <4> QED
        BY <1>0, <3>1, <3>3, <4>1 DEF HandleInv, Opening, Closing
    <3> QED
      BY <2>3, <3>2, <3>3
  <2> QED
    BY <1>3, <2>2, <2>3
    DEF list_opendir, download_open, upload_open, read_and_write, Return,
        Continue
<1>4. CASE list_readdir \/ download_read \/ upload_write
  <2>1. /\ pc \in {"readdir", "read", "write"}
        /\ handles \subseteq {file.handle}
    BY <1>4 DEF list_readdir, download_read, upload_write, HandleInv
  <2>2. /\ file' = [handle |-> file'.handle, offset |-> file'.offset]
        /\ file'.handle = file.handle
    <3>1. file' = file \/ \E n : file' = advance(file, n)
      BY <1>4
      DEF list_readdir, download_read, upload_write, read_returns,
          write_returns
    <3>2. CASE file' = file
      BY <3>2 DEF HandleInv
    <3>3. CASE \E n : file' = advance(file, n)
      BY <3>3, advance_Effect DEF HandleInv
    <3> QED
      BY <3>1, <3>2, <3>3
  <2>3. CASE pc' \in {"readdir", "read", "write"}
    BY <1>0, <2>1, <2>2, <2>3 DEF HandleInv, Opening, Closing
  <2>4. CASE /\ pc' \in Closing
             /\ sftp_handle_close(file) \/ sftp_handle_close(file')
    <3>1. \/ conn = "down" /\ requests' = <<>>
          \/ requests' # <<>> /\ requests'[1].file \in {file, file'}
      BY <1>1, <2>4 DEF sftp_handle_close
    <3> QED
      BY <1>0, <2>1, <2>2, <2>4, <3>1 DEF HandleInv, Opening, Closing
  <2> QED
    BY <1>4, <2>3, <2>4
    DEF list_readdir, download_read, upload_write, read_and_write, read_error,
        Continue, Closing
<1>5. CASE list_closedir \/ download_close \/ upload_close
  <2>1. /\ pc \in Closing /\ pc' = "idle" /\ file' = NoHandle
        /\ handles = {}
    BY <1>0, <1>5
    DEF list_closedir, download_close, upload_close, HandleInv, Closing,
        Return
  <2>2. NoHandle = [handle |-> NoHandle.handle, offset |-> NoHandle.offset]
    BY DEF NoHandle
  <2> QED
    BY <1>0, <2>1, <2>2 DEF HandleInv, Opening, Closing
<1> QED
  BY <1>2, <1>3, <1>4, <1>5 DEF Caller

\* The server opens and closes what the client asks it to.
LEMMA HandleInv_Serve ==
  ASSUME PcInv, NetInv, HandleInv, Serve
  PROVE  HandleInv'
<1>1. UNCHANGED pc
  BY DEF Serve
<1>2. CASE ServeOpen
  <2>1. PICK h \in Handles \ handles :
          handles' = handles \cup {h} /\ Answer("HANDLE", h, {}, <<>>)
    BY <1>2 DEF ServeOpen
  <2>2. /\ One(requests) /\ Head(requests) = requests[1] /\ ~HasReply
        /\ HasReply' /\ Reply'.type = "HANDLE" /\ Reply'.handle = h
        /\ requests' = <<>> /\ UNCHANGED <<conn, file>> /\ conn = "up"
    BY <2>1, Answer_Effect
  <2>3. pc \in Opening
    BY <1>2, <2>2
    DEF ServeOpen, Requested, NetInv, Asks, Opening, Closing
  <2> QED
    BY <1>1, <2>1, <2>2, <2>3 DEF HandleInv, Replied, Opening, Closing
<1>3. CASE ~ServeOpen
  <2>1. PICK type, handle, names, data :
          Answer(type, handle, names, data) /\ Fits(type)
    BY ServeSteps
  <2>2. /\ One(requests) /\ Head(requests) = requests[1] /\ ~HasReply
        /\ requests # <<>>
        /\ requests' = <<>> /\ UNCHANGED <<conn, file>> /\ conn = "up"
    BY <2>1, Answer_Effect DEF One
  <2>3. handles' = IF Requested("CLOSE")
                   THEN handles \ {requests[1].file.handle}
                   ELSE handles
    BY <1>3, <2>2
    DEF Serve, Server, ServeReaddir, ServeRead, ServeWrite, ServeClose,
        Refuse, Requested
  <2>4. Requested("CLOSE") <=> pc \in Closing
    BY <2>2 DEF Requested, NetInv, Asks, Closing
  <2>5. pc \in Closing => handles' = {}
    BY <2>2, <2>3, <2>4 DEF HandleInv
  <2>6. pc \in Opening => handles' = {}
    BY <2>2, <2>3, <2>4 DEF HandleInv, Replied
  <2> QED
    BY <1>1, <2>2, <2>3, <2>5, <2>6 DEF HandleInv
<1> QED
  BY <1>2, <1>3

\* Every step keeps the handles of the two sides in line.
LEMMA HandleInv_Step ==
  ASSUME PcInv, NetInv, HandleInv, [Next]_vars
  PROVE  HandleInv'
<1>1. CASE Caller
  BY <1>1, HandleInv_Caller
<1>2. CASE Serve
  BY <1>2, HandleInv_Serve
<1>3. CASE Dispatch
  BY <1>3, Dispatch_Effect DEF HandleInv, Replied
<1>4. CASE ConnectionLost
  BY <1>4, Disconnect_Effect DEF HandleInv, Replied
<1>5. CASE (\E n \in Lengths : Rewrite(n)) \/ Finished \/ UNCHANGED vars
  <2>1. UNCHANGED <<conn, netVars, clientVars, file, handles, pc>>
    BY <1>5 DEF Rewrite, Finished
  <2> QED
    BY <2>1 DEF HandleInv, Replied, HasReply, Reply
<1> QED
  BY <1>1, <1>2, <1>3, <1>4, <1>5 DEF Next

-----------------------------------------------------------------------------
(* Listing *)

\* Every step accounts for every name.
LEMMA ListInv_Step ==
  ASSUME PcInv, NetInv, ListInv, [Next]_vars
  PROVE  ListInv'
<1>1. CASE list_new_files
  <2>1. ~HasReply'
    BY <1>1, CallerSteps DEF Caller
  <2> QED
    BY <1>1, <2>1 DEF list_new_files, ListInv, ListingIsComplete, Replied
<1>2. CASE list_opendir
  <2>1. ~HasReply' /\ UNCHANGED <<unlisted, new_files, complete>>
        /\ new_files = {} /\ complete = FALSE
    BY <1>2, CallerSteps DEF list_opendir, Caller, ListInv
  <2>2. pc' = "idle" \/ (pc' = "readdir" /\ unlisted = Names)
    BY <1>2, parse_handle_msg_Effect DEF list_opendir, Return, Continue, ListInv
  <2> QED
    BY <2>1, <2>2 DEF ListInv, ListingIsComplete, Replied
<1>3. CASE list_readdir
  <2>1. ~HasReply' /\ UNCHANGED unlisted /\ complete = FALSE
    BY <1>3, CallerSteps DEF list_readdir, Caller, ListInv
  <2>2. CASE readdir_returns
    <3>1. new_files \cup Reply.names \cup unlisted = Names /\ Message = Reply
      BY <1>3, <2>2, dequeue_Effect DEF list_readdir, ListInv, readdir_returns
    <3>2. \/ pc' = "closedir" /\ UNCHANGED <<new_files, complete>>
          \/ pc' = "closedir" /\ sftp_dequeue("EOF")
          \/ /\ pc' = "readdir" /\ UNCHANGED complete
             /\ new_files' = new_files \cup Reply.names
      BY <1>3, <3>1 DEF list_readdir, Continue, readdir_names
    <3>3. ~sftp_dequeue("EOF")
      BY <2>2, dequeue_Effect DEF readdir_returns, Replied
    <3> QED
      BY <2>1, <3>1, <3>2, <3>3 DEF ListInv, ListingIsComplete, Replied
  <2>3. CASE sftp_dequeue("EOF")
    <3>1. new_files = Names
      BY <1>3, <2>3, dequeue_Effect DEF list_readdir, ListInv
    <3>2. ~readdir_returns
      BY <2>3, dequeue_Effect DEF readdir_returns, Replied
    <3> QED
      BY <1>3, <2>1, <3>1, <3>2
      DEF list_readdir, Continue, ListInv, ListingIsComplete, Replied
  <2>4. CASE pc' = "closedir" /\ UNCHANGED <<new_files, complete>>
    BY <2>1, <2>4 DEF ListInv, ListingIsComplete
  <2> QED
    BY <1>3, <2>2, <2>3, <2>4 DEF list_readdir, Continue
<1>4. CASE Caller /\ ~list_new_files /\ ~list_opendir /\ ~list_readdir
  <2>1. pc' \notin {"opendir", "readdir", "closedir"}
    BY <1>4
    DEF Caller, list_closedir, download_file, download_open, download_read,
        read_error, download_close, upload_file, upload_open, upload_write,
        upload_close, read_and_write, Return, Continue
  <2> QED
    BY <2>1 DEF ListInv, ListingIsComplete
<1>5. CASE Serve
  <2>0. UNCHANGED <<pc, new_files, complete>>
    BY <1>5 DEF Serve
  <2>1. PICK type, handle, names, data :
          Answer(type, handle, names, data) /\ Fits(type)
    BY <1>5, ServeSteps
  <2>2. /\ One(requests) /\ Head(requests) = requests[1] /\ requests # <<>>
        /\ HasReply' /\ Reply'.type = type /\ requests' = <<>>
    BY <2>1, Answer_Effect DEF One
  <2>3. CASE pc = "opendir"
    <3>1. requests[1].op = "OPENDIR"
      BY <2>2, <2>3 DEF NetInv, Asks, Closing
    <3>2. Replied("HANDLE")' => unlisted' = Names
      <4>1. CASE ServeOpen
        BY <2>2, <3>1, <4>1 DEF ServeOpen, Requested
      <4>2. CASE Refuse
        <5>1. Reply'.type = "FAILURE"
          BY <4>2, Answer_Effect DEF Refuse, Status
        <5> QED
          BY <5>1 DEF Replied
      <4> QED
        BY <1>5, <2>2, <3>1, <4>1, <4>2
        DEF Serve, Server, ServeReaddir, ServeRead, ServeWrite, ServeClose,
            Requested
    <3> QED
      BY <2>0, <2>3, <3>2 DEF ListInv, ListingIsComplete
  <2>4. CASE pc = "readdir"
    <3>1. requests[1].op = "READDIR" /\ new_files \cup unlisted = Names
      BY <2>2, <2>4 DEF NetInv, Asks, Closing, ListInv
    <3>2. /\ Reply'.type = "NAME" =>
                new_files \cup Reply'.names \cup unlisted' = Names
          /\ Reply'.type = "EOF" => new_files = Names
      <4>1. CASE ServeReaddir
        <5>1. CASE \E some \in SUBSET unlisted \ {{}} :
                     Answer("NAME", 0, some, <<>>) /\ unlisted' = unlisted \ some
          <6>1. PICK some \in SUBSET unlisted \ {{}} :
                  Answer("NAME", 0, some, <<>>) /\ unlisted' = unlisted \ some
            BY <5>1
          <6>2. Reply'.type = "NAME" /\ Reply'.names = some
            BY <6>1, Answer_Effect
          <6> QED
            BY <3>1, <6>1, <6>2
        <5>2. CASE unlisted = {} /\ Status("EOF")
          <6>1. Reply'.type = "EOF"
            BY <5>2, Answer_Effect DEF Status
          <6> QED
            BY <3>1, <5>2, <6>1
        <5> QED
          BY <4>1, <5>1, <5>2 DEF ServeReaddir
      <4>2. CASE Refuse
        <5>1. Reply'.type = "FAILURE"
          BY <4>2, Answer_Effect DEF Refuse, Status
        <5> QED
          BY <5>1
      <4> QED
        BY <1>5, <2>2, <3>1, <4>1, <4>2
        DEF Serve, Server, ServeOpen, ServeRead, ServeWrite, ServeClose,
            Requested
    <3> QED
      BY <2>0, <2>2, <2>4, <3>2 DEF ListInv, ListingIsComplete, Replied
  <2>5. CASE pc \notin {"opendir", "readdir"}
    BY <2>0, <2>5 DEF ListInv, ListingIsComplete
  <2> QED
    BY <2>3, <2>4, <2>5
<1>6. CASE Dispatch
  BY <1>6, Dispatch_Effect DEF ListInv, ListingIsComplete, Replied
<1>7. CASE ConnectionLost
  BY <1>7, Disconnect_Effect DEF ListInv, ListingIsComplete, Replied
<1>8. CASE (\E n \in Lengths : Rewrite(n)) \/ Finished \/ UNCHANGED vars
  <2>1. UNCHANGED <<netVars, clientVars, unlisted, new_files, complete, pc>>
    BY <1>8 DEF Rewrite, Finished
  <2> QED
    BY <2>1 DEF ListInv, ListingIsComplete, Replied, HasReply, Reply
<1> QED
  BY <1>1, <1>2, <1>3, <1>4, <1>5, <1>6, <1>7, <1>8 DEF Next

-----------------------------------------------------------------------------
(* Downloading *)

\* The functions of the download thread.
LEMMA DownInv_Caller ==
  ASSUME PcInv, NetInv, HandleInv, DownInv, Caller
  PROVE  DownInv'
<1>0. SUFFICES ASSUME thread' = "download"
               PROVE  DownInv'
  BY DEF DownInv
<1>1. /\ thread = "download" /\ UNCHANGED <<remote, version, conn>> /\ ~HasReply'
      /\ requests = <<>>
      /\ buffer \in Seq(Nat) /\ remote \in Seq(Nat) /\ seen \subseteq Seq(Nat)
      /\ version \in Nat /\ Len(buffer) \in Nat
  BY <1>0, CallerSteps, LenProperties DEF DownInv
<1>2. CASE list_new_files \/ list_opendir \/ list_readdir \/ list_closedir
           \/ download_close
  <2>1. pc' \notin {"open", "read", "close"} /\ UNCHANGED <<buffer, seen>>
    BY <1>2
    DEF list_new_files, list_opendir, list_readdir, list_closedir,
        download_close, Return, Continue
  <2> QED
    BY <1>1, <2>1 DEF DownInv
<1>3. CASE download_file
  <2>1. pc' = "open" /\ buffer' = <<>> /\ seen' = {remote}
    BY <1>3 DEF download_file
  <2>2. <<>> \in Seq(Nat)
    BY EmptySeq
  <2> QED
    BY <1>1, <2>1, <2>2 DEF DownInv
<1>4. ASSUME NEW f, sftp_read(f, ReadSize)
      PROVE  requests' # <<>> =>
               requests'[1].file = f /\ requests'[1].count = ReadSize
  <2>1. CASE requests'[1] = [op |-> "READ", id |-> call_id', file |-> f,
                             count |-> ReadSize, data |-> <<>>]
    BY <2>1
  <2> QED
    BY <1>1, <1>4, <2>1, packet_write_Effect DEF sftp_read
<1>5. CASE download_open
  <2>1. UNCHANGED <<buffer, seen>> /\ buffer = <<>> /\ remote \in seen
    BY <1>1, <1>5 DEF download_open, DownInv
  <2>2. CASE pc' = "idle"
    BY <1>1, <2>1, <2>2 DEF DownInv
  <2>3. CASE parse_handle_msg /\ sftp_read(file', ReadSize) /\ pc' = "read"
    <3>1. file'.offset = 0
      BY <2>3, parse_handle_msg_Effect
    <3>2. requests' # <<>> =>
            requests'[1].file = file' /\ requests'[1].count = ReadSize
      BY <1>4, <2>3
    <3> QED
      BY <1>1, <2>1, <2>3, <3>1, <3>2 DEF DownInv, Replied
  <2> QED
    BY <1>5, <2>2, <2>3 DEF download_open, Return, Continue
<1>6. CASE download_read
  <2>1. /\ pc = "read" /\ UNCHANGED seen /\ remote \in seen
        /\ \A i \in 1..Len(buffer) : InSome(i, buffer[i])
        /\ file.offset = Len(buffer)
    BY <1>1, <1>6 DEF download_read, DownInv
  <2>2. CASE read_returns /\ buffer' = buffer \o Message.data
             /\ sftp_read(file', ReadSize) /\ pc' = "read"
    <3> DEFINE d == Reply.data
    <3>1. Replied("DATA") /\ Message = Reply
      BY <2>2, dequeue_Effect DEF read_returns
    <3>2. /\ d \in Seq(Nat) /\ Len(d) \in Nat
          /\ \A j \in 1..Len(d) : InSome(Len(buffer) + j, d[j])
      BY <1>1, <2>1, <3>1, LenProperties DEF DownInv
    <3>3. buffer' = buffer \o d /\ file' = advance(file, Len(d))
      BY <2>2, <3>1 DEF read_returns
    <3> HIDE DEF d
    <3>4. /\ buffer' \in Seq(Nat) /\ Len(buffer') = Len(buffer) + Len(d)
          /\ \A i \in 1..Len(buffer) + Len(d) : buffer'[i] =
                IF i <= Len(buffer) THEN buffer[i] ELSE d[i - Len(buffer)]
      BY <1>1, <3>2, <3>3, ConcatProperties
    <3>5. file'.offset = Len(buffer')
      BY <2>1, <3>3, <3>4, advance_Effect DEF HandleInv
    <3>6. ASSUME NEW i \in 1..Len(buffer')
          PROVE  InSome(i, buffer'[i])
      <4>1. CASE i <= Len(buffer)
        <5>1. i \in 1..Len(buffer) /\ buffer'[i] = buffer[i]
          BY <1>1, <3>2, <3>4, <4>1
        <5> QED
          BY <2>1, <5>1
      <4>2. CASE i > Len(buffer)
        <5>1. i - Len(buffer) \in 1..Len(d) /\ Len(buffer) + (i - Len(buffer)) = i
          BY <1>1, <3>2, <3>4, <4>2
        <5>2. buffer'[i] = d[i - Len(buffer)]
          BY <1>1, <3>2, <3>4, <4>2
        <5> QED
          BY <3>2, <5>1, <5>2
      <4> QED
        BY <1>1, <4>1, <4>2
    <3>7. \A i \in 1..Len(buffer') : InSome(i, buffer[i])'
      BY <2>1, <3>6 DEF InSome
    <3>8. requests' # <<>> =>
            requests'[1].file = file' /\ requests'[1].count = ReadSize
      BY <1>4, <2>2
    <3> QED
      BY <1>1, <2>1, <2>2, <3>4, <3>5, <3>7, <3>8 DEF DownInv, Replied
  <2>3. CASE sftp_dequeue("EOF") /\ pc' = "close" /\ UNCHANGED buffer
    <3>1. AtEnd
      BY <1>1, <2>1, <2>3, dequeue_Effect DEF DownInv
    <3>2. AtEnd'
      BY <2>1, <2>3, <3>1 DEF AtEnd
    <3> QED
      BY <1>1, <2>1, <2>3, <3>2 DEF DownInv, InSome
  <2>4. CASE pc' = "close" /\ failed' = TRUE /\ UNCHANGED buffer
    BY <1>1, <2>1, <2>4 DEF DownInv, InSome
  <2> QED
    BY <1>6, <2>2, <2>3, <2>4 DEF download_read, read_error, Continue
<1>7. CASE upload_file \/ upload_open \/ upload_write \/ upload_close
  BY <1>1, <1>7
  DEF upload_file, upload_open, upload_write, upload_close, Enter, PcInv
<1> QED
  BY <1>2, <1>3, <1>5, <1>6, <1>7 DEF Caller

\* What the server reads from the file is at its place.
LEMMA DownInv_Serve ==
  ASSUME PcInv, NetInv, DownInv, Serve
  PROVE  DownInv'
<1>0. SUFFICES ASSUME thread = "download"
               PROVE  DownInv'
  BY DEF DownInv, Serve
<1>1. /\ UNCHANGED callerVars
      /\ buffer \in Seq(Nat) /\ remote \in Seq(Nat) /\ seen \subseteq Seq(Nat)
      /\ Len(buffer) \in Nat /\ Len(remote) \in Nat
  BY <1>0, LenProperties DEF DownInv, Serve
<1>2. PICK type, handle, names, data :
        Answer(type, handle, names, data) /\ Fits(type)
  BY ServeSteps
<1>3. /\ One(requests) /\ Head(requests) = requests[1] /\ requests # <<>>
      /\ requests' = <<>> /\ UNCHANGED file /\ Asks(requests[1].op)
  BY <1>2, Answer_Effect DEF One, NetInv
<1>4. UNCHANGED remote
  <2>1. ~Requested("OPEN_TRUNC") /\ ~Requested("WRITE")
    BY <1>0, <1>3 DEF Requested, Asks, PcInv, Closing
  <2> QED
    BY <2>1
    DEF Serve, Server, ServeOpen, ServeReaddir, ServeRead, ServeWrite,
        ServeClose, Refuse
<1>5. CASE pc # "read"
  BY <1>0, <1>1, <1>3, <1>4, <1>5 DEF DownInv, InSome, AtEnd
<1>6. CASE pc = "read"
  <2>1. requests[1].op = "READ"
    BY <1>3, <1>6 DEF Asks, Closing
  <2>2. /\ requests[1].file = file /\ requests[1].count = ReadSize
        /\ file.offset = Len(buffer) /\ remote \in seen
        /\ \A i \in 1..Len(buffer) : InSome(i, buffer[i])
    BY <1>0, <1>3, <1>6 DEF DownInv
  <2>3. /\ Reply'.type = "DATA" =>
              /\ Reply'.data \in Seq(Nat)
              /\ \A j \in 1..Len(Reply'.data) :
                     InSome(Len(buffer) + j, Reply'.data[j])
        /\ Reply'.type = "EOF" => AtEnd
    <3>1. CASE Refuse
      <4>1. Reply'.type = "FAILURE"
        BY <3>1, Answer_Effect DEF Refuse, Status
      <4> QED
        BY <4>1
    <3>2. CASE ServeRead
      <4>1. CASE Len(remote) - Len(buffer) <= 0 /\ Status("EOF")
        <5>1. Reply'.type = "EOF"
          BY <4>1, Answer_Effect DEF Status
        <5> QED
          BY <1>1, <2>2, <4>1, <5>1 DEF AtEnd
      <4>2. CASE \E k \in 1..ReadSize :
                   /\ k <= Len(remote) - Len(buffer)
                   /\ Answer("DATA", 0, {},
                             SubSeq(remote, Len(buffer) + 1, Len(buffer) + k))
        <5>1. PICK k \in 1..ReadSize :
                   /\ k <= Len(remote) - Len(buffer)
                   /\ Answer("DATA", 0, {},
                             SubSeq(remote, Len(buffer) + 1, Len(buffer) + k))
          BY <4>2
        <5> DEFINE d == SubSeq(remote, Len(buffer) + 1, Len(buffer) + k)
        <5>2. Reply'.type = "DATA" /\ Reply'.data = d
          <6>1. Answer("DATA", 0, {}, d)
            BY <5>1
          <6> HIDE DEF d
          <6> QED
            BY <6>1, Answer_Effect
        <5>3. k \in Nat /\ k >= 1 /\ Len(buffer) + k <= Len(remote)
          BY <1>1, <5>1, CopyAssumption DEF CopyAssumption
        <5>4. \A i \in Len(buffer) + 1 .. Len(buffer) + k : remote[i] \in Nat
          BY <1>1, <5>3, ElementOfSeq
        <5>5. /\ d \in Seq(Nat) /\ Len(d) = k
              /\ \A j \in 1..k : d[j] = remote[Len(buffer) + j]
          BY <1>1, <5>3, <5>4, SubSeqProperties
        <5> HIDE DEF d
        <5>6. \A j \in 1..k : InSome(Len(buffer) + j, d[j])
          <6> SUFFICES ASSUME NEW j \in 1..k
                       PROVE  InSome(Len(buffer) + j, d[j])
            OBVIOUS
          <6>1. Len(buffer) + j \in 1..Len(remote)
            BY <1>1, <5>3
          <6>2. remote[Len(buffer) + j] = d[j]
            BY <5>5
          <6> QED
            BY <2>2, <6>1, <6>2 DEF InSome
        <5> QED
          BY <5>2, <5>5, <5>6
      <4> QED
        BY <1>3, <2>2, <3>2, <4>1, <4>2 DEF ServeRead
    <3> QED
      BY <1>3, <2>1, <3>1, <3>2
      DEF Serve, Server, ServeOpen, ServeReaddir, ServeWrite, ServeClose,
          Requested
  <2>4. Len(buffer') = Len(buffer) /\ \A i, b : InSome(i, b)' = InSome(i, b)
    BY <1>1 DEF InSome
  <2>5. AtEnd' = AtEnd
    BY <1>1 DEF AtEnd
  <2> QED
    BY <1>0, <1>1, <1>3, <1>4, <1>6, <2>2, <2>3, <2>4, <2>5
    DEF DownInv, Replied, InSome
<1> QED
  BY <1>5, <1>6

\* Steps that add to what may be read, or take packets away.
LEMMA DownInv_Monotone ==
  ASSUME DownInv, UNCHANGED <<thread, pc, buffer, file, failed>>,
         requests' \in {requests, <<>>},
         HasReply' => HasReply /\ Reply' = Reply,
         thread = "download" =>
            /\ version' \in Nat /\ remote' \in Seq(Nat)
            /\ seen \subseteq seen' /\ seen' \subseteq Seq(Nat)
            /\ remote' = remote \/ remote' \in seen'
  PROVE  DownInv'
<1> SUFFICES ASSUME thread = "download"
             PROVE  DownInv'
  BY DEF DownInv
<1>1. \A i, b : InSome(i, b) => \E s \in seen' : i \in 1..Len(s) /\ s[i] = b
  BY DEF InSome
<1>2. AtEnd => AtEnd'
  BY DEF AtEnd
<1>3. /\ buffer' \in Seq(Nat) /\ remote' \in Seq(Nat) /\ seen' \subseteq Seq(Nat)
      /\ version' \in Nat
      /\ pc' = "open" => buffer' = <<>>
      /\ pc' = "close" /\ ~failed' => AtEnd'
  BY <1>2 DEF DownInv
<1>4. pc' \in {"open", "read", "close"} =>
         remote' \in seen' /\ \A i \in 1..Len(buffer') : InSome(i, buffer[i])'
  BY <1>1 DEF DownInv, InSome
<1>5. ASSUME pc' = "read"
      PROVE  /\ file'.offset = Len(buffer')
             /\ requests' # <<>> =>
                  requests'[1].file = file' /\ requests'[1].count = ReadSize
             /\ Replied("EOF")' => AtEnd'
  BY <1>2, <1>5 DEF DownInv, Replied
<1>6. ASSUME pc' = "read", Replied("DATA")'
      PROVE  /\ Reply'.data \in Seq(Nat)
             /\ \A j \in 1..Len(Reply'.data) :
                    InSome(Len(buffer) + j, Reply.data[j])'
  <2>1. /\ Reply' = Reply /\ Reply.data \in Seq(Nat)
        /\ \A j \in 1..Len(Reply.data) : InSome(Len(buffer) + j, Reply.data[j])
    BY <1>6 DEF DownInv, Replied
  <2> QED
    BY <1>1, <2>1 DEF InSome
<1> QED
  BY <1>3, <1>4, <1>5, <1>6 DEF DownInv

\* A file that is rewritten while it is read adds to what may be read.
LEMMA DownInv_Rewrite ==
  ASSUME DownInv, NEW n \in Lengths, Rewrite(n)
  PROVE  DownInv'
<1>1. /\ thread = "download"
      /\ UNCHANGED <<thread, pc, buffer, file, failed, netVars, queue>>
      /\ version' = version + 1 /\ remote' = Content(version + 1, n)
      /\ seen' = seen \cup {remote'}
  BY DEF Rewrite
<1>2. /\ seen \subseteq Seq(Nat) /\ version \in Nat /\ n \in Nat
  BY <1>1, CopyAssumption DEF DownInv, CopyAssumption
<1>3. remote' \in Seq(Nat)
  BY <1>1, <1>2 DEF Content
<1>4. HasReply' = HasReply /\ Reply' = Reply
  BY <1>1 DEF HasReply, Reply
<1> QED
  BY <1>1, <1>2, <1>3, <1>4, DownInv_Monotone

\* Every step keeps the blocks at their places.
LEMMA DownInv_Step ==
  ASSUME PcInv, NetInv, HandleInv, DownInv, [Next]_vars
  PROVE  DownInv'
<1>1. CASE Caller
  BY <1>1, DownInv_Caller
<1>2. CASE Serve
  BY <1>2, DownInv_Serve
<1>3. CASE \E n \in Lengths : Rewrite(n)
  BY <1>3, DownInv_Rewrite
<1>4. CASE Dispatch \/ ConnectionLost \/ Finished \/ UNCHANGED vars
  <2>1. /\ UNCHANGED <<thread, pc, buffer, file, failed, version, remote, seen>>
        /\ requests' \in {requests, <<>>}
        /\ HasReply' => HasReply /\ Reply' = Reply
    BY <1>4, Dispatch_Effect, Disconnect_Effect
    DEF Finished, HasReply, Reply
  <2>2. thread = "download" =>
          version \in Nat /\ remote \in Seq(Nat) /\ seen \subseteq Seq(Nat)
    BY DEF DownInv
  <2> QED
    BY <2>1, <2>2, DownInv_Monotone
<1> QED
  BY <1>1, <1>2, <1>3, <1>4 DEF Next

-----------------------------------------------------------------------------
(* Uploading *)

\* The remote file is a prefix of the archive.
Prefix(s) ==
    /\ s \in Seq(Nat)
    /\ Len(s) <= Len(Archive)
    /\ \A i \in 1..Len(s) : s[i] = Archive[i]

\* A write at the end of the file appends.
LEMMA WriteAt_End ==
  ASSUME NEW s, Prefix(s), NEW data \in Seq(Nat),
         Len(s) + Len(data) <= Len(Archive),
         \A j \in 1..Len(data) : data[j] = Archive[Len(s) + j]
  PROVE  /\ Prefix(WriteAt(s, Len(s), data))
         /\ Len(WriteAt(s, Len(s), data)) = Len(s) + Len(data)
<1> DEFINE n == Len(s)
           m == n + Len(data)
           t == WriteAt(s, n, data)
<1>1. n \in Nat /\ Len(data) \in Nat /\ m \in Nat /\ Len(Archive) \in Nat
  BY LenProperties, CopyAssumption DEF Prefix, CopyAssumption
<1>2. t = [i \in 1..m |-> IF i > n /\ i <= n + Len(data)
                          THEN data[i - n]
                          ELSE IF i \in DOMAIN s THEN s[i] ELSE 0]
  <2>1. (IF n + Len(data) > Len(s) THEN n + Len(data) ELSE Len(s)) = m
    BY <1>1
  <2> QED
    BY <2>1 DEF WriteAt
<1> HIDE DEF t
<1>3. ASSUME NEW i \in 1..m
      PROVE  t[i] = Archive[i]
  <2>1. CASE i <= n
    <3>1. i \in DOMAIN s /\ i \in 1..n
      BY <1>1, <2>1, LenProperties DEF Prefix
    <3>2. t[i] = s[i]
      BY <1>1, <1>2, <2>1, <3>1
    <3> QED
      BY <3>1, <3>2 DEF Prefix
  <2>2. CASE i > n
    <3>1. i - n \in 1..Len(data) /\ n + (i - n) = i
      BY <1>1, <2>2
    <3>2. t[i] = data[i - n]
      BY <1>1, <1>2, <2>2
    <3> QED
      BY <3>1, <3>2
  <2> QED
    BY <1>1, <2>1, <2>2
<1>4. \A i \in 1..m : Archive[i] \in Nat
  BY <1>1, CopyAssumption, ElementOfSeq DEF CopyAssumption
<1>5. t \in [1..m -> Nat]
  BY <1>2, <1>3, <1>4
<1>6. t \in Seq(Nat) /\ Len(t) = m
  BY <1>1, <1>5, SeqDef, LenProperties
<1> QED
  BY <1>1, <1>3, <1>6 DEF Prefix, t

\* The head of the loop of upload_file: the next chunk follows the last one.
LEMMA read_and_write_Up ==
  ASSUME PcInv, thread' = "upload", requests = <<>>, ~HasReply',
         UNCHANGED <<remote, conn>>, Prefix(remote), result' = "none",
         position \in 0..Len(Archive), Len(remote) = position,
         file'.offset = position, read_and_write(file')
  PROVE  UpInv'
<1>1. /\ Len(Archive) \in Nat /\ position \in Nat /\ WriteSize \in Nat
      /\ Gcount \in Nat /\ position + Gcount \in 0..Len(Archive)
      /\ Gcount = 0 => position = Len(Archive)
  BY CopyAssumption, LenProperties DEF CopyAssumption, Gcount
<1>2. remote' \in Seq(Nat) /\ Len(remote') <= Len(Archive)
      /\ (\A i \in 1..Len(remote') : remote'[i] = Archive[i])
      /\ ~Replied("OK")'
  BY DEF Prefix, Replied
<1>3. CASE /\ Gcount > 0
           /\ sftp_write(file', SubSeq(Archive, position + 1, position + Gcount))
           /\ position' = position + Gcount
           /\ pc' = "write"
  <2> DEFINE d == SubSeq(Archive, position + 1, position + Gcount)
  <2>1. sftp_packet_write("WRITE", file', 0, d)
    BY <1>3 DEF sftp_write
  <2> HIDE DEF d
  <2>2. requests' # <<>> => requests'[1].file = file' /\ requests'[1].data = d
    <3>1. CASE requests'[1] = [op |-> "WRITE", id |-> call_id', file |-> file',
                               count |-> 0, data |-> d]
      BY <3>1
    <3> QED
      BY <2>1, <3>1, packet_write_Effect
  <2>3. file'.offset \in 0..position' /\ position' \in 0..Len(Archive)
    BY <1>1, <1>3
  <2>4. d = SubSeq(Archive, file'.offset + 1, position')
    BY <1>3 DEF d
  <2> QED
    BY <1>2, <1>3, <2>2, <2>3, <2>4 DEF UpInv
<1>4. CASE /\ bad' = (Gcount > 0) /\ pc' = "finish" /\ UNCHANGED position
  <2>1. ~bad' => Gcount = 0
    <3>1. CASE Gcount = 0
      BY <3>1
    <3>2. CASE Gcount # 0
      <4>1. Gcount > 0
        BY <1>1, <3>2
      <4>2. bad'
        BY <1>4, <4>1, Zenon
      <4> QED
        BY <4>2
    <3> QED
      BY <3>1, <3>2
  <2>2. ~bad' => Len(remote') = Len(Archive)
    BY <1>1, <2>1
  <2> QED
    BY <1>2, <1>4, <2>2 DEF UpInv
<1> QED
  BY <1>3, <1>4 DEF read_and_write, Continue

\* upload_file.
LEMMA UpInv_Caller ==
  ASSUME PcInv, NetInv, HandleInv, UpInv, Caller
  PROVE  UpInv'
<1>0. SUFFICES ASSUME thread' = "upload"
               PROVE  UpInv'
  BY DEF UpInv
<1>1. /\ thread = "upload" /\ UNCHANGED <<remote, conn>> /\ ~HasReply'
      /\ requests = <<>> /\ Prefix(remote) /\ position \in 0..Len(Archive)
      /\ Len(Archive) \in Nat /\ Len(remote) \in Nat
  BY <1>0, CallerSteps, LenProperties, CopyAssumption
  DEF UpInv, Prefix, CopyAssumption
<1>2. /\ remote' \in Seq(Nat) /\ Len(remote') <= Len(Archive)
      /\ \A i \in 1..Len(remote') : remote'[i] = Archive[i]
      /\ ~Replied("OK")' /\ ~Replied("HANDLE")'
  BY <1>1 DEF Prefix, Replied
<1>3. CASE upload_file
  <2>1. position' = 0 /\ pc' = "create" /\ result' = "none"
    BY <1>3 DEF upload_file, Enter
  <2>2. position' \in 0..Len(Archive)
    BY <1>1, <2>1
  <2> QED
    BY <1>2, <2>1, <2>2 DEF UpInv
<1>4. CASE upload_open
  <2>1. CASE pc' = "idle" /\ result' = "false" /\ UNCHANGED position
    BY <1>1, <1>2, <2>1 DEF UpInv
  <2>2. CASE parse_handle_msg /\ read_and_write(file')
    <3>1. file'.offset = 0 /\ Replied("HANDLE")
      BY <2>2, parse_handle_msg_Effect
    <3>2. position = 0 /\ remote = <<>>
      BY <1>1, <1>4, <3>1 DEF upload_open, UpInv
    <3>3. result' = "none"
      BY <1>4, <2>2 DEF upload_open, read_and_write, Continue, PcInv
    <3> QED
      BY <1>0, <1>1, <2>2, <3>1, <3>2, <3>3, read_and_write_Up
  <2> QED
    BY <1>4, <2>1, <2>2 DEF upload_open, Return
<1>5. CASE upload_write
  <2>0. pc = "write" /\ result = "none" /\ file.offset \in 0..position
    BY <1>1, <1>5 DEF upload_write, PcInv, UpInv
  <2>1. CASE failed' = TRUE /\ pc' = "finish" /\ UNCHANGED <<position, result>>
    BY <1>1, <1>2, <2>0, <2>1 DEF UpInv
  <2>2. CASE write_returns(position - file.offset) /\ read_and_write(file')
    <3>1. Replied("OK")
      BY <2>2, dequeue_Effect DEF write_returns
    <3>2. Len(remote) = position
      BY <1>1, <2>0, <3>1 DEF UpInv
    <3>3. file' = advance(file, position - file.offset)
      BY <2>2 DEF write_returns
    <3>4. file'.offset = file.offset + (position - file.offset)
      BY <3>3, advance_Effect DEF HandleInv
    <3>5. file'.offset = position
      BY <1>1, <2>0, <3>4
    <3>6. result' = "none"
      BY <2>0, <2>2 DEF read_and_write, Continue
    <3> QED
      BY <1>0, <1>1, <2>2, <3>2, <3>5, <3>6, read_and_write_Up
  <2> QED
    BY <1>5, <2>1, <2>2 DEF upload_write, Continue
<1>6. CASE upload_close
  <2>1. /\ pc = "finish" /\ pc' = "idle" /\ UNCHANGED <<position, bad>>
        /\ result' = IF failed THEN "false" ELSE "true"
    BY <1>6 DEF upload_close, Return
  <2>2. result' = "true" /\ ~bad' => Len(remote') = Len(Archive)
    BY <1>1, <2>1 DEF UpInv
  <2> QED
    BY <1>1, <1>2, <2>1, <2>2 DEF UpInv
<1>7. CASE \/ list_new_files \/ list_opendir \/ list_readdir \/ list_closedir
           \/ download_file \/ download_open \/ download_read \/ download_close
  BY <1>1, <1>7
  DEF list_new_files, list_opendir, list_readdir, list_closedir,
      download_file, download_open, download_read, download_close, Enter,
      PcInv
<1> QED
  BY <1>3, <1>4, <1>5, <1>6, <1>7 DEF Caller

\* A chunk, or the first blocks of one, is written where the last one ended.
LEMMA UpInv_Serve ==
  ASSUME PcInv, NetInv, UpInv, Serve
  PROVE  UpInv'
<1>0. SUFFICES ASSUME thread = "upload"
               PROVE  UpInv'
  BY DEF UpInv, Serve
<1>1. /\ UNCHANGED callerVars /\ Prefix(remote) /\ position \in 0..Len(Archive)
      /\ Len(Archive) \in Nat /\ Len(remote) \in Nat
      /\ Archive \in Seq(Nat)
  BY <1>0, LenProperties, CopyAssumption
  DEF UpInv, Serve, Prefix, CopyAssumption
<1>2. PICK type, handle, names, data :
        Answer(type, handle, names, data) /\ Fits(type)
  BY ServeSteps
<1>3. /\ One(requests) /\ Head(requests) = requests[1] /\ requests # <<>>
      /\ requests' = <<>> /\ UNCHANGED file /\ Asks(requests[1].op)
      /\ pc # "idle"
  BY <1>2, Answer_Effect DEF One, NetInv
<1>4. CASE pc = "create"
  <2>1. requests[1].op = "OPEN_TRUNC" /\ position = 0 /\ result = "none"
    BY <1>0, <1>3, <1>4 DEF Asks, Closing, UpInv, PcInv
  <2>2. /\ remote' \in {remote, <<>>}
        /\ Reply'.type = "HANDLE" => remote' = <<>>
    <3>1. CASE ServeOpen
      BY <1>3, <2>1, <3>1 DEF ServeOpen, Requested
    <3>2. CASE Refuse
      <4>1. Reply'.type = "FAILURE" /\ UNCHANGED remote
        BY <1>3, <2>1, <3>2, Answer_Effect DEF Refuse, Status, Requested
      <4> QED
        BY <4>1
    <3> QED
      BY <1>3, <2>1, <3>1, <3>2
      DEF Serve, Server, ServeReaddir, ServeRead, ServeWrite, ServeClose,
          Requested
  <2>3. Prefix(<<>>)
    BY <1>1, EmptySeq DEF Prefix
  <2>4. Prefix(remote')
    BY <1>1, <2>2, <2>3
  <2> QED
    BY <1>1, <1>4, <2>1, <2>2, <2>4 DEF UpInv, Prefix, Replied
<1>5. CASE pc = "write"
  <2>1. requests[1].op = "WRITE" /\ result = "none"
    BY <1>0, <1>3, <1>5 DEF Asks, Closing, PcInv
  <2>2. /\ requests[1].file = file /\ file.offset \in 0..position
        /\ requests[1].data = SubSeq(Archive, file.offset + 1, position)
        /\ Len(remote) = file.offset
    BY <1>0, <1>3, <1>5 DEF UpInv
  <2> DEFINE o == Len(remote)
             d == SubSeq(Archive, o + 1, position)
  <2>o. /\ o \in Nat /\ position \in Nat /\ o <= position
        /\ position <= Len(Archive)
    BY <1>1, <2>2
  <2>3. /\ d \in Seq(Nat) /\ Len(d) = position - o
        /\ \A j \in 1..Len(d) : d[j] = Archive[o + j]
    <3>1. \A i \in o + 1 .. position : Archive[i] \in Nat
      BY <1>1, ElementOfSeq
    <3>2. /\ d \in Seq(Nat)
          /\ Len(d) = IF o + 1 <= position THEN position - (o + 1) + 1 ELSE 0
          /\ \A i \in 1..position - (o + 1) + 1 : d[i] = Archive[o + 1 + i - 1]
      BY <1>1, <3>1, SubSeqProperties
    <3> HIDE DEF d
    <3> HIDE DEF o
    <3>4. Len(d) = position - o
      BY <2>o, <3>2
    <3>5. ASSUME NEW j \in 1..Len(d)
          PROVE  d[j] = Archive[o + j]
      <4>1. j \in 1..position - (o + 1) + 1 /\ o + 1 + j - 1 = o + j
        BY <2>o, <3>4
      <4>2. d[j] = Archive[o + 1 + j - 1]
        BY <3>2, <4>1
      <4> QED
        BY <4>1, <4>2
    <3> QED
      BY <3>2, <3>4, <3>5
  <2>4. requests[1].data = d /\ requests[1].file.offset = o
    BY <2>2
  <2> HIDE DEF d
  <2>5. Prefix(remote') /\ (Reply'.type = "OK" => Len(remote') = position)
    <3>1. CASE ServeWrite
      <4>1. remote' = WriteAt(remote, o, d)
        BY <1>3, <2>4, <3>1 DEF ServeWrite
      <4>2. o + Len(d) <= Len(Archive) /\ o + Len(d) = position
        <5> HIDE DEF o
        <5> QED
          BY <1>1, <2>o, <2>3
      <4>3. /\ Prefix(WriteAt(remote, o, d))
            /\ Len(WriteAt(remote, o, d)) = o + Len(d)
        BY <1>1, <2>3, <4>2, WriteAt_End
      <4> QED
        BY <4>1, <4>2, <4>3
    <3>2. CASE Refuse
      <4>1. Reply'.type = "FAILURE"
        BY <3>2, Answer_Effect DEF Refuse, Status
      <4>2. CASE UNCHANGED remote
        BY <1>1, <4>1, <4>2
      <4>3. CASE \E k \in 1..Len(d) - 1 :
                   remote' = WriteAt(remote, o, SubSeq(d, 1, k))
        <5>1. PICK k \in 1..Len(d) - 1 :
                   remote' = WriteAt(remote, o, SubSeq(d, 1, k))
          BY <4>3
        <5> DEFINE e == SubSeq(d, 1, k)
        <5>2. Len(d) \in Nat /\ \A i \in 1..k : d[i] \in Nat
          BY <1>1, <2>3, <5>1, ElementOfSeq, LenProperties
        <5>3. /\ e \in Seq(Nat) /\ Len(e) = k
              /\ \A j \in 1..k : e[j] = d[j]
          BY <5>2, SubSeqProperties
        <5>4. remote' = WriteAt(remote, o, e)
          BY <5>1
        <5> HIDE DEF e
        <5>5. /\ o + Len(e) <= Len(Archive)
              /\ \A j \in 1..Len(e) : e[j] = Archive[o + j]
          <6>1. k \in Nat /\ k <= Len(d) /\ o + k <= Len(Archive)
            <7> HIDE DEF o
            <7> QED
              BY <1>1, <2>o, <2>3
          <6>2. \A j \in 1..k : j \in 1..Len(d)
            BY <5>2, <6>1
          <6> QED
            BY <2>3, <5>3, <6>1, <6>2
        <5>6. Prefix(WriteAt(remote, o, e))
          BY <1>1, <5>3, <5>5, WriteAt_End
        <5> QED
          BY <4>1, <5>4, <5>6
      <4> QED
        BY <1>3, <2>4, <3>2, <4>2, <4>3 DEF Refuse
    <3> QED
      BY <1>3, <2>1, <3>1, <3>2
      DEF Serve, Server, ServeOpen, ServeReaddir, ServeRead, ServeClose,
          Requested
  <2> QED
    BY <1>1, <1>3, <1>5, <2>1, <2>2, <2>5 DEF UpInv, Prefix, Replied
<1>6. CASE pc \notin {"create", "write"}
  <2>1. UNCHANGED remote
    <3>1. ~Requested("OPEN_TRUNC") /\ ~Requested("WRITE")
      BY <1>3, <1>6 DEF Requested, Asks, Closing
    <3> QED
      BY <3>1
      DEF Serve, Server, ServeOpen, ServeReaddir, ServeRead, ServeWrite,
          ServeClose, Refuse
  <2> QED
    BY <1>0, <1>1, <1>6, <2>1 DEF UpInv
<1> QED
  BY <1>4, <1>5, <1>6

\* Every step keeps the remote file a prefix of the archive.
LEMMA UpInv_Step ==
  ASSUME PcInv, NetInv, HandleInv, UpInv, [Next]_vars
  PROVE  UpInv'
<1>1. CASE Caller
  BY <1>1, UpInv_Caller
<1>2. CASE Serve
  BY <1>2, UpInv_Serve
<1>3. CASE \E n \in Lengths : Rewrite(n)
  BY <1>3 DEF Rewrite, UpInv
<1>4. CASE Dispatch \/ ConnectionLost \/ Finished \/ UNCHANGED vars
  <2>1. /\ UNCHANGED <<thread, pc, file, failed, bad, result, position, remote>>
        /\ requests' \in {requests, <<>>}
        /\ HasReply' => HasReply /\ Reply' = Reply
    BY <1>4, Dispatch_Effect, Disconnect_Effect
    DEF Finished, HasReply, Reply
  <2> QED
    BY <2>1 DEF UpInv, Replied
<1> QED
  BY <1>1, <1>2, <1>3, <1>4 DEF Next

-----------------------------------------------------------------------------
(* The theorems *)

\* A session that was just set up.
LEMMA CopyInv_Init == Init => CopyInv
<1> SUFFICES ASSUME Init
             PROVE  CopyInv
  OBVIOUS
<1> USE DEF Init, SftpInit
<1>1. PcInv /\ NetInv
  BY DEF PcInv, NetInv, HasReply, Opening, Closing
<1>2. HandleInv /\ ListInv
  BY DEF HandleInv, ListInv, ListingIsComplete, NoHandle, Opening, Closing
<1>3. <<>> \in Seq(Nat) /\ Len(Archive) \in Nat
  BY EmptySeq, LenProperties, CopyAssumption DEF CopyAssumption
<1>4. DownInv
  <2> SUFFICES ASSUME thread = "download"
               PROVE  DownInv
    BY DEF DownInv
  <2>1. PICK n \in Lengths : remote = Content(1, n)
    OBVIOUS
  <2>2. remote \in Seq(Nat)
    BY <2>1, CopyAssumption DEF Content, CopyAssumption
  <2> QED
    BY <1>3, <2>2 DEF DownInv
<1>5. UpInv
  BY <1>3 DEF UpInv
<1> QED
  BY <1>1, <1>2, <1>4, <1>5 DEF CopyInv

\* Every step, of the thread, the server, the network or another program.
LEMMA CopyInv_Step ==
  ASSUME CopyInv, [Next]_vars
  PROVE  CopyInv'
BY PcInv_Step, NetInv_Step, HandleInv_Step, ListInv_Step, DownInv_Step,
   UpInv_Step
DEF CopyInv

(***************************************************************************)
(* CopyInv holds throughout, whatever the server refuses and wherever the  *)
(* connection breaks.                                                      *)
(***************************************************************************)
THEOREM CopyInvariance == Spec => []CopyInv
BY CopyInv_Init, CopyInv_Step, PTL DEF Spec

(***************************************************************************)
(* No function leaves an answer or a handle behind, for any number of      *)
(* request ids: at most one packet is ever under way, so that even with a  *)
(* single id no answer is mistaken for another.                            *)
(***************************************************************************)
THEOREM NothingLeft == Spec => []NothingLeftBehind
<1>1. CopyInv => NothingLeftBehind
  BY DEF CopyInv, NetInv, HandleInv, NothingLeftBehind, HasReply
<1> QED
  BY <1>1, CopyInvariance, PTL

\* A listing that met no error is complete.
THEOREM ListingComplete == Spec => []ListingIsComplete
<1>1. CopyInv => ListingIsComplete
  BY DEF CopyInv, ListInv
<1> QED
  BY <1>1, CopyInvariance, PTL

(***************************************************************************)
(* A download without an error has each block at its place in a content    *)
(* the file had meanwhile, and reaches to the end of one of them; the very *)
(* content, if there was only one.                                         *)
(***************************************************************************)
THEOREM FaithfulDownload == Spec => []DownloadIsFaithful
<1>1. ASSUME CopyInv
      PROVE  DownloadIsFaithful
  <2> SUFFICES ASSUME pc = "close", ~failed
               PROVE  /\ \A i \in DOMAIN buffer :
                            \E s \in seen : i \in DOMAIN s /\ buffer[i] = s[i]
                      /\ \E s \in seen : Len(buffer) >= Len(s)
                      /\ \A s \in seen : seen = {s} => buffer = s
    BY DEF DownloadIsFaithful
  <2>1. thread = "download"
    BY <1>1 DEF CopyInv, PcInv
  <2>2. /\ buffer \in Seq(Nat) /\ seen \subseteq Seq(Nat)
        /\ \A i \in 1..Len(buffer) : InSome(i, buffer[i])
        /\ AtEnd
    BY <1>1, <2>1 DEF CopyInv, DownInv
  <2>3. /\ Len(buffer) \in Nat /\ DOMAIN buffer = 1..Len(buffer)
        /\ \A s \in seen : Len(s) \in Nat /\ DOMAIN s = 1..Len(s)
    BY <2>2, LenProperties
  <2>4. \A i \in DOMAIN buffer :
          \E s \in seen : i \in DOMAIN s /\ buffer[i] = s[i]
    BY <2>2, <2>3 DEF InSome
  <2>5. \E s \in seen : Len(buffer) >= Len(s)
    BY <2>2, <2>3 DEF AtEnd
  <2>6. ASSUME NEW s \in seen, seen = {s}
        PROVE  buffer = s
    <3>1. /\ \A i \in 1..Len(buffer) : i \in 1..Len(s) /\ buffer[i] = s[i]
          /\ Len(buffer) >= Len(s)
      BY <2>3, <2>4, <2>5, <2>6
    <3>2. Len(buffer) = Len(s)
      <4>1. CASE Len(buffer) = 0
        BY <2>3, <3>1, <4>1
      <4>2. CASE Len(buffer) # 0
        <5>1. Len(buffer) \in 1..Len(buffer)
          BY <2>3, <4>2
        <5>2. Len(buffer) \in 1..Len(s)
          BY <3>1, <5>1
        <5> QED
          BY <2>3, <3>1, <5>2
      <4> QED
        BY <4>1, <4>2
    <3> QED
      BY <2>2, <3>1, <3>2, SeqEqual
  <2> QED
    BY <2>4, <2>5, <2>6
<1> QED
  BY <1>1, CopyInvariance, PTL

(***************************************************************************)
(* What is on RemoteHost2 is a prefix of the archive at every moment, and  *)
(* all of it when upload_file has returned true and ifstream::read did not *)
(* fail.                                                                   *)
(***************************************************************************)
THEOREM UploadPrefix == Spec => []UploadIsPrefix
<1>1. ASSUME CopyInv
      PROVE  UploadIsPrefix
  <2> SUFFICES ASSUME thread = "upload"
               PROVE  /\ IsPrefix(remote, Archive)
                      /\ result = "true" /\ ~bad => remote = Archive
    BY DEF UploadIsPrefix
  <2>1. /\ remote \in Seq(Nat) /\ Len(remote) <= Len(Archive)
        /\ \A i \in 1..Len(remote) : remote[i] = Archive[i]
        /\ result = "true" /\ ~bad => Len(remote) = Len(Archive)
    BY <1>1 DEF CopyInv, UpInv
  <2>2. Archive \in Seq(Nat) /\ Len(Archive) \in Nat /\ Len(remote) \in Nat
    BY <2>1, CopyAssumption, LenProperties DEF CopyAssumption
  <2>3. SubSeq(remote, 1, Len(remote)) = SubSeq(Archive, 1, Len(remote))
    <3> DEFINE n == Len(remote)
               s == SubSeq(remote, 1, n)
               t == SubSeq(Archive, 1, n)
    <3>1. \A i \in 1..n : remote[i] \in Nat /\ Archive[i] \in Nat
      BY <2>1, <2>2, ElementOfSeq
    <3>2. /\ s \in Seq(Nat) /\ Len(s) = IF 1 <= n THEN n - 1 + 1 ELSE 0
          /\ \A i \in 1..n - 1 + 1 : s[i] = remote[1 + i - 1]
      BY <2>2, <3>1, SubSeqProperties
    <3>3. /\ t \in Seq(Nat) /\ Len(t) = IF 1 <= n THEN n - 1 + 1 ELSE 0
          /\ \A i \in 1..n - 1 + 1 : t[i] = Archive[1 + i - 1]
      BY <2>2, <3>1, SubSeqProperties
    <3> HIDE DEF s, t
    <3>4. Len(s) = n /\ Len(t) = n /\ \A i \in 1..n : s[i] = t[i]
      BY <2>1, <2>2, <3>2, <3>3
    <3>5. s = t
      BY <3>2, <3>3, <3>4, SeqEqual
    <3> QED
      BY <3>5 DEF s, t
  <2>4. result = "true" /\ ~bad => remote = Archive
    BY <2>1, <2>2, SeqEqual
  <2> QED
    BY <2>1, <2>3, <2>4 DEF IsPrefix
<1> QED
  BY <1>1, CopyInvariance, PTL
==============================================================================
