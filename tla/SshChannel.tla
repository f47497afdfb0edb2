----------------------------- MODULE SshChannel ------------------------------
(***************************************************************************)
(* One SSH channel (libssh, channels.c) as the SFTP client uses it: opened *)
(* by sftp_new, a request written in full and its answer read in full,     *)
(* again and again, closed and freed by sftp_free and ssh_disconnect.      *)
(* Each side may send only as much as the other side has granted.          *)
(*                                                                         *)
(* Data is counted, not kept.  The server and the network, which delivers  *)
(* in order, are modelled from what the client relies on.                  *)
(***************************************************************************)
EXTENDS Integers, Sequences, FiniteSets

CONSTANTS
    WINDOWBASE,       \* what grow_window grows the window to
    WINDOWLIMIT,      \* below this it is grown
    InitialWindow,    \* local window in the CHANNEL_OPEN
    ServerWindow,     \* window that the server grants
    MaxPacket,        \* what both sides put into one packet
    RequestLength,    \* length of a request
    ReplyLengths,     \* lengths of answers
    MaxCalls          \* bound: requests

ASSUME ChannelAssumption ==
    /\ WINDOWBASE \in Nat \ {0}
    /\ WINDOWLIMIT \in 1..WINDOWBASE
    /\ InitialWindow \in Nat
    /\ ServerWindow \in Nat \ {0}
    /\ MaxPacket \in Nat \ {0}
    /\ RequestLength \in Nat \ {0}
    /\ ReplyLengths \subseteq Nat \ {0}
    /\ MaxCalls \in Nat

VARIABLES
    (* Network *)
    c2s, s2c,         \* packets under way
    burst,            \* packets that the current read of the socket still has
    (* ssh_channel *)
    session,          \* "ok" or "error"
    state,            \* channel->state
    request_state,    \* channel->request_state
    local_window, remote_window,
    buffered,         \* bytes in stdout_buffer
    remote_eof, local_eof, delayed_close,
    flags,            \* channel->flags
    freed,            \* how often ssh_channel_do_free was called
    (* The SFTP client *)
    pc, calls,
    len,              \* bytes of the request still to be written
    rest,             \* bytes of the answer still to be read
    count,            \* bytes that the current ssh_channel_read asks for
    (* Server *)
    s_window,         \* bytes the client may still send
    s_remote,         \* bytes the server may still send
    s_got,            \* bytes of the current request received
    s_owe,            \* bytes of the answer not sent yet
    s_state,          \* "none", "open", "running" (the subsystem), "closed"
    s_seen            \* what the client has ended: "none", "eof", "close"

net     == <<c2s, s2c>>
ends    == <<remote_eof, local_eof, delayed_close, flags, freed>>
windows == <<local_window, remote_window, buffered>>
client  == <<pc, calls, len, rest, count>>
server  == <<s_window, s_remote, s_got, s_owe, s_state, s_seen>>
chan    == <<state, request_state, windows, ends>>
vars    == <<net, burst, session, chan, client, server>>

Lesser(a, b)  == IF a < b THEN a ELSE b
Greater(a, b) == IF a > b THEN a ELSE b

Packet(type, n) == [type |-> type, n |-> n]

Init ==
    /\ c2s = <<>> /\ s2c = <<>> /\ burst = 0
    /\ session = "ok"
    /\ state = "NOT_OPEN" /\ request_state = "NONE"
    /\ local_window = 0 /\ remote_window = 0 /\ buffered = 0
    /\ remote_eof = FALSE /\ local_eof = FALSE /\ delayed_close = FALSE
    /\ flags = {"NOT_BOUND"} /\ freed = 0
    /\ pc = "new" /\ calls = 0 /\ len = 0 /\ rest = 0 /\ count = 0
    /\ s_window = 0 /\ s_remote = 0 /\ s_got = 0 /\ s_owe = 0
    /\ s_state = "none" /\ s_seen = "none"

-----------------------------------------------------------------------------
(* Windows *)

\* What is sent on a dead connection is lost.
Sent(out, p) == IF session = "ok" THEN Append(out, p) ELSE out

Send(p) == c2s' = Sent(c2s, p)

\* Mutant: WINDOW_ADJUST carries the new window, not the increment.
grow_window_absolute(minimumsize, window, out) ==
    LET new_window == Greater(minimumsize, WINDOWBASE)
    IN  IF new_window <= window
        THEN local_window' = window /\ c2s' = out
        ELSE /\ local_window' = new_window
             /\ c2s' = Sent(out, Packet("ADJUST", new_window))

\* The window is raised to WINDOWBASE or minimumsize, and the server told by
\* how much.
grow_window(minimumsize, window, out) ==
    LET new_window == Greater(minimumsize, WINDOWBASE)
    IN  IF new_window <= window
        THEN local_window' = window /\ c2s' = out
        ELSE /\ local_window' = new_window
             /\ c2s' = Sent(out, Packet("ADJUST", new_window - window))

-----------------------------------------------------------------------------
(* Packet handlers *)

ssh_packet_channel_open_conf(p) ==
    /\ p.type = "OPEN_CONF"
    /\ remote_window' = p.n
    /\ state' = "OPEN"
    /\ flags' = flags \ {"NOT_BOUND"}
    /\ UNCHANGED <<c2s, request_state, local_window, buffered, remote_eof,
                   local_eof, delayed_close, freed>>

ssh_packet_channel_open_fail(p) ==
    /\ p.type = "OPEN_FAIL"
    /\ state' = "OPEN_DENIED"
    /\ UNCHANGED <<c2s, request_state, windows, ends>>

\* ssh_packet_channel_failure is the same with DENIED.
ssh_packet_channel_success(p) ==
    /\ p.type \in {"SUCCESS", "FAILURE"}
    /\ request_state' = IF request_state # "PENDING" THEN request_state
                        ELSE IF p.type = "SUCCESS" THEN "ACCEPTED"
                        ELSE "DENIED"
    /\ UNCHANGED <<c2s, state, windows, ends>>

channel_rcv_change_window(p) ==
    /\ p.type = "ADJUST"
    /\ remote_window' = remote_window + p.n
    /\ UNCHANGED <<c2s, state, request_state, local_window, buffered, ends>>

\* Data beyond the window is accepted, and leaves a window of 0.
channel_rcv_data(p) ==
    /\ p.type = "DATA"
    /\ buffered' = buffered + p.n
    /\ LET window == Greater(local_window - p.n, 0)
       IN  IF window + buffered + p.n < WINDOWLIMIT
           THEN grow_window(0, window, c2s)
           ELSE local_window' = window /\ UNCHANGED c2s
    /\ UNCHANGED <<state, request_state, remote_window, ends>>

channel_rcv_eof(p) ==
    /\ p.type = "EOF"
    /\ remote_eof' = TRUE
    /\ UNCHANGED <<c2s, state, request_state, windows, local_eof,
                   delayed_close, flags, freed>>

\* Mutant: the channel is closed although there is data to read.
channel_rcv_close_at_once(p) ==
    /\ p.type = "CLOSE"
    /\ state' = "CLOSED"
    /\ remote_eof' = TRUE
    /\ flags' = flags \union {"CLOSED_REMOTE"}
    /\ freed' = IF "FREED_LOCAL" \in flags THEN freed + 1 ELSE freed
    /\ UNCHANGED <<c2s, request_state, windows, local_eof, delayed_close>>

\* Mutant: the channel is freed whether or not its owner has done with it.
channel_rcv_close_frees(p) ==
    /\ p.type = "CLOSE"
    /\ IF buffered > 0
       THEN delayed_close' = TRUE /\ UNCHANGED state
       ELSE state' = "CLOSED" /\ UNCHANGED delayed_close
    /\ remote_eof' = TRUE
    /\ flags' = flags \union {"CLOSED_REMOTE"}
    /\ freed' = freed + 1
    /\ UNCHANGED <<c2s, request_state, windows, local_eof>>

\* While there is data to read the channel stays open for reading.
channel_rcv_close(p) ==
    /\ p.type = "CLOSE"
    /\ IF buffered > 0
       THEN delayed_close' = TRUE /\ UNCHANGED state
       ELSE state' = "CLOSED" /\ UNCHANGED delayed_close
    /\ remote_eof' = TRUE
    /\ flags' = flags \union {"CLOSED_REMOTE"}
    /\ freed' = IF "FREED_LOCAL" \in flags THEN freed + 1 ELSE freed
    /\ UNCHANGED <<c2s, request_state, windows, local_eof>>

-----------------------------------------------------------------------------
(* Waiting *)

channel_open_termination == state # "OPENING" \/ session = "error"

channel_request_termination == request_state # "PENDING" \/ session = "error"

\* Mutant: a closed channel does not end the wait for the window.
waitwindow_closed_ignored == remote_window > 0 \/ session = "error"

ssh_channel_waitwindow_termination ==
    remote_window > 0 \/ session = "error" \/ state = "CLOSED"

ssh_channel_read_termination ==
    buffered >= 1 \/ remote_eof \/ session = "error"

\* The call in progress has nothing to do but to wait.
Blocked ==
    \/ pc = "open" /\ ~channel_open_termination
    \/ pc = "request" /\ ~channel_request_termination
    \/ pc = "write" /\ len > 0 /\ ~ssh_channel_waitwindow_termination
    \/ pc = "read" /\ ~ssh_channel_read_termination

\* ssh_channel_flush may handle packets while it waits for the socket to
\* take what was written, and the session outlives the channel.
Flushing ==
    \/ pc \in {"eof", "close"} /\ c2s # <<>>
    \/ pc = "write" /\ len = 0 /\ c2s # <<>>
    \/ pc = "freed"

(***************************************************************************)
(* One packet of ssh_handle_packets_termination.  One read of the socket   *)
(* may bring several packets, all of which are handled before the          *)
(* condition is tested again.  A packet for a channel that is gone would   *)
(* be dropped; the server sends nothing after its CLOSE.                   *)
(***************************************************************************)
ssh_handle_packets ==
    /\ session = "ok"
    /\ s2c # <<>>
    /\ freed = 0
    /\ burst > 0 \/ Blocked \/ Flushing
    /\ LET p == Head(s2c)
       IN  \/ ssh_packet_channel_open_conf(p)
           \/ ssh_packet_channel_open_fail(p)
           \/ ssh_packet_channel_success(p)
           \/ channel_rcv_change_window(p)
           \/ channel_rcv_data(p)
           \/ channel_rcv_eof(p)
           \/ channel_rcv_close(p)
    /\ s2c' = Tail(s2c)
    /\ IF burst > 0
       THEN burst' = burst - 1
       ELSE burst' \in 0..Len(s2c) - 1
    /\ UNCHANGED <<session, client, server>>

\* The call in progress goes on.
Runs(at) == pc = at /\ burst = 0

-----------------------------------------------------------------------------
(* Calls *)

\* sftp_new: ssh_channel_open_session.
channel_open ==
    /\ Runs("new")
    /\ state' = "OPENING"
    /\ local_window' = InitialWindow
    /\ Send(Packet("OPEN", InitialWindow))
    /\ pc' = "open"
    /\ UNCHANGED <<s2c, burst, session, request_state, remote_window,
                   buffered, ends, calls, len, rest, count, server>>

\* sftp_new: ssh_channel_request_subsystem, or the channel is freed.
channel_request ==
    /\ Runs("open")
    /\ channel_open_termination
    /\ IF session = "ok" /\ state = "OPEN"
       THEN /\ request_state' = "PENDING"
            /\ Send(Packet("REQUEST", 0))
            /\ pc' = "request"
       ELSE /\ pc' = "free"
            /\ UNCHANGED <<c2s, request_state>>
    /\ UNCHANGED <<s2c, burst, session, state, windows, ends, calls, len,
                   rest, count, server>>

channel_request_returns ==
    /\ Runs("request")
    /\ channel_request_termination
    /\ pc' = IF session = "ok" /\ request_state = "ACCEPTED"
             THEN "idle"
             ELSE "free"
    /\ request_state' = "NONE"
    /\ UNCHANGED <<net, burst, session, state, windows, ends, calls, len,
                   rest, count, server>>

\* Mutant: a delayed close does not refuse the write.
write_refused_not_delayed ==
    local_eof \/ state # "OPEN" \/ session = "error"

write_refused ==
    local_eof \/ state # "OPEN" \/ delayed_close \/ session = "error"

(***************************************************************************)
(* sftp_packet_write calls ssh_channel_write, which refuses at once when   *)
(* the channel is closed.                                                  *)
(***************************************************************************)
channel_write_begins(reply) ==
    /\ Runs("idle")
    /\ calls < MaxCalls
    /\ calls' = calls + 1
    /\ IF write_refused
       THEN pc' = "free" /\ UNCHANGED <<len, rest>>
       ELSE pc' = "write" /\ len' = RequestLength /\ rest' = reply
    /\ UNCHANGED <<net, burst, session, chan, count, server>>

\* Mutant: the remote window is not looked at.
write_length_unbounded == Lesser(len, MaxPacket)

write_length == Lesser(Lesser(len, remote_window), MaxPacket)

\* One iteration of the loop of channel_write_common that sends.
channel_write ==
    /\ Runs("write")
    /\ len > 0
    /\ remote_window > 0
    /\ state # "CLOSED"
    /\ Send(Packet("DATA", write_length))
    /\ remote_window' = remote_window - write_length
    /\ len' = len - write_length
    /\ UNCHANGED <<s2c, burst, session, state, request_state, local_window,
                   buffered, ends, pc, calls, rest, count, server>>

(***************************************************************************)
(* ssh_channel_write returns: all is written, or the wait for the window   *)
(* was in vain and the count is short.  sftp_packet_write only logs that,  *)
(* and the answer is waited for.                                           *)
(***************************************************************************)
channel_write_returns ==
    /\ Runs("write")
    /\ \/ len = 0
       \/ /\ ssh_channel_waitwindow_termination
          /\ session = "error" \/ state = "CLOSED"
    /\ pc' = "read_begins"
    /\ len' = 0
    /\ UNCHANGED <<net, burst, session, chan, calls, rest, count, server>>

\* ssh_channel_read: the window must allow what is asked for.
channel_read_begins(n) ==
    /\ Runs("read_begins")
    /\ n \in 1..rest
    /\ count' = n
    /\ IF n > buffered + local_window
       THEN grow_window(n - buffered, local_window, c2s)
       ELSE UNCHANGED <<local_window, c2s>>
    /\ pc' = "read"
    /\ UNCHANGED <<s2c, burst, session, state, request_state, remote_window,
                   buffered, ends, calls, len, rest, server>>

\* ssh_channel_read returns 0 or an error; sftp_packet_read gives up.
channel_read_fails ==
    /\ Runs("read")
    /\ ssh_channel_read_termination
    /\ \/ session = "error"
       \/ state = "CLOSED"
       \/ remote_eof /\ buffered = 0
    /\ pc' = "free"
    /\ UNCHANGED <<net, burst, session, chan, calls, len, rest, count,
                   server>>

\* It returns what there is, and grants the server more.
channel_read ==
    /\ Runs("read")
    /\ buffered >= 1
    /\ session = "ok"
    /\ state # "CLOSED"
    /\ LET n == Lesser(count, buffered)
       IN  /\ buffered' = buffered - n
           /\ rest' = rest - n
           /\ pc' = IF rest = n THEN "idle" ELSE "read_begins"
    /\ count' = 0
    /\ IF local_window < WINDOWLIMIT
       THEN grow_window(0, local_window, c2s)
       ELSE UNCHANGED <<local_window, c2s>>
    /\ UNCHANGED <<s2c, burst, session, state, request_state, remote_window,
                   ends, calls, len, server>>

\* Mutant: the end of file is sent again although it was sent.
send_eof_again == state \in {"OPEN", "CLOSED"}

\* ssh_channel_send_eof sends only the first end of file.
send_eof == state \in {"OPEN", "CLOSED"} /\ ~local_eof

\* sftp_free: ssh_channel_send_eof.
ssh_channel_send_eof ==
    /\ Runs("free") \/ Runs("idle")
    /\ IF send_eof
       THEN Send(Packet("EOF", 0)) /\ local_eof' = (session = "ok")
       ELSE UNCHANGED <<c2s, local_eof>>
    /\ pc' = "eof"
    /\ UNCHANGED <<s2c, burst, session, state, request_state, windows,
                   remote_eof, delayed_close, flags, freed, calls, len, rest,
                   count, server>>

\* ssh_channel_free: the close that it may have to send.
send_close ==
    /\ session = "ok"
    /\ \/ state = "OPEN"
       \/ /\ state = "CLOSED"
          /\ "CLOSED_REMOTE" \in flags
          /\ "CLOSED_LOCAL" \notin flags

\* ssh_channel_close, called by ssh_channel_free.
ssh_channel_close ==
    /\ Runs("eof")
    /\ IF send_close
       THEN /\ c2s' = (IF send_eof THEN Append(c2s, Packet("EOF", 0)) ELSE c2s)
                          \o <<Packet("CLOSE", 0)>>
            /\ local_eof' = TRUE
            /\ state' = "CLOSED"
            /\ flags' = flags \union {"CLOSED_LOCAL"}
       ELSE UNCHANGED <<c2s, local_eof, state, flags>>
    /\ pc' = "close"
    /\ UNCHANGED <<s2c, burst, session, request_state, windows, remote_eof,
                   delayed_close, freed, calls, len, rest, count, server>>

\* The channel is freed now, or when the server closes it.
ssh_channel_free ==
    /\ Runs("close")
    /\ flags' = flags \union {"FREED_LOCAL"}
    /\ freed' = IF flags \intersect {"CLOSED_REMOTE", "NOT_BOUND"} # {}
                THEN freed + 1
                ELSE freed
    /\ pc' = "freed"
    /\ UNCHANGED <<net, burst, session, state, request_state, windows,
                   remote_eof, local_eof, delayed_close, calls, len, rest,
                   count, server>>

\* The connection is closed, and the channels that are left are freed.
ssh_disconnect ==
    /\ Runs("freed")
    /\ session' = "disconnected"
    /\ c2s' = <<>> /\ s2c' = <<>>
    /\ freed' = IF freed = 0 THEN 1 ELSE freed
    /\ pc' = "done"
    /\ UNCHANGED <<burst, state, request_state, windows, remote_eof,
                   local_eof, delayed_close, flags, calls, len, rest, count,
                   server>>

-----------------------------------------------------------------------------
(* Server and connection *)

SReply(p) == s2c' = Append(s2c, p)

\* The server takes one packet.
ServerReceives ==
    /\ session = "ok"
    /\ c2s # <<>>
    /\ c2s' = Tail(c2s)
    /\ LET p == Head(c2s)
       IN  \/ /\ p.type = "OPEN"
              /\ \/ /\ SReply(Packet("OPEN_CONF", ServerWindow))
                    /\ s_window' = ServerWindow
                    /\ s_remote' = p.n
                    /\ s_state' = "open"
                 \/ /\ SReply(Packet("OPEN_FAIL", 0))
                    /\ UNCHANGED <<s_window, s_remote, s_state>>
              /\ UNCHANGED <<s_got, s_owe, s_seen>>
           \/ /\ p.type = "REQUEST"
              /\ \/ SReply(Packet("SUCCESS", 0)) /\ s_state' = "running"
                 \/ SReply(Packet("FAILURE", 0)) /\ UNCHANGED s_state
              /\ UNCHANGED <<s_window, s_remote, s_got, s_owe, s_seen>>
           \/ /\ p.type = "DATA"
              /\ s_window' = s_window - p.n
              /\ s_got' = (s_got + p.n) % RequestLength
              /\ s_owe' = IF s_got + p.n = RequestLength /\ s_state = "running"
                          THEN rest
                          ELSE s_owe
              /\ UNCHANGED <<s2c, s_remote, s_state, s_seen>>
           \/ /\ p.type = "ADJUST"
              /\ s_remote' = s_remote + p.n
              /\ UNCHANGED <<s2c, s_window, s_got, s_owe, s_state, s_seen>>
           \/ /\ p.type \in {"EOF", "CLOSE"}
              /\ s_seen' = IF p.type = "EOF" THEN "eof" ELSE "close"
              /\ s_state' = IF p.type = "CLOSE" THEN "closed" ELSE s_state
              /\ IF p.type = "CLOSE" /\ s_state # "closed"
                 THEN SReply(Packet("CLOSE", 0))
                 ELSE UNCHANGED s2c
              /\ UNCHANGED <<s_window, s_remote, s_got, s_owe>>
    /\ UNCHANGED <<burst, session, chan, client>>

ServerOnly == UNCHANGED <<c2s, burst, session, chan, client>>

ServerGrants ==
    /\ session = "ok"
    /\ s_state = "running"
    /\ s_window < ServerWindow
    /\ SReply(Packet("ADJUST", ServerWindow - s_window))
    /\ s_window' = ServerWindow
    /\ UNCHANGED <<s_remote, s_got, s_owe, s_state, s_seen>>
    /\ ServerOnly

ServerSends(n) ==
    /\ session = "ok"
    /\ s_state = "running"
    /\ n <= Lesser(s_owe, s_remote)
    /\ SReply(Packet("DATA", n))
    /\ s_owe' = s_owe - n
    /\ s_remote' = s_remote - n
    /\ UNCHANGED <<s_window, s_got, s_state, s_seen>>
    /\ ServerOnly

\* The SFTP subsystem ends, with or without an end of file before the close.
ServerCloses ==
    /\ session = "ok"
    /\ s_state = "running"
    /\ s_state' = "closed"
    /\ s_owe' = 0
    /\ \/ s2c' = s2c \o <<Packet("EOF", 0), Packet("CLOSE", 0)>>
       \/ SReply(Packet("CLOSE", 0))
    /\ UNCHANGED <<s_window, s_remote, s_got, s_seen>>
    /\ ServerOnly

\* The connection breaks, and a read of the socket notices it.
ConnectionLost ==
    /\ session = "ok"
    /\ session' = "error"
    /\ c2s' = <<>> /\ s2c' = <<>> /\ burst' = 0
    /\ UNCHANGED <<chan, client, server>>

-----------------------------------------------------------------------------
Call ==
    \/ channel_open \/ channel_request \/ channel_request_returns
    \/ \E n \in ReplyLengths : channel_write_begins(n)
    \/ channel_write \/ channel_write_returns
    \/ \E n \in 1..rest : channel_read_begins(n)
    \/ channel_read_fails \/ channel_read
    \/ ssh_channel_send_eof \/ ssh_channel_close \/ ssh_channel_free
    \/ ssh_disconnect

ServerWorks ==
    \/ ServerReceives
    \/ ServerGrants
    \/ \E n \in 1..MaxPacket : ServerSends(n)

Done == pc = "done" /\ UNCHANGED vars

Next ==
    \/ ssh_handle_packets
    \/ Call
    \/ ServerWorks
    \/ ServerCloses
    \/ ConnectionLost
    \/ Done

\* Each side goes on when it can: the server works off what it received,
\* grants what it took and sends what it owes.
Spec == Init /\ [][Next]_vars
             /\ WF_vars(ssh_handle_packets) /\ WF_vars(Call)
             /\ WF_vars(ServerReceives) /\ WF_vars(ServerGrants)
             /\ WF_vars(\E n \in 1..MaxPacket : ServerSends(n))

-----------------------------------------------------------------------------
(* Properties *)

TypeOK ==
    /\ state \in {"NOT_OPEN", "OPENING", "OPEN", "CLOSED", "OPEN_DENIED"}
    /\ request_state \in {"NONE", "PENDING", "ACCEPTED", "DENIED"}
    /\ session \in {"ok", "error", "disconnected"}
    /\ flags \subseteq {"NOT_BOUND", "CLOSED_REMOTE", "CLOSED_LOCAL",
                        "FREED_LOCAL"}
    /\ {local_window, remote_window, buffered, len, rest, count} \subseteq Nat
    /\ {s_window, s_remote, s_got, s_owe} \subseteq Nat
    /\ burst \in 0..Len(s2c)
    /\ s_seen \in {"none", "eof", "close"}

\* The bytes of the packets of a type on their way: the packet a byte is in,
\* and its place there.
Bytes(type, q) ==
    UNION {{i} \X (1..q[i].n) : i \in {j \in DOMAIN q : q[j].type = type}}

InFlight(type, q) == Cardinality(Bytes(type, q))

(***************************************************************************)
(* The two sides agree on both windows: what one may still send is what    *)
(* the other will still accept, less the data and the grants under way.    *)
(* So neither ever sends more than was granted, no grant is lost or        *)
(* counted twice, and the "buggy remote" branch of channel_rcv_data is     *)
(* never taken by an honest server.                                        *)
(***************************************************************************)
WindowsAgree ==
    session = "ok" /\ s_state # "none" /\ state \in {"OPEN", "CLOSED"} =>
        /\ local_window =
               s_remote + InFlight("ADJUST", c2s) + InFlight("DATA", s2c)
        /\ s_window =
               remote_window + InFlight("ADJUST", s2c) + InFlight("DATA", c2s)

(***************************************************************************)
(* Between two requests nothing is left in the buffer: the next answer     *)
(* starts where sftp_packet_read expects it.  While a request is written   *)
(* there is nothing to read, so a close is never delayed then, which the   *)
(* wait for the window would not notice.                                   *)
(***************************************************************************)
Aligned ==
    /\ pc = "idle" => buffered = 0
    /\ pc = "write" /\ len > 0 => buffered = 0 /\ ~delayed_close
    /\ pc \in {"read_begins", "read"} => buffered <= rest

(***************************************************************************)
(* An answer that arrived before the server closed the channel is read:    *)
(* the call fails only when bytes of it are really missing.                *)
(***************************************************************************)
AnswerNotDropped ==
    [][pc = "read" /\ pc' = "free" /\ session = "ok" => buffered = 0]_vars

(***************************************************************************)
(* The client ends the channel in order: one EOF, then one CLOSE, and no   *)
(* data after them, whatever the server has closed by then.                *)
(***************************************************************************)
OrderlyEnd ==
    LET Ends(type) == \/ s_seen = "eof" /\ type = "EOF"
                      \/ s_seen = "close" /\ type \in {"EOF", "CLOSE"}
        Earlier(i) == {c2s[j].type : j \in 1..i - 1}
    IN  \A i \in DOMAIN c2s :
            LET before == Earlier(i) \union {t \in {"EOF", "CLOSE"} : Ends(t)}
            IN  /\ c2s[i].type \in {"DATA", "EOF"} =>
                       before \intersect {"EOF", "CLOSE"} = {}
                /\ c2s[i].type = "CLOSE" =>
                       "EOF" \in before /\ "CLOSE" \notin before

(***************************************************************************)
(* The channel is freed once, and not before its owner gave it up,         *)
(* whichever of ssh_channel_free, the server's CLOSE and ssh_disconnect    *)
(* comes last.                                                             *)
(***************************************************************************)
FreedOnce ==
    /\ freed <= 1
    /\ freed = 1 => "FREED_LOCAL" \in flags
    /\ pc = "done" => freed = 1

\* No call waits forever: for a grant, an answer or a close that never comes.
CallsReturn == (pc \notin {"idle", "done"}) ~> (pc \in {"idle", "done"})
-----------------------------------------------------------------------------
(* The inductive invariant behind the safety properties *)

ClientTypes == {"OPEN", "REQUEST", "DATA", "ADJUST", "EOF", "CLOSE"}
ServerTypes == {"OPEN_CONF", "OPEN_FAIL", "SUCCESS", "FAILURE", "ADJUST",
                "DATA", "EOF", "CLOSE"}

\* No packet of these types is on its way.
NoneOf(types, q) == \A i \in DOMAIN q : q[i].type \notin types

NetInv ==
    /\ c2s \in Seq([type : ClientTypes, n : Nat])
    /\ s2c \in Seq([type : ServerTypes, n : Nat])
    /\ session # "ok" => c2s = <<>> /\ s2c = <<>> /\ burst = 0

PcInv ==
    /\ pc \in {"new", "open", "request", "idle", "write", "read_begins",
               "read", "free", "eof", "close", "freed", "done"}
    /\ freed \in Nat

\* The owner gives the channel up once, as its last call.
FreeInv ==
    /\ "FREED_LOCAL" \in flags <=> pc \in {"freed", "done"}
    /\ FreedOnce

\* Before the channel is open at most one packet is on its way.
Unopened ==
    /\ pc \in {"new", "open", "free", "eof", "close", "freed"}
    /\ state \in {"NOT_OPEN", "OPEN_DENIED"} /\ s_state = "none"
    /\ c2s = <<>> /\ s2c = <<>>

Opening ==
    /\ state = "OPENING" /\ pc = "open"
    /\ local_window = InitialWindow
    /\ \/ /\ c2s = <<Packet("OPEN", InitialWindow)>> /\ s2c = <<>>
          /\ s_state = "none"
       \/ /\ c2s = <<>> /\ s2c = <<Packet("OPEN_FAIL", 0)>>
          /\ s_state = "none"
       \/ /\ c2s = <<>> /\ s2c = <<Packet("OPEN_CONF", ServerWindow)>>
          /\ s_state = "open"
          /\ s_window = ServerWindow /\ s_remote = InitialWindow

Opened ==
    /\ pc = "open" /\ state = "OPEN" /\ s_state = "open"
    /\ c2s = <<>> /\ s2c = <<>>

Requesting ==
    /\ pc = "request" /\ state = "OPEN" /\ s_state = "open"
    /\ request_state = "PENDING"
    /\ c2s = <<Packet("REQUEST", 0)>> /\ s2c = <<>>

\* From then on the channel is neither opened nor requested again.
Established ==
    /\ pc \notin {"new", "open"}
    /\ state \in {"OPEN", "CLOSED"} /\ s_state \in {"open", "running", "closed"}
    /\ NoneOf({"OPEN", "REQUEST"}, c2s)
    /\ NoneOf({"OPEN_CONF", "OPEN_FAIL"}, s2c)

LinkInv ==
    session = "ok" =>
        Unopened \/ Opening \/ Opened \/ Requesting \/ Established

\* The server sends nothing after its CLOSE.
CloseInv ==
    /\ session = "ok" =>
           /\ \A i \in DOMAIN s2c : s2c[i].type = "CLOSE" =>
                  i = Len(s2c) /\ s_state = "closed"
           /\ "CLOSED_REMOTE" \in flags => s2c = <<>> /\ s_state = "closed"
    /\ state = "CLOSED" /\ "CLOSED_LOCAL" \notin flags =>
           "CLOSED_REMOTE" \in flags /\ buffered = 0

\* What the client has ended it has told the server, or is telling it.
EndInv ==
    /\ local_eof => pc \in {"eof", "close", "freed", "done"}
    /\ "CLOSED_LOCAL" \in flags =>
           local_eof /\ pc \in {"close", "freed", "done"}
    /\ ~local_eof => s_seen = "none" /\ NoneOf({"EOF", "CLOSE"}, c2s)
    /\ "CLOSED_LOCAL" \notin flags =>
           s_seen # "close" /\ NoneOf({"CLOSE"}, c2s)
    /\ local_eof /\ session = "ok" =>
           s_seen # "none" \/ ~NoneOf({"EOF"}, c2s)

\* OrderlyEnd, packet by packet.
OrderInv ==
    \A i \in DOMAIN c2s :
        /\ c2s[i].type \in {"DATA", "EOF"} =>
               /\ s_seen = "none"
               /\ \A j \in 1..i - 1 : c2s[j].type \notin {"EOF", "CLOSE"}
        /\ c2s[i].type = "CLOSE" =>
               /\ s_seen = "eof" \/ \E j \in 1..i - 1 : c2s[j].type = "EOF"
               /\ s_seen # "close"
               /\ \A j \in 1..i - 1 : c2s[j].type # "CLOSE"

\* The bytes of a request are written, under way or received, and nothing is
\* answered ...
Asking ==
    /\ s_got + InFlight("DATA", c2s) + len <= RequestLength
    /\ s_got < RequestLength
    /\ s_owe = 0 /\ InFlight("DATA", s2c) = 0 /\ buffered = 0
    /\ pc = "write" /\ len > 0 => ~delayed_close

\* ... until all have been received: then no more is owed, under way and
\* buffered than the caller will read.
Answering ==
    /\ s_got = 0 /\ InFlight("DATA", c2s) = 0 /\ len = 0
    /\ s_owe + InFlight("DATA", s2c) + buffered <= rest

Quiet ==
    /\ s_got = 0 /\ InFlight("DATA", c2s) = 0 /\ len = 0
    /\ s_owe = 0 /\ InFlight("DATA", s2c) = 0 /\ buffered = 0

FlowInv ==
    /\ pc \in {"new", "open", "request", "idle"} => Quiet
    /\ pc \in {"write", "read_begins", "read"} => Asking \/ Answering

ChannelInv ==
    /\ TypeOK /\ NetInv /\ PcInv /\ FreeInv /\ LinkInv /\ CloseInv
    /\ EndInv /\ OrderInv /\ FlowInv /\ WindowsAgree
=============================================================================
