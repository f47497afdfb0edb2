----------------------------- MODULE SshSession ------------------------------
(***************************************************************************)
(* An SSH session of a thread: create_ssh_session connects, exchanges keys *)
(* and authenticates (libssh: client.c, kex.c, dh.c, packet.c, auth.c);    *)
(* then requests are written and answers read, and both sides may ask for  *)
(* new keys at any time.  Packets that must not be sent during a key       *)
(* exchange wait in out_queue.                                             *)
(*                                                                         *)
(* A packet is its type and the number of the keys it is encrypted with;   *)
(* one encrypted with other keys than the receiver's fails its MAC.  The   *)
(* server is modelled from what the client relies on.                      *)
(***************************************************************************)
EXTENDS Naturals, Sequences, FiniteSets

CONSTANTS
    RequestParts,     \* packets of a request
    Window,           \* packets of data the server allows at a time
    MaxCalls,         \* bound: requests
    MaxRekeys,        \* bound: key exchanges that the client asks for
    MaxServerRekeys,  \* bound: key exchanges that the server asks for
    DisconnectsIn     \* phases in which the server may send DISCONNECT

ASSUME SessionAssumption ==
    /\ {RequestParts, Window} \subseteq Nat \ {0}
    /\ {MaxCalls, MaxRekeys, MaxServerRekeys} \subseteq Nat
    /\ DisconnectsIn \subseteq {"kex", "auth", "work"}

VARIABLES
    (* Network *)
    c2s, s2c, burst,
    (* ssh_session *)
    session_state,
    dh_handshake_state,
    client_kex,       \* next_crypto->client_kex is filled in
    authenticated,    \* SSH_SESSION_FLAG_AUTHENTICATED
    service_state, auth_state,
    out_queue,        \* packets that wait for the end of the exchange
    out_key, in_key,  \* keys in use
    rekeys,
    cause,            \* why session_state is ERROR
    (* The thread *)
    pc, calls,
    len,              \* packets of the request still to be written
    credit,           \* packets that the window allows
    buffered,         \* answers received and not read
    handles,          \* session and key that have not been freed
    (* Server *)
    s_in, s_out,      \* keys in use
    s_kexinit,        \* it has sent KEXINIT, the exchange is not over
    s_newkeys,        \* ... and NEWKEYS
    c_kexinit,        \* it has received KEXINIT and not NEWKEYS
    s_todo,           \* packets to send when it may
    s_parts,          \* packets of the current request received
    s_phase,          \* "kex", "auth", "work", "down"
    s_rekeys,
    s_refused         \* the client has broken the protocol

states  == <<session_state, dh_handshake_state, client_kex, authenticated>>
auths   == <<service_state, auth_state>>
keys    == <<out_queue, out_key, in_key, rekeys>>
thread  == <<pc, calls, len, credit, buffered, handles>>
s_kex   == <<s_in, s_out, s_kexinit, s_newkeys, c_kexinit, s_rekeys>>
server  == <<s_kex, s_todo, s_parts, s_phase, s_refused>>
session == <<states, auths, keys, cause>>
vars    == <<c2s, s2c, burst, session, thread, server>>

Init ==
    /\ c2s = <<>> /\ s2c = <<>> /\ burst = 0
    /\ session_state = "NONE" /\ dh_handshake_state = "INIT"
    /\ client_kex = FALSE /\ authenticated = FALSE
    /\ service_state = "NONE" /\ auth_state = "NONE"
    /\ out_queue = <<>> /\ out_key = 0 /\ in_key = 0 /\ rekeys = 0
    /\ cause = "none"
    /\ pc = "start" /\ calls = 0 /\ len = 0 /\ credit = Window
    /\ buffered = 0 /\ handles = {}
    /\ s_in = 0 /\ s_out = 0
    /\ s_kexinit = FALSE /\ s_newkeys = FALSE /\ c_kexinit = FALSE
    /\ s_todo = <<>> /\ s_parts = 0 /\ s_phase = "kex"
    /\ s_rekeys = 0 /\ s_refused = FALSE

Packets(types, key) ==
    [i \in DOMAIN types |-> [type |-> types[i], key |-> key]]

\* packet_send2: what is written to a closed socket is lost.
packet_send2(types) ==
    c2s' = IF session_state = "ERROR" THEN c2s
           ELSE c2s \o Packets(types, out_key)

Error(why) == session_state' = "ERROR" /\ cause' = why

-----------------------------------------------------------------------------
(* Sending *)

\* Mutant: the window is not counted down.
write_credit_unchanged == credit

write_credit == credit - 1

KexTypes == {"DISCONNECT", "KEXINIT", "NEWKEYS", "KEXDH_INIT", "KEXDH_REPLY"}

\* ssh_packet_is_kex.
ssh_packet_is_kex(type) == type \in KexTypes

ssh_packet_in_rekey == authenticated /\ dh_handshake_state # "FINISHED"

\* The limits on time, packets and blocks may be reached at any packet.
ssh_packet_need_rekey ==
    /\ authenticated
    /\ dh_handshake_state = "FINISHED"
    /\ rekeys < MaxRekeys

\* KEXINIT is sent; session_state stays AUTHENTICATED until the server's.
ssh_send_rekex ==
    /\ client_kex' = TRUE
    /\ dh_handshake_state' = "INIT_SENT"
    /\ rekeys' = rekeys + 1
    /\ packet_send2(<<"KEXINIT">>)

(***************************************************************************)
(* A packet that starts a key exchange, or comes in the middle of one, is  *)
(* queued.                                                                 *)
(***************************************************************************)
ssh_packet_send(type) ==
    \/ /\ ssh_packet_need_rekey
       /\ out_queue' = Append(out_queue, type)
       /\ ssh_send_rekex
    \/ /\ ssh_packet_in_rekey
       /\ ~ssh_packet_is_kex(type)
       /\ out_queue' = Append(out_queue, type)
       /\ UNCHANGED <<c2s, client_kex, dh_handshake_state, rekeys>>
    \/ /\ ~ssh_packet_in_rekey \/ ssh_packet_is_kex(type)
       /\ packet_send2(<<type>>)
       /\ UNCHANGED <<out_queue, client_kex, dh_handshake_state, rekeys>>

\* Mutant: only the first packet of the queue is sent after NEWKEYS.
send_newkeys_and_one ==
    /\ LET n == IF out_queue = <<>> THEN 0 ELSE 1
       IN  /\ c2s' = c2s \o Packets(<<"NEWKEYS">>, out_key)
                         \o Packets(SubSeq(out_queue, 1, n), out_key + 1)
           /\ out_queue' = SubSeq(out_queue, n + 1, Len(out_queue))
    /\ out_key' = out_key + 1

\* ssh_packet_send of NEWKEYS: the queue follows at once, with the new keys.
send_newkeys ==
    /\ c2s' = c2s \o Packets(<<"NEWKEYS">>, out_key)
                  \o Packets(out_queue, out_key + 1)
    /\ out_queue' = <<>>
    /\ out_key' = out_key + 1

-----------------------------------------------------------------------------
(* ssh_packet_incoming_filter: which packets the client accepts when.      *)

filter_transport(type) ==
    CASE type \in {"DISCONNECT", "IGNORE"} -> TRUE
      [] type = "SERVICE_ACCEPT" ->
             /\ session_state \in {"AUTHENTICATING", "AUTHENTICATED"}
             /\ dh_handshake_state = "FINISHED"
             /\ service_state = "SENT"
      [] type = "EXT_INFO" ->
             /\ session_state \in {"AUTHENTICATING", "AUTHENTICATED"}
             /\ dh_handshake_state = "FINISHED"
      [] OTHER -> FALSE

\* Mutant: KEXINIT is refused while the client's own is under way.
filter_kex_no_crossing(type) ==
    CASE type = "KEXINIT" ->
             /\ session_state \in {"AUTHENTICATED", "INITIAL_KEX"}
             /\ dh_handshake_state \in {"INIT", "FINISHED"}
      [] type = "NEWKEYS" ->
             session_state = "DH" /\ dh_handshake_state = "NEWKEYS_SENT"
      [] type = "KEXDH_REPLY" ->
             session_state = "DH" /\ dh_handshake_state = "INIT_SENT"
      [] OTHER -> FALSE

filter_kex(type) ==
    CASE type = "KEXINIT" ->
             /\ session_state \in {"AUTHENTICATED", "INITIAL_KEX"}
             /\ dh_handshake_state \in {"INIT", "INIT_SENT", "FINISHED"}
      [] type = "NEWKEYS" ->
             session_state = "DH" /\ dh_handshake_state = "NEWKEYS_SENT"
      [] type = "KEXDH_REPLY" ->
             session_state = "DH" /\ dh_handshake_state = "INIT_SENT"
      [] OTHER -> FALSE

filter_auth(type) ==
    CASE type = "USERAUTH_FAILURE" ->
             /\ dh_handshake_state = "FINISHED"
             /\ session_state = "AUTHENTICATING"
      [] type = "USERAUTH_SUCCESS" ->
             /\ dh_handshake_state = "FINISHED"
             /\ session_state = "AUTHENTICATING"
             /\ auth_state = "PUBKEY_AUTH_SENT"
      [] type = "USERAUTH_BANNER" -> session_state = "AUTHENTICATING"
      [] OTHER -> FALSE

filter_connection(type) ==
    /\ type \in {"GLOBAL_REQUEST", "WINDOW_ADJUST", "CHANNEL_DATA"}
    /\ session_state = "AUTHENTICATED"

ssh_packet_incoming_filter(type) ==
    \/ filter_transport(type)
    \/ filter_kex(type)
    \/ filter_auth(type)
    \/ filter_connection(type)

-----------------------------------------------------------------------------
(* Packet handlers *)

\* The socket is closed with it.
ssh_packet_disconnect_callback(p) ==
    /\ p.type = "DISCONNECT"
    /\ Error("disconnect")
    /\ UNCHANGED <<c2s, dh_handshake_state, client_kex, authenticated, auths,
                   keys, credit, buffered>>

\* IGNORE, EXT_INFO, USERAUTH_BANNER, GLOBAL_REQUEST: nothing that matters.
ssh_packet_ignore_callback(p) ==
    /\ p.type \in {"IGNORE", "EXT_INFO", "USERAUTH_BANNER", "GLOBAL_REQUEST"}
    /\ UNCHANGED <<c2s, session, credit, buffered>>

\* Mutant: the exchange is not gone on with.
ssh_packet_kexinit_only(p) ==
    /\ p.type = "KEXINIT"
    /\ packet_send2(IF client_kex THEN <<>> ELSE <<"KEXINIT">>)
    /\ client_kex' = TRUE
    /\ session_state' = "DH"
    /\ dh_handshake_state' = "INIT_SENT"
    /\ UNCHANGED <<authenticated, auths, keys, cause, credit, buffered>>

(***************************************************************************)
(* The client's own KEXINIT unless it was sent, then the first message of  *)
(* the exchange.                                                           *)
(***************************************************************************)
ssh_client_connection_callback ==
    /\ packet_send2(IF client_kex THEN <<"KEXDH_INIT">>
                    ELSE <<"KEXINIT", "KEXDH_INIT">>)
    /\ client_kex' = TRUE
    /\ session_state' = "DH"
    /\ dh_handshake_state' = "INIT_SENT"

\* The server's KEXINIT, whoever was first.
ssh_packet_kexinit(p) ==
    /\ p.type = "KEXINIT"
    /\ ssh_client_connection_callback
    /\ UNCHANGED <<authenticated, auths, keys, cause, credit, buffered>>

ssh_packet_client_dh_reply(p) ==
    /\ p.type = "KEXDH_REPLY"
    /\ send_newkeys
    /\ dh_handshake_state' = "NEWKEYS_SENT"
    /\ UNCHANGED <<session_state, client_kex, authenticated, auths, in_key,
                   rekeys, cause, credit, buffered>>

\* The signature is good, or the session is in error.
ssh_packet_newkeys(p) ==
    /\ p.type = "NEWKEYS"
    /\ in_key' = in_key + 1
    /\ dh_handshake_state' = "FINISHED"
    /\ client_kex' = FALSE
    /\ session_state' = IF authenticated THEN "AUTHENTICATED"
                        ELSE "AUTHENTICATING"
    /\ UNCHANGED <<c2s, authenticated, auths, out_queue, out_key, rekeys,
                   cause, credit, buffered>>

ssh_packet_service_accept(p) ==
    /\ p.type = "SERVICE_ACCEPT"
    /\ service_state' = "ACCEPTED"
    /\ UNCHANGED <<c2s, states, auth_state, keys, cause, credit, buffered>>

ssh_packet_userauth_success(p) ==
    /\ p.type = "USERAUTH_SUCCESS"
    /\ auth_state' = "SUCCESS"
    /\ session_state' = "AUTHENTICATED"
    /\ authenticated' = TRUE
    /\ UNCHANGED <<c2s, dh_handshake_state, client_kex, service_state, keys,
                   cause, credit, buffered>>

\* A partial success is no success for create_ssh_session.
ssh_packet_userauth_failure(p) ==
    /\ p.type = "USERAUTH_FAILURE"
    /\ \E s \in {"FAILED", "PARTIAL"} : auth_state' = s
    /\ UNCHANGED <<c2s, states, service_state, keys, cause, credit, buffered>>

channel_rcv_change_window(p) ==
    /\ p.type = "WINDOW_ADJUST"
    /\ credit' = credit + 1
    /\ UNCHANGED <<c2s, session, buffered>>

\* The window may have to be grown.
channel_rcv_data(p) ==
    /\ p.type = "CHANNEL_DATA"
    /\ buffered' = buffered + 1
    /\ \/ ssh_packet_send("WINDOW_ADJUST")
       \/ UNCHANGED <<c2s, out_queue, client_kex, dh_handshake_state, rekeys>>
    /\ UNCHANGED <<session_state, authenticated, auths, out_key, in_key,
                   cause, credit>>

Handle(p) ==
    \/ ssh_packet_disconnect_callback(p)
    \/ ssh_packet_ignore_callback(p)
    \/ ssh_packet_kexinit(p)
    \/ ssh_packet_client_dh_reply(p)
    \/ ssh_packet_newkeys(p)
    \/ ssh_packet_service_accept(p)
    \/ ssh_packet_userauth_success(p)
    \/ ssh_packet_userauth_failure(p)
    \/ channel_rcv_change_window(p)
    \/ channel_rcv_data(p)

-----------------------------------------------------------------------------
(* Waiting *)

ssh_connect_termination == session_state \in {"ERROR", "AUTHENTICATING"}

\* Mutant: an error of the session does not end the wait.
service_request_never_fails == service_state # "SENT"

ssh_service_request_termination ==
    session_state = "ERROR" \/ service_state # "SENT"

\* It does not look at session_state.
ssh_auth_response_termination == auth_state # "PUBKEY_AUTH_SENT"

ssh_waitsession_unblocked == session_state \notin {"DH", "INITIAL_KEX"}

ssh_channel_waitwindow_termination == credit > 0 \/ session_state = "ERROR"

ssh_channel_read_termination == buffered > 0 \/ session_state = "ERROR"

Waiting ==
    \/ pc = "connect" /\ ~ssh_connect_termination
    \/ pc = "service" /\ ~ssh_service_request_termination
    \/ pc = "auth" /\ ~ssh_auth_response_termination
    \/ pc = "unblock" /\ ~ssh_waitsession_unblocked
    \/ pc = "write" /\ len > 0 /\ ~ssh_channel_waitwindow_termination
    \/ pc = "read" /\ ~ssh_channel_read_termination

\* ssh_channel_flush may handle packets while it waits for the socket to
\* take what was written.
Flushing == pc = "write" /\ len = 0 /\ c2s # <<>>

(***************************************************************************)
(* ssh_packet_socket_callback: one packet of the ones that one read of the *)
(* socket brought.                                                         *)
(***************************************************************************)
ssh_packet_socket_callback ==
    /\ session_state # "ERROR"
    /\ s2c # <<>>
    /\ burst > 0 \/ Waiting \/ Flushing
    /\ LET p == Head(s2c)
           verified == p.key = in_key
       IN  IF verified /\ ssh_packet_incoming_filter(p.type)
           THEN Handle(p)
           ELSE /\ Error(IF verified THEN "denied" ELSE "keys")
                /\ UNCHANGED <<c2s, dh_handshake_state, client_kex,
                               authenticated, auths, keys, credit, buffered>>
    /\ s2c' = Tail(s2c)
    /\ IF burst > 0
       THEN burst' = burst - 1
       ELSE burst' \in 0..Len(s2c) - 1
    /\ UNCHANGED <<pc, calls, len, handles, server>>

\* After the last packet of a read the limits are tested once more.
incoming_rekey ==
    /\ burst = 0
    /\ Waiting \/ Flushing
    /\ session_state # "ERROR"
    /\ ssh_packet_need_rekey
    /\ ssh_send_rekex
    /\ UNCHANGED <<s2c, burst, session_state, authenticated, auths, out_queue,
                   out_key, in_key, cause, thread, server>>

\* ssh_handle_packets fails when the connection is found broken.
ConnectionLost ==
    /\ session_state \notin {"NONE", "ERROR"}
    /\ pc # "end"
    /\ Error("lost")
    /\ c2s' = <<>> /\ s2c' = <<>> /\ burst' = 0
    /\ UNCHANGED <<dh_handshake_state, client_kex, authenticated, auths, keys,
                   thread, server>>

Runs(at) == pc = at /\ burst = 0

Keep == UNCHANGED <<s2c, burst, server>>

-----------------------------------------------------------------------------
(* create_ssh_session *)

\* ssh_new and ssh_connect: banners, and the first KEXINIT.
ssh_connect ==
    /\ Runs("start")
    /\ handles' = {"session"}
    /\ session_state' = "INITIAL_KEX"
    /\ client_kex' = TRUE
    /\ packet_send2(<<"KEXINIT">>)
    /\ pc' = "connect"
    /\ Keep
    /\ UNCHANGED <<dh_handshake_state, authenticated, auths, keys, cause,
                   calls, len, credit, buffered>>

\* The ten seconds of ssh_connect are over.
connect_timeout ==
    /\ Runs("connect")
    /\ ~ssh_connect_termination
    /\ Error("timeout")
    /\ Keep
    /\ UNCHANGED <<c2s, dh_handshake_state, client_kex, authenticated, auths,
                   keys, thread>>

\* ssh_free: the socket is closed, nothing is sent.
connect_fails ==
    /\ Runs("connect")
    /\ session_state = "ERROR"
    /\ handles' = handles \ {"session"}
    /\ pc' = "end"
    /\ Keep
    /\ UNCHANGED <<c2s, session, calls, len, credit, buffered>>

\* ssh_pki_import_privkey_base64 fails.
import_fails ==
    /\ Runs("connect")
    /\ session_state = "AUTHENTICATING"
    /\ handles' = handles \ {"session"}
    /\ pc' = "end"
    /\ Keep
    /\ UNCHANGED <<c2s, session, calls, len, credit, buffered>>

\* The key is imported; ssh_userauth_publickey requests the service.
ssh_userauth_request_service ==
    /\ Runs("connect")
    /\ session_state = "AUTHENTICATING"
    /\ handles' = handles \union {"key"}
    /\ service_state' = "SENT"
    /\ packet_send2(<<"SERVICE_REQUEST">>)
    /\ pc' = "service"
    /\ Keep
    /\ UNCHANGED <<states, auth_state, keys, cause, calls, len, credit,
                   buffered>>

ssh_userauth_publickey ==
    /\ Runs("service")
    /\ service_state = "ACCEPTED"
    /\ auth_state' = "PUBKEY_AUTH_SENT"
    /\ packet_send2(<<"USERAUTH_REQUEST">>)
    /\ pc' = "auth"
    /\ Keep
    /\ UNCHANGED <<states, service_state, keys, cause, calls, len, credit,
                   buffered, handles>>

\* Mutant: the key is not freed.
session_only == {"session"}

key_and_session == {"session", "key"}

(***************************************************************************)
(* ssh_key_free, ssh_disconnect, ssh_free.  The wait for the answer ends   *)
(* with auth.state, or when a read finds the connection broken and         *)
(* ssh_handle_packets fails.                                               *)
(***************************************************************************)
auth_fails ==
    /\ \/ /\ Runs("service")
          /\ ssh_service_request_termination
          /\ service_state = "SENT"
       \/ /\ Runs("auth")
          /\ ssh_auth_response_termination \/ cause = "lost"
          /\ auth_state # "SUCCESS"
    /\ handles' = handles \ key_and_session
    /\ packet_send2(<<"DISCONNECT">>)
    /\ pc' = "end"
    /\ Keep
    /\ UNCHANGED <<session, calls, len, credit, buffered>>

auth_succeeds ==
    /\ Runs("auth")
    /\ auth_state = "SUCCESS"
    /\ handles' = handles \ {"key"}
    /\ pc' = "work"
    /\ Keep
    /\ UNCHANGED <<c2s, session, calls, len, credit, buffered>>

-----------------------------------------------------------------------------
(* Requests *)

channel_write_begins ==
    /\ Runs("work")
    /\ calls < MaxCalls
    /\ session_state # "ERROR"
    /\ calls' = calls + 1
    /\ len' = RequestParts
    /\ pc' = "unblock"
    /\ Keep
    /\ UNCHANGED <<c2s, session, credit, buffered, handles>>

\* Once, before the first packet, a key exchange is waited for.
channel_write_unblocked ==
    /\ Runs("unblock")
    /\ ssh_waitsession_unblocked
    /\ pc' = "write"
    /\ Keep
    /\ UNCHANGED <<c2s, session, calls, len, credit, buffered, handles>>

channel_write ==
    /\ Runs("write")
    /\ len > 0 /\ credit > 0
    /\ session_state # "ERROR"
    /\ ssh_packet_send("CHANNEL_DATA")
    /\ len' = len - 1
    /\ credit' = write_credit
    /\ Keep
    /\ UNCHANGED <<session_state, authenticated, auths, out_key, in_key,
                   cause, pc, calls, buffered, handles>>

channel_write_returns ==
    /\ Runs("write")
    /\ len = 0 \/ session_state = "ERROR"
    /\ len' = 0
    /\ pc' = "read"
    /\ Keep
    /\ UNCHANGED <<c2s, session, calls, credit, buffered, handles>>

\* ssh_channel_read, which may grow the window.
channel_read ==
    /\ Runs("read")
    /\ buffered > 0
    /\ session_state # "ERROR"
    /\ buffered' = buffered - 1
    /\ \/ ssh_packet_send("WINDOW_ADJUST")
       \/ UNCHANGED <<c2s, out_queue, client_kex, dh_handshake_state, rekeys>>
    /\ pc' = "work"
    /\ Keep
    /\ UNCHANGED <<session_state, authenticated, auths, out_key, in_key,
                   cause, calls, len, credit, handles>>

channel_read_fails ==
    /\ Runs("read")
    /\ session_state = "ERROR"
    /\ pc' = "work"
    /\ Keep
    /\ UNCHANGED <<c2s, session, calls, len, credit, buffered, handles>>

\* sftp_free, ssh_disconnect, ssh_free.
ssh_disconnect ==
    /\ Runs("work")
    /\ packet_send2(<<"DISCONNECT">>)
    /\ handles' = handles \ {"session"}
    /\ pc' = "end"
    /\ Keep
    /\ UNCHANGED <<session, calls, len, credit, buffered>>

-----------------------------------------------------------------------------
(* Server *)

Client == <<burst, session, thread>>

SSend(types) == s2c' = s2c \o Packets(types, s_out)

\* It has received the client's KEXINIT, and answers with its own.
ServerKexinit ==
    /\ c_kexinit' = TRUE
    /\ s_kexinit' = TRUE
    /\ IF s_kexinit THEN UNCHANGED s2c ELSE SSend(<<"KEXINIT">>)
    /\ UNCHANGED <<s_in, s_out, s_newkeys, s_rekeys, s_todo, s_parts, s_phase,
                   s_refused>>

\* EXT_INFO follows the first NEWKEYS.
ServerDh ==
    /\ SSend(<<"KEXDH_REPLY", "NEWKEYS">>)
    /\ s_newkeys' = TRUE
    /\ s_out' = s_out + 1
    /\ s_todo' = IF s_out = 0 THEN <<"EXT_INFO">> ELSE s_todo
    /\ UNCHANGED <<s_in, s_kexinit, c_kexinit, s_rekeys, s_parts, s_phase,
                   s_refused>>

ServerNewkeys ==
    /\ s_in' = s_in + 1
    /\ s_kexinit' = FALSE /\ s_newkeys' = FALSE /\ c_kexinit' = FALSE
    /\ UNCHANGED <<s2c, s_out, s_rekeys, s_todo, s_parts, s_phase, s_refused>>

ServerAuth ==
    /\ \/ \E answer \in {<<"USERAUTH_BANNER", "USERAUTH_SUCCESS">>,
                         <<"USERAUTH_SUCCESS", "GLOBAL_REQUEST">>} :
              s_todo' = s_todo \o answer
       \/ s_todo' = Append(s_todo, "USERAUTH_FAILURE")
    /\ UNCHANGED <<s2c, s_kex, s_parts, s_phase, s_refused>>

ServerService ==
    /\ s_todo' = Append(s_todo, "SERVICE_ACCEPT")
    /\ s_phase' = "auth"
    /\ UNCHANGED <<s2c, s_kex, s_parts, s_refused>>

\* It grants what it took, and answers a request that is complete.
ServerData ==
    /\ s_parts' = (s_parts + 1) % RequestParts
    /\ s_todo' = s_todo \o (IF s_parts + 1 = RequestParts
                            THEN <<"WINDOW_ADJUST", "CHANNEL_DATA">>
                            ELSE <<"WINDOW_ADJUST">>)
    /\ UNCHANGED <<s2c, s_kex, s_phase, s_refused>>

\* A packet with the wrong keys, or one that may not come in an exchange.
ServerRefuses ==
    /\ s_refused' = TRUE
    /\ UNCHANGED <<s2c, s_kex, s_todo, s_parts, s_phase>>

ServerReceives ==
    /\ s_phase # "down" /\ session_state # "ERROR"
    /\ c2s # <<>>
    /\ c2s' = Tail(c2s)
    /\ LET p == Head(c2s)
           good == p.key = s_in /\ (c_kexinit => p.type \in KexTypes)
       IN  IF ~good
           THEN ServerRefuses
           ELSE \/ p.type = "KEXINIT" /\ ServerKexinit
                \/ p.type = "KEXDH_INIT" /\ ServerDh
                \/ p.type = "NEWKEYS" /\ ServerNewkeys
                \/ p.type = "SERVICE_REQUEST" /\ ServerService
                \/ p.type = "USERAUTH_REQUEST" /\ ServerAuth
                \/ p.type = "CHANNEL_DATA" /\ ServerData
                \/ /\ p.type \in {"WINDOW_ADJUST", "DISCONNECT"}
                   /\ UNCHANGED <<s2c, server>>
    /\ UNCHANGED Client

\* Between its KEXINIT and its NEWKEYS it sends nothing else.
ServerSends ==
    /\ s_phase # "down" /\ session_state # "ERROR"
    /\ s_todo # <<>>
    /\ s_kexinit => s_newkeys
    /\ SSend(<<Head(s_todo)>>)
    /\ s_todo' = Tail(s_todo)
    /\ s_phase' = IF Head(s_todo) = "USERAUTH_SUCCESS" THEN "work" ELSE s_phase
    /\ UNCHANGED <<c2s, Client, s_kex, s_parts, s_refused>>

\* It asks for new keys; not before it has authenticated the client.
ServerRekeys ==
    /\ s_phase = "work" /\ session_state # "ERROR"
    /\ ~s_kexinit
    /\ s_rekeys < MaxServerRekeys
    /\ s_rekeys' = s_rekeys + 1
    /\ s_kexinit' = TRUE
    /\ SSend(<<"KEXINIT">>)
    /\ UNCHANGED <<c2s, Client, s_in, s_out, s_newkeys, c_kexinit, s_todo,
                   s_parts, s_phase, s_refused>>

ServerDisconnects ==
    /\ s_phase \in DisconnectsIn /\ session_state # "ERROR"
    /\ SSend(<<"DISCONNECT">>)
    /\ s_phase' = "down"
    /\ UNCHANGED <<c2s, Client, s_kex, s_todo, s_parts, s_refused>>

-----------------------------------------------------------------------------
Call ==
    \/ ssh_connect \/ connect_fails \/ import_fails
    \/ ssh_userauth_request_service \/ ssh_userauth_publickey
    \/ auth_fails \/ auth_succeeds
    \/ channel_write_begins \/ channel_write_unblocked \/ channel_write
    \/ channel_write_returns \/ channel_read \/ channel_read_fails
    \/ ssh_disconnect

\* The thread has ended, or polls a socket that is closed.
Stopped == {pc, session_state} \intersect {"end", "ERROR"} # {}
               /\ UNCHANGED vars

Next ==
    \/ Call
    \/ ssh_packet_socket_callback
    \/ incoming_rekey
    \/ connect_timeout
    \/ ConnectionLost
    \/ ServerReceives \/ ServerSends \/ ServerRekeys \/ ServerDisconnects
    \/ Stopped

Spec == Init /\ [][Next]_vars
             /\ WF_vars(Call) /\ WF_vars(ssh_packet_socket_callback)
             /\ WF_vars(ServerReceives) /\ WF_vars(ServerSends)

-----------------------------------------------------------------------------
(* Properties *)

TypeOK ==
    /\ session_state \in {"NONE", "INITIAL_KEX", "DH", "AUTHENTICATING",
                          "AUTHENTICATED", "ERROR"}
    /\ dh_handshake_state \in {"INIT", "INIT_SENT", "NEWKEYS_SENT",
                               "FINISHED"}
    /\ client_kex \in BOOLEAN /\ authenticated \in BOOLEAN
    /\ s_refused \in BOOLEAN
    /\ {out_key, in_key, rekeys, len, buffered, s_in, s_out} \subseteq Nat
    /\ credit \in 0..Window
    /\ burst \in 0..Len(s2c)
    /\ handles \subseteq {"session", "key"}

(***************************************************************************)
(* Two honest sides never refuse each other's packets, however their       *)
(* KEXINITs cross: no packet meets the wrong keys, the filter denies       *)
(* nothing, and the client sends nothing but key exchange packets between  *)
(* its KEXINIT and its NEWKEYS.                                            *)
(***************************************************************************)
NeverRefused == ~s_refused /\ cause \notin {"denied", "keys"}

(***************************************************************************)
(* out_queue is only emptied when the client sends NEWKEYS: nothing is put *)
(* into it when the exchange in progress has passed that point, where it   *)
(* would stay until the next exchange.                                     *)
(***************************************************************************)
QueueNotStranded ==
    out_queue # <<>> /\ session_state # "ERROR" =>
        /\ client_kex
        /\ dh_handshake_state = "INIT_SENT"

\* Every way out of create_ssh_session and of the thread frees what it holds.
HandlesReleased == pc = "end" => handles = {}

\* A key exchange ends, in new keys or in an error.
ExchangeEnds ==
    client_kex ~> (dh_handshake_state = "FINISHED"
                   \/ session_state = "ERROR" \/ pc = "end")

\* No call waits forever: connecting, authenticating, writing or reading.
CallsReturn == (pc \notin {"work", "end"}) ~> (pc \in {"work", "end"})
-----------------------------------------------------------------------------
(***************************************************************************)
(* The inductive invariant.  It says what both sides have agreed on, seen  *)
(* from the packets under way; of a session in error it says nothing.      *)
(***************************************************************************)

ClientTypes == {"KEXINIT", "KEXDH_INIT", "NEWKEYS", "SERVICE_REQUEST",
                "USERAUTH_REQUEST", "CHANNEL_DATA", "WINDOW_ADJUST",
                "DISCONNECT"}
DataTypes   == {"GLOBAL_REQUEST", "WINDOW_ADJUST", "CHANNEL_DATA"}
AnswerTypes == {"USERAUTH_BANNER", "USERAUTH_SUCCESS", "USERAUTH_FAILURE"}
AuthTypes   == {"EXT_INFO", "SERVICE_ACCEPT"} \cup AnswerTypes
TodoTypes   == AuthTypes \cup DataTypes
ServerTypes == {"KEXINIT", "KEXDH_REPLY", "NEWKEYS", "DISCONNECT"}
                   \cup TodoTypes
QueuedTypes == {"CHANNEL_DATA", "WINDOW_ADJUST"}

Live == session_state # "ERROR"

\* The types of the queues.
QueueInv ==
    /\ c2s \in Seq([type : ClientTypes, key : Nat])
    /\ s2c \in Seq([type : ServerTypes, key : Nat])
    /\ s_todo \in Seq(TodoTypes)
    /\ out_queue \in Seq(QueuedTypes)

\* What the thread holds, where it is.
HandleInv ==
    CASE pc \in {"start", "end"}    -> handles = {}
      [] pc \in {"service", "auth"} -> handles \subseteq {"session", "key"}
      [] OTHER                      -> handles \subseteq {"session"}

\* The states of the session that belong together.
StateInv ==
    /\ pc \in {"start", "connect", "service", "auth", "work", "unblock",
               "write", "read", "end"}
    /\ s_kexinit \in BOOLEAN /\ s_newkeys \in BOOLEAN /\ c_kexinit \in BOOLEAN
    /\ pc \in {"work", "unblock", "write", "read"} => authenticated
    /\ authenticated <=> auth_state = "SUCCESS"
    /\ pc \in {"start", "connect", "service"} => auth_state = "NONE"
    /\ pc = "end" => burst = 0
    /\ pc = "start" <=> session_state = "NONE"
    /\ session_state = "NONE" =>
           /\ dh_handshake_state = "INIT" /\ ~client_kex /\ c2s = <<>>
           /\ ~s_kexinit /\ burst = 0
    /\ Live =>
         /\ session_state = "INITIAL_KEX" =>
                dh_handshake_state = "INIT" /\ client_kex
         /\ session_state = "DH" =>
                /\ dh_handshake_state \in {"INIT_SENT", "NEWKEYS_SENT"}
                /\ client_kex
         /\ session_state = "AUTHENTICATING" =>
                /\ dh_handshake_state = "FINISHED" /\ ~client_kex
         /\ session_state = "AUTHENTICATED" =>
                /\ dh_handshake_state \in {"FINISHED", "INIT_SENT"}
                /\ client_kex <=> dh_handshake_state = "INIT_SENT"
         /\ session_state # "DH" =>
                (authenticated <=> session_state = "AUTHENTICATED")
         /\ session_state \in {"NONE", "INITIAL_KEX"} => in_key = 0
         /\ session_state = "AUTHENTICATING" \/ authenticated => in_key > 0
         /\ ~authenticated /\ pc \notin {"start", "connect"} =>
                session_state = "AUTHENTICATING"
         /\ out_queue # <<>> => authenticated

\* The client has sent the first message of the exchange ...
DhSent == session_state = "DH" /\ dh_handshake_state = "INIT_SENT"

\* ... which the server has answered, together with its NEWKEYS.
Replied == DhSent /\ s_newkeys

\* The client has sent NEWKEYS and the server has not received it.
NewkeysSent == s_newkeys /\ ~DhSent

\* The client waits for the server's NEWKEYS.
NewkeysDue == dh_handshake_state = "NEWKEYS_SENT"

\* A packet from the server: with which keys, and when there is one.
ServerPacket(i) ==
    /\ s2c[i].key = IF (Replied /\ i > 2) \/ (NewkeysDue /\ i > 1)
                    THEN in_key + 1 ELSE in_key
    /\ DhSent /\ ~s_newkeys => s2c[i].type = "DISCONNECT"
    /\ s2c[i].type = "DISCONNECT" => s_phase = "down"
    /\ s2c[i].type = "KEXDH_REPLY" => Replied /\ i = 1
    /\ s2c[i].type = "NEWKEYS" =>
         (Replied /\ i = 2) \/ (NewkeysDue /\ i = 1)
    /\ s2c[i].type = "KEXINIT" =>
         /\ s_kexinit /\ ~s_newkeys
         /\ \A j \in i + 1 .. Len(s2c) : s2c[j].type = "DISCONNECT"

\* What the server sends in an exchange.
ServerKexInv ==
    Live =>
      /\ s_newkeys => s_kexinit
      /\ DhSent => s_kexinit
      /\ s_out = IF Replied \/ NewkeysDue THEN in_key + 1 ELSE in_key
      /\ Replied => /\ Len(s2c) >= 2 /\ burst = 0
                    /\ s2c[1].type = "KEXDH_REPLY" /\ s2c[2].type = "NEWKEYS"
      /\ NewkeysDue => Len(s2c) >= 1 /\ s2c[1].type = "NEWKEYS"
      /\ \A i \in 1..Len(s2c) : ServerPacket(i)

\* A packet from the client, likewise.
ClientPacket(i) ==
    /\ c2s[i].key = IF NewkeysSent /\ i > 1 THEN s_in + 1 ELSE s_in
    /\ c2s[i].type = "DISCONNECT" => pc = "end"
    /\ c2s[i].type = "NEWKEYS" => NewkeysSent /\ i = 1
    /\ c2s[i].type = "KEXDH_INIT" =>
         /\ DhSent /\ ~s_newkeys
         /\ \A j \in i + 1 .. Len(c2s) : c2s[j].type = "DISCONNECT"
    /\ c2s[i].type = "KEXINIT" =>
         /\ dh_handshake_state \in {"INIT", "INIT_SENT"} /\ client_kex
         /\ c_kexinit => NewkeysSent
         /\ \A j \in i + 1 .. Len(c2s) :
                c2s[j].type \in {"KEXDH_INIT", "DISCONNECT"}
    /\ c_kexinit /\ ~s_newkeys => c2s[i].type \in {"KEXDH_INIT", "DISCONNECT"}
    /\ Replied => c2s[i].type = "DISCONNECT"

\* What the client sends in an exchange.
ClientKexInv ==
    Live =>
      /\ out_key = IF NewkeysSent THEN s_in + 1 ELSE s_in
      /\ NewkeysSent => Len(c2s) >= 1 /\ c2s[1].type = "NEWKEYS"
      /\ c_kexinit /\ ~s_newkeys =>
             dh_handshake_state \in {"INIT", "INIT_SENT"} /\ client_kex
      /\ \A i \in 1..Len(c2s) : ClientPacket(i)

\* Places in the order in which the server authenticates.
Rank(type) ==
    CASE type = "EXT_INFO" -> 1
      [] type = "SERVICE_ACCEPT" -> 2
      [] type = "USERAUTH_BANNER" -> 3
      [] type \in {"USERAUTH_SUCCESS", "USERAUTH_FAILURE"} -> 4
      [] OTHER -> 0

Before(a, b) == a \in AuthTypes /\ b \in AuthTypes => Rank(a) < Rank(b)

\* The server has not yet received a request of the client.
Asked(type) == \E i \in 1..Len(c2s) : c2s[i].type = type

\* It was sent once.
Once(type) == \A i, j \in 1..Len(c2s) :
                  c2s[i].type = type /\ c2s[j].type = type => i = j

\* The client has not yet received a packet of the server.
Coming(type) == \/ \E i \in 1..Len(s2c) : s2c[i].type = type
                \/ \E i \in 1..Len(s_todo) : s_todo[i] = type

\* Who is at which step of the authentication.
AuthInv ==
    Live =>
      /\ pc \in {"start", "connect"} => service_state = "NONE"
      /\ service_state # "ACCEPTED" => auth_state = "NONE"
      /\ s_out = 0 => \A t \in AuthTypes : ~Coming(t)
      /\ authenticated => \A t \in AuthTypes : ~Coming(t)
      /\ Asked("SERVICE_REQUEST") =>
             service_state = "SENT" /\ ~Coming("SERVICE_ACCEPT")
      /\ Coming("SERVICE_ACCEPT") => service_state = "SENT"
      /\ Asked("USERAUTH_REQUEST") =>
             /\ auth_state = "PUBKEY_AUTH_SENT"
             /\ \A t \in AnswerTypes : ~Coming(t)
      /\ \A t \in AnswerTypes :
             Coming(t) => auth_state = "PUBKEY_AUTH_SENT"
      /\ Asked("CHANNEL_DATA") \/ Asked("WINDOW_ADJUST") => authenticated
      /\ Once("SERVICE_REQUEST") /\ Once("USERAUTH_REQUEST")

\* Authentication is answered in order.
OrderInv ==
    Live =>
      /\ \A i, j \in 1..Len(s2c) : i < j => Before(s2c[i].type, s2c[j].type)
      /\ \A i, j \in 1..Len(s_todo) : i < j => Before(s_todo[i], s_todo[j])
      /\ \A i \in 1..Len(s2c), j \in 1..Len(s_todo) :
             Before(s2c[i].type, s_todo[j])

\* The client learns that it is authenticated before position i.
SuccessBefore(i) ==
    \E j \in 1..Len(s2c) : j < i /\ s2c[j].type = "USERAUTH_SUCCESS"

\* Data and further exchanges come after USERAUTH_SUCCESS.
SuccessInv ==
    Live /\ ~authenticated =>
      /\ s_phase = "work" => SuccessBefore(Len(s2c) + 1)
      /\ \A i \in 1..Len(s2c) :
           /\ s2c[i].type \in DataTypes => SuccessBefore(i)
           /\ s2c[i].type = "KEXINIT" =>
                  session_state = "INITIAL_KEX" \/ SuccessBefore(i)
      /\ \A i \in 1..Len(s_todo) : s_todo[i] \in DataTypes =>
             \/ SuccessBefore(Len(s2c) + 1)
             \/ \E j \in 1..Len(s_todo) :
                    j < i /\ s_todo[j] = "USERAUTH_SUCCESS"

\* While the client waits for the server's NEWKEYS it sends nothing.
WaitInv ==
    Live /\ authenticated /\ NewkeysDue =>
        \/ pc = "unblock"
        \/ pc = "write" /\ len > 0 /\ credit = 0
        \/ pc = "read" /\ buffered = 0

\* The number of packets of a type among those under way, and among types.
Sent(type, q)   == Cardinality({i \in 1..Len(q) : q[i].type = type})
Queued(type, q) == Cardinality({i \in 1..Len(q) : q[i] = type})

\* No more is granted than was taken.
CreditInv ==
    Live => credit + Sent("CHANNEL_DATA", c2s)
                   + Queued("CHANNEL_DATA", out_queue)
                   + Queued("WINDOW_ADJUST", s_todo)
                   + Sent("WINDOW_ADJUST", s2c) <= Window

SessionInv ==
    /\ TypeOK /\ QueueInv /\ HandleInv /\ StateInv
    /\ ServerKexInv /\ ClientKexInv /\ AuthInv /\ OrderInv /\ SuccessInv
    /\ WaitInv /\ QueueNotStranded /\ NeverRefused /\ CreditInv
=============================================================================
