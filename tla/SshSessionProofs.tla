--------------------------- MODULE SshSessionProofs ---------------------------
(***************************************************************************)
(* Proofs about SshSession, for requests and windows of any size and any   *)
(* number of requests and key exchanges.  SessionInv is preserved by every *)
(* step of the thread, of its packet handlers and of the server.           *)
(***************************************************************************)
EXTENDS SshSession, SequenceTheorems, FiniteSetTheorems, FunctionTheorems,
        TLAPS

USE DEF states, auths, keys, thread, s_kex, server, session, vars

ClientPackets == [type : ClientTypes, key : Nat]
ServerPackets == [type : ServerTypes, key : Nat]

-----------------------------------------------------------------------------
(* Queues *)

\* r is q without its first packet.
Cut(q, r) ==
    /\ Len(q) \in Nat /\ Len(q) >= 1 /\ Len(r) = Len(q) - 1
    /\ \A i \in 1..Len(r) : r[i] = q[i + 1]

\* r is q with one packet more.
Added(q, r, t, k) ==
    /\ Len(q) \in Nat /\ Len(r) = Len(q) + 1
    /\ \A i \in 1..Len(q) : r[i] = q[i]
    /\ r[Len(q) + 1].type = t /\ r[Len(q) + 1].key = k

\* What a receiver takes, and what is left.
LEMMA Received ==
  ASSUME NEW S, NEW q \in Seq(S), q # <<>>
  PROVE  /\ Tail(q) \in Seq(S) /\ Head(q) = q[1] /\ q[1] \in S
         /\ Cut(q, Tail(q))
<1>1. Len(q) \in Nat /\ Len(q) >= 1
  BY LenProperties, EmptySeq
<1>2. Head(q) = q[1] /\ q[1] \in S
  BY <1>1, ElementOfSeq
<1> QED
  BY <1>1, <1>2, HeadTailProperties DEF Cut

\* What waits in out_queue becomes a sequence of packets.
LEMMA Packets_Type ==
  ASSUME NEW ts \in Seq(QueuedTypes), NEW k \in Nat
  PROVE  /\ Packets(ts, k) \in Seq(ClientPackets)
         /\ Len(Packets(ts, k)) = Len(ts)
         /\ \A i \in 1..Len(ts) : /\ Packets(ts, k)[i].type = ts[i]
                                  /\ Packets(ts, k)[i].key = k
<1> DEFINE p == Packets(ts, k)
<1>1. /\ Len(ts) \in Nat /\ DOMAIN ts = 1..Len(ts)
      /\ \A i \in 1..Len(ts) : ts[i] \in QueuedTypes
  BY LenProperties, ElementOfSeq
<1>2. p \in [1..Len(ts) -> ClientPackets]
  <2>1. \A i \in 1..Len(ts) : [type |-> ts[i], key |-> k] \in ClientPackets
    BY <1>1 DEF ClientPackets, QueuedTypes, ClientTypes
  <2> QED
    BY <1>1, <2>1 DEF Packets
<1>3. \A i \in 1..Len(ts) : p[i].type = ts[i] /\ p[i].key = k
  BY <1>1 DEF Packets
<1> HIDE DEF p
<1>4. p \in Seq(ClientPackets)
  BY <1>1, <1>2, SeqDef
<1>5. Len(p) = Len(ts)
  BY <1>1, <1>2, <1>4, LenProperties
<1>6. p \in Seq(ClientPackets) /\ Len(p) = Len(ts)
      /\ \A i \in 1..Len(ts) : p[i].type = ts[i] /\ p[i].key = k
  BY <1>3, <1>4, <1>5
<1> QED
  BY <1>6 DEF p

\* One packet is sent.
LEMMA Concat_One ==
  ASSUME NEW S, NEW q \in Seq(S), NEW e \in S
  PROVE  q \o <<e>> \in Seq(S) /\ Added(q, q \o <<e>>, e.type, e.key)
<1> DEFINE p == <<e>>
           r == q \o p
<1>1. p \in Seq(S) /\ Len(p) = 1 /\ p[1] = e
  OBVIOUS
<1> HIDE DEF p
<1>2. /\ r \in Seq(S) /\ Len(r) = Len(q) + Len(p)
      /\ Len(q) \in Nat
      /\ \A i \in 1..Len(q) + Len(p) : r[i] = IF i <= Len(q) THEN q[i]
                                              ELSE p[i - Len(q)]
  BY <1>1, ConcatProperties, LenProperties
<1> HIDE DEF r
<1>3. r[Len(q) + 1] = p[(Len(q) + 1) - Len(q)]
  BY <1>1, <1>2
<1>4. (Len(q) + 1) - Len(q) = 1
  BY <1>2
<1>5. \A i \in 1..Len(q) : r[i] = q[i]
  BY <1>1, <1>2
<1>6. r \in Seq(S) /\ Added(q, r, e.type, e.key)
  BY <1>1, <1>2, <1>3, <1>4, <1>5 DEF Added
<1> QED
  BY <1>6 DEF p, r

LEMMA Packet_Sent ==
  ASSUME NEW S, NEW q \in Seq(S), NEW t, NEW k, [type |-> t, key |-> k] \in S
  PROVE  /\ q \o Packets(<<t>>, k) \in Seq(S)
         /\ Added(q, q \o Packets(<<t>>, k), t, k)
<1> DEFINE e == [type |-> t, key |-> k]
<1>1. Packets(<<t>>, k) = <<e>>
  BY DEF Packets
<1>2. e \in S /\ e.type = t /\ e.key = k
  OBVIOUS
<1> HIDE DEF e
<1>3. q \o <<e>> \in Seq(S) /\ Added(q, q \o <<e>>, e.type, e.key)
  BY <1>2, Concat_One
<1> QED
  BY <1>1, <1>2, <1>3

\* Two packets are sent one after the other.
LEMMA Concat_Two ==
  ASSUME NEW S, NEW q \in Seq(S), NEW a \in S, NEW b \in S
  PROVE  /\ q \o <<a, b>> \in Seq(S)
         /\ Len(q) \in Nat /\ Len(q \o <<a, b>>) = Len(q) + 2
         /\ \A i \in 1..Len(q) : (q \o <<a, b>>)[i] = q[i]
         /\ (q \o <<a, b>>)[Len(q) + 1] = a
         /\ (q \o <<a, b>>)[Len(q) + 2] = b
<1> DEFINE p == <<a, b>>
           r == q \o p
<1>1. p \in Seq(S) /\ Len(p) = 2 /\ p[1] = a /\ p[2] = b
  OBVIOUS
<1> HIDE DEF p
<1>2. /\ r \in Seq(S) /\ Len(r) = Len(q) + Len(p)
      /\ Len(q) \in Nat
      /\ \A i \in 1..Len(q) + Len(p) : r[i] = IF i <= Len(q) THEN q[i]
                                              ELSE p[i - Len(q)]
  BY <1>1, ConcatProperties, LenProperties
<1> HIDE DEF r
<1>3. /\ r[Len(q) + 1] = p[(Len(q) + 1) - Len(q)]
      /\ r[Len(q) + 2] = p[(Len(q) + 2) - Len(q)]
  BY <1>1, <1>2
<1>4. (Len(q) + 1) - Len(q) = 1 /\ (Len(q) + 2) - Len(q) = 2
  BY <1>2
<1>5. \A i \in 1..Len(q) : r[i] = q[i]
  BY <1>1, <1>2
<1>6. /\ r \in Seq(S) /\ Len(q) \in Nat /\ Len(r) = Len(q) + 2
      /\ \A i \in 1..Len(q) : r[i] = q[i]
      /\ r[Len(q) + 1] = a /\ r[Len(q) + 2] = b
  BY <1>1, <1>2, <1>3, <1>4, <1>5
<1> QED
  BY <1>6 DEF p, r

LEMMA TwoPackets_Sent ==
  ASSUME NEW S, NEW q \in Seq(S), NEW a, NEW b, NEW k,
         [type |-> a, key |-> k] \in S, [type |-> b, key |-> k] \in S
  PROVE  LET r == q \o Packets(<<a, b>>, k)
         IN  /\ r \in Seq(S)
             /\ Len(q) \in Nat /\ Len(r) = Len(q) + 2
             /\ \A i \in 1..Len(q) : r[i] = q[i]
             /\ r[Len(q) + 1].type = a /\ r[Len(q) + 1].key = k
             /\ r[Len(q) + 2].type = b /\ r[Len(q) + 2].key = k
<1> DEFINE e == [type |-> a, key |-> k]
           f == [type |-> b, key |-> k]
<1>1. Packets(<<a, b>>, k) = <<e, f>>
  BY DEF Packets
<1>2. /\ e \in S /\ e.type = a /\ e.key = k
      /\ f \in S /\ f.type = b /\ f.key = k
  OBVIOUS
<1> HIDE DEF e, f
<1> DEFINE r == q \o <<e, f>>
<1>3. /\ r \in Seq(S) /\ Len(q) \in Nat /\ Len(r) = Len(q) + 2
      /\ \A i \in 1..Len(q) : r[i] = q[i]
      /\ r[Len(q) + 1] = e /\ r[Len(q) + 2] = f
  BY <1>2, Concat_Two
<1>4. q \o Packets(<<a, b>>, k) = r
  BY <1>1
<1> HIDE DEF r
<1> QED
  BY <1>2, <1>3, <1>4

-----------------------------------------------------------------------------
(* Neither side refuses what the other sends *)

\* What SessionInv says of the first packet from the server.
LEMMA FirstFromServer ==
  ASSUME SessionInv, Live, s2c # <<>>
  PROVE  /\ s2c[1].type \in ServerTypes /\ Len(s2c) \in Nat /\ Len(s2c) >= 1
         /\ ServerPacket(1) /\ s2c[1].key = in_key
<1>1. Len(s2c) \in Nat /\ Len(s2c) >= 1
  BY LenProperties, EmptySeq DEF SessionInv, QueueInv
<1>2. s2c \in Seq(ServerPackets)
  BY DEF SessionInv, QueueInv, ServerPackets
<1>3. s2c[1].type \in ServerTypes
  <2>1. s2c[1] \in ServerPackets
    BY <1>1, <1>2, ElementOfSeq
  <2> QED
    BY <2>1 DEF ServerPackets
<1>4. ServerPacket(1)
  BY <1>1 DEF SessionInv, ServerKexInv
<1> QED
  BY <1>1, <1>3, <1>4 DEF ServerPacket

\* In an exchange only its next packet may be the first.
LEMMA FirstInExchange ==
  ASSUME SessionInv, Live, s2c # <<>>, session_state = "DH"
  PROVE  \/ s2c[1].type = "DISCONNECT"
         \/ s2c[1].type = "KEXDH_REPLY" /\ Replied
         \/ s2c[1].type = "NEWKEYS" /\ NewkeysDue
<1>1. ServerPacket(1)
  BY FirstFromServer
<1>2. DhSent \/ NewkeysDue
  BY DEF SessionInv, StateInv, DhSent, NewkeysDue
<1>3. CASE DhSent /\ ~s_newkeys
  BY <1>1, <1>3 DEF ServerPacket
<1>4. CASE Replied
  BY <1>4 DEF SessionInv, ServerKexInv
<1>5. CASE NewkeysDue
  BY <1>5 DEF SessionInv, ServerKexInv
<1> QED
  BY <1>2, <1>3, <1>4, <1>5 DEF Replied

\* What the server sends while it authenticates meets a client that waits for it.
LEMMA FirstOfAuth ==
  ASSUME SessionInv, Live, s2c # <<>>, s2c[1].type \in AuthTypes
  PROVE  /\ session_state = "AUTHENTICATING"
         /\ dh_handshake_state = "FINISHED"
         /\ s2c[1].type = "SERVICE_ACCEPT" => service_state = "SENT"
         /\ s2c[1].type \in AnswerTypes => auth_state = "PUBKEY_AUTH_SENT"
<1>1. Len(s2c) \in Nat /\ Len(s2c) >= 1
  BY FirstFromServer
<1>2. Coming(s2c[1].type)
  BY <1>1 DEF Coming
<1>3. ~authenticated
  BY <1>2 DEF SessionInv, AuthInv
<1>4. s_out # 0
  BY <1>2 DEF SessionInv, AuthInv
<1>5. session_state # "DH"
  BY FirstInExchange DEF AuthTypes, AnswerTypes
<1>6. session_state \notin {"NONE", "INITIAL_KEX"}
  BY <1>4 DEF SessionInv, StateInv, ServerKexInv, Replied, DhSent, NewkeysDue
<1>7. session_state = "AUTHENTICATING"
  BY <1>3, <1>5, <1>6 DEF SessionInv, TypeOK, StateInv, Live
<1>8. s2c[1].type = "SERVICE_ACCEPT" => service_state = "SENT"
  BY <1>2 DEF SessionInv, AuthInv
<1>9. s2c[1].type \in AnswerTypes => auth_state = "PUBKEY_AUTH_SENT"
  BY <1>2 DEF SessionInv, AuthInv
<1> QED
  BY <1>7, <1>8, <1>9 DEF SessionInv, StateInv

\* The first packet from the server has the right keys and passes the filter.
LEMMA Verified ==
  ASSUME SessionInv, Live, s2c # <<>>
  PROVE  s2c[1].key = in_key /\ ssh_packet_incoming_filter(s2c[1].type)
<1> DEFINE t == s2c[1].type
<1>1. /\ t \in ServerTypes /\ Len(s2c) \in Nat /\ Len(s2c) >= 1
      /\ ServerPacket(1) /\ s2c[1].key = in_key
  BY FirstFromServer
<1> SUFFICES ssh_packet_incoming_filter(t)
  BY <1>1
<1> HIDE DEF t
<1> USE DEF ssh_packet_incoming_filter
<1>2. CASE t = "DISCONNECT"
  BY <1>2 DEF filter_transport
<1>3. CASE t = "KEXDH_REPLY"
  BY <1>1, <1>3 DEF t, ServerPacket, Replied, DhSent, filter_kex
<1>4. CASE t = "NEWKEYS"
  <2>1. NewkeysDue
    BY <1>1, <1>4 DEF t, ServerPacket
  <2>2. session_state = "DH"
    BY <2>1 DEF SessionInv, TypeOK, StateInv, NewkeysDue, Live
  <2> QED
    BY <1>4, <2>1, <2>2 DEF NewkeysDue, filter_kex
<1>5. CASE t = "KEXINIT"
  <2>1. session_state # "DH"
    BY <1>5, FirstInExchange DEF t
  <2>2. session_state # "NONE"
    BY <1>1, <1>5 DEF t, ServerPacket, SessionInv, StateInv
  <2>3. authenticated \/ session_state = "INITIAL_KEX"
    BY <1>1, <1>5 DEF t, SessionInv, SuccessInv, SuccessBefore
  <2>4. session_state \in {"AUTHENTICATED", "INITIAL_KEX"}
    BY <2>1, <2>2, <2>3 DEF SessionInv, TypeOK, StateInv, Live
  <2> QED
    BY <1>5, <2>4 DEF SessionInv, StateInv, filter_kex
<1>6. CASE t \in DataTypes
  <2>1. authenticated
    BY <1>1, <1>6 DEF t, SessionInv, SuccessInv, SuccessBefore
  <2>2. session_state # "DH"
    BY <1>6, FirstInExchange DEF t, DataTypes
  <2> QED
    BY <1>6, <2>1, <2>2 DEF SessionInv, StateInv, filter_connection, DataTypes
<1>7. CASE t \in AuthTypes
  <2>1. /\ session_state = "AUTHENTICATING"
        /\ dh_handshake_state = "FINISHED"
        /\ t = "SERVICE_ACCEPT" => service_state = "SENT"
        /\ t \in AnswerTypes => auth_state = "PUBKEY_AUTH_SENT"
    BY <1>7, FirstOfAuth DEF t
  <2>2. CASE t \in {"EXT_INFO", "SERVICE_ACCEPT"}
    BY <2>1, <2>2 DEF filter_transport
  <2>3. CASE t \in AnswerTypes
    BY <2>1, <2>3 DEF filter_auth, AnswerTypes
  <2> QED
    BY <1>7, <2>2, <2>3 DEF AuthTypes
<1> QED
  BY <1>1, <1>2, <1>3, <1>4, <1>5, <1>6, <1>7 DEF ServerTypes, TodoTypes

\* The first packet from the client has the right keys and may come now.
LEMMA Accepted ==
  ASSUME SessionInv, Live, c2s # <<>>
  PROVE  /\ c2s[1].type \in ClientTypes /\ Len(c2s) \in Nat /\ Len(c2s) >= 1
         /\ ClientPacket(1)
         /\ c2s[1].key = s_in
         /\ c_kexinit => c2s[1].type \in KexTypes
<1>1. Len(c2s) \in Nat /\ Len(c2s) >= 1
  BY LenProperties, EmptySeq DEF SessionInv, QueueInv
<1>2. c2s \in Seq(ClientPackets)
  BY DEF SessionInv, QueueInv, ClientPackets
<1>3. c2s[1].type \in ClientTypes
  <2>1. c2s[1] \in ClientPackets
    BY <1>1, <1>2, ElementOfSeq
  <2> QED
    BY <2>1 DEF ClientPackets
<1>4. ClientPacket(1)
  BY <1>1 DEF SessionInv, ClientKexInv
<1>5. s_newkeys => Replied \/ NewkeysSent
  BY DEF Replied, NewkeysSent
<1>6. NewkeysSent => c2s[1].type = "NEWKEYS"
  BY DEF SessionInv, ClientKexInv
<1>7. c_kexinit => c2s[1].type \in KexTypes
  BY <1>4, <1>5, <1>6 DEF ClientPacket, KexTypes
<1> QED
  BY <1>1, <1>3, <1>4, <1>7 DEF ClientPacket

-----------------------------------------------------------------------------
(* What steps do to the queues *)

\* A packet is written to the socket.
LEMMA packet_send2_Sent ==
  ASSUME SessionInv, Live, NEW t \in ClientTypes, packet_send2(<<t>>)
  PROVE  c2s' \in Seq(ClientPackets) /\ Added(c2s, c2s', t, out_key)
<1>1. /\ c2s \in Seq(ClientPackets)
      /\ [type |-> t, key |-> out_key] \in ClientPackets
  BY DEF SessionInv, QueueInv, TypeOK, ClientPackets
<1>2. c2s' = c2s \o Packets(<<t>>, out_key)
  BY DEF packet_send2, Live
<1> QED
  BY <1>1, <1>2, Packet_Sent

\* The server sends a packet.
LEMMA SSend_Sent ==
  ASSUME SessionInv, NEW t \in ServerTypes, SSend(<<t>>)
  PROVE  s2c' \in Seq(ServerPackets) /\ Added(s2c, s2c', t, s_out)
<1>1. /\ s2c \in Seq(ServerPackets)
      /\ [type |-> t, key |-> s_out] \in ServerPackets
  BY DEF SessionInv, QueueInv, TypeOK, ServerPackets
<1>2. s2c' = s2c \o Packets(<<t>>, s_out)
  BY DEF SSend
<1> QED
  BY <1>1, <1>2, Packet_Sent

\* The client asks for new keys.
Rekexed ==
    /\ authenticated /\ dh_handshake_state = "FINISHED"
    /\ client_kex' = TRUE /\ dh_handshake_state' = "INIT_SENT"
    /\ Added(c2s, c2s', "KEXINIT", out_key)

\* The client sends a packet that is not part of an exchange.
Says(t) == UNCHANGED <<client_kex, dh_handshake_state>>
               /\ Added(c2s, c2s', t, out_key)

Keeps == UNCHANGED <<c2s, client_kex, dh_handshake_state>>

LEMMA ssh_send_rekex_Effect ==
  ASSUME SessionInv, Live, ssh_packet_need_rekey, ssh_send_rekex
  PROVE  Rekexed /\ c2s' \in Seq(ClientPackets)
BY packet_send2_Sent
DEF ssh_packet_need_rekey, ssh_send_rekex, Rekexed, ClientTypes

\* ssh_packet_send: the packet is sent at once, or it is put into out_queue.
LEMMA ssh_packet_send_Effect ==
  ASSUME SessionInv, Live, authenticated,
         NEW t \in QueuedTypes, ssh_packet_send(t)
  PROVE  /\ c2s' \in Seq(ClientPackets)
         /\ \/ /\ Rekexed /\ out_queue' = Append(out_queue, t)
            \/ /\ Keeps /\ out_queue' = Append(out_queue, t)
               /\ dh_handshake_state # "FINISHED"
            \/ /\ Says(t) /\ out_queue' = out_queue
               /\ dh_handshake_state = "FINISHED"
<1>1. t \in ClientTypes /\ ~ssh_packet_is_kex(t)
  BY DEF QueuedTypes, ClientTypes, ssh_packet_is_kex, KexTypes
<1>2. CASE ssh_packet_need_rekey /\ ssh_send_rekex
           /\ out_queue' = Append(out_queue, t)
  BY <1>2, ssh_send_rekex_Effect
<1>3. CASE /\ ssh_packet_in_rekey
           /\ out_queue' = Append(out_queue, t)
           /\ UNCHANGED <<c2s, client_kex, dh_handshake_state, rekeys>>
  <2>1. c2s' \in Seq(ClientPackets)
    BY <1>3 DEF SessionInv, QueueInv, ClientPackets
  <2> QED
    BY <1>3, <2>1 DEF Keeps, ssh_packet_in_rekey
<1>4. CASE /\ ~ssh_packet_in_rekey
           /\ packet_send2(<<t>>)
           /\ UNCHANGED <<out_queue, client_kex, dh_handshake_state, rekeys>>
  BY <1>1, <1>4, packet_send2_Sent DEF Says, ssh_packet_in_rekey
<1> QED
  BY <1>1, <1>2, <1>3, <1>4 DEF ssh_packet_send

\* What an enabled callback handles.
LEMMA Callback ==
  ASSUME SessionInv, ssh_packet_socket_callback
  PROVE  /\ Live /\ pc \notin {"start", "end"}
         /\ s2c # <<>> /\ s2c[1].type \in ServerTypes
         /\ Cut(s2c, s2c') /\ s2c' \in Seq(ServerPackets)
         /\ Handle(s2c[1]) /\ ssh_packet_incoming_filter(s2c[1].type)
         /\ burst > 0 \/ Waiting \/ Flushing
         /\ burst' \in 0..Len(s2c')
         /\ burst = 0 \/ burst' = burst - 1
         /\ UNCHANGED <<pc, calls, len, handles, server>>
<1>1. Live /\ s2c # <<>>
  BY DEF ssh_packet_socket_callback, Live
<1>2. s2c \in Seq(ServerPackets) /\ burst \in 0..Len(s2c)
  BY DEF SessionInv, QueueInv, ServerPackets, TypeOK
<1>3. /\ s2c' = Tail(s2c) /\ s2c' \in Seq(ServerPackets) /\ Head(s2c) = s2c[1]
      /\ Cut(s2c, s2c')
  BY <1>1, <1>2, Received DEF ssh_packet_socket_callback
<1>4. /\ s2c[1].key = in_key /\ ssh_packet_incoming_filter(s2c[1].type)
      /\ s2c[1].type \in ServerTypes
  BY <1>1, Verified, FirstFromServer
<1>5. Handle(s2c[1])
  BY <1>3, <1>4 DEF ssh_packet_socket_callback
<1>6. /\ burst > 0 \/ Waiting \/ Flushing
      /\ UNCHANGED <<pc, calls, len, handles, server>>
      /\ IF burst > 0 THEN burst' = burst - 1 ELSE burst' \in 0..Len(s2c) - 1
  BY DEF ssh_packet_socket_callback
<1>7. burst' \in 0..Len(s2c') /\ (burst = 0 \/ burst' = burst - 1)
  BY <1>2, <1>3, <1>6 DEF Cut
<1>8. pc \notin {"start", "end"}
  <2>1. pc \in {"start", "end"} => burst = 0
    BY DEF SessionInv, StateInv
  <2> QED
    BY <1>6, <2>1 DEF Waiting, Flushing
<1> QED
  BY <1>1, <1>3, <1>4, <1>5, <1>6, <1>7, <1>8

\* What the server receives.
LEMMA ServerReceives_Effect ==
  ASSUME SessionInv, ServerReceives
  PROVE  /\ Live /\ s_phase # "down" /\ c2s # <<>>
         /\ Cut(c2s, c2s') /\ c2s' \in Seq(ClientPackets)
         /\ UNCHANGED Client
         /\ \/ c2s[1].type = "KEXINIT" /\ ServerKexinit
            \/ c2s[1].type = "KEXDH_INIT" /\ ServerDh
            \/ c2s[1].type = "NEWKEYS" /\ ServerNewkeys
            \/ c2s[1].type = "SERVICE_REQUEST" /\ ServerService
            \/ c2s[1].type = "USERAUTH_REQUEST" /\ ServerAuth
            \/ c2s[1].type = "CHANNEL_DATA" /\ ServerData
            \/ /\ c2s[1].type \in {"WINDOW_ADJUST", "DISCONNECT"}
               /\ UNCHANGED <<s2c, server>>
<1>1. Live /\ s_phase # "down" /\ c2s # <<>> /\ c2s' = Tail(c2s)
      /\ UNCHANGED Client
  BY DEF ServerReceives, Live
<1>2. c2s \in Seq(ClientPackets)
  BY DEF SessionInv, QueueInv, ClientPackets
<1>3. /\ c2s' \in Seq(ClientPackets) /\ Head(c2s) = c2s[1]
      /\ Cut(c2s, c2s')
  BY <1>1, <1>2, Received
<1>4. c2s[1].key = s_in /\ (c_kexinit => c2s[1].type \in KexTypes)
  BY <1>1, Accepted
<1>5. \/ c2s[1].type = "KEXINIT" /\ ServerKexinit
      \/ c2s[1].type = "KEXDH_INIT" /\ ServerDh
      \/ c2s[1].type = "NEWKEYS" /\ ServerNewkeys
      \/ c2s[1].type = "SERVICE_REQUEST" /\ ServerService
      \/ c2s[1].type = "USERAUTH_REQUEST" /\ ServerAuth
      \/ c2s[1].type = "CHANNEL_DATA" /\ ServerData
      \/ /\ c2s[1].type \in {"WINDOW_ADJUST", "DISCONNECT"}
         /\ UNCHANGED <<s2c, server>>
  BY <1>3, <1>4 DEF ServerReceives
<1> QED
  BY <1>1, <1>3, <1>5

-----------------------------------------------------------------------------
(* Steps that have no part in a key exchange, but may ask for one *)

RequestTypes == {"SERVICE_REQUEST", "USERAUTH_REQUEST"} \cup QueuedTypes

\* What such a step does to what the two sides have agreed on.
NoExchange ==
    /\ Live
    /\ UNCHANGED <<in_key, out_key, s_in, s_out, s_kexinit, s_newkeys,
                   c_kexinit, s_phase>>
    /\ \/ session_state' = session_state
       \/ session_state = "AUTHENTICATING" /\ session_state' = "AUTHENTICATED"
    /\ pc = "end" => pc' = "end"
    /\ \/ UNCHANGED <<s2c, burst>>
       \/ Cut(s2c, s2c') /\ s2c[1].type \in TodoTypes
    /\ \/ Keeps
       \/ Rekexed /\ session_state = "AUTHENTICATED"
       \/ /\ \E t \in RequestTypes : Says(t)
          /\ dh_handshake_state = "FINISHED" /\ ~client_kex
       \/ Says("DISCONNECT") /\ pc' = "end"

\* An error is for good.
LEMMA ErrorStays ==
  ASSUME SessionInv, [Next]_vars, Live'
  PROVE  Live
<1> SUFFICES ASSUME session_state = "ERROR" PROVE session_state' = "ERROR"
  BY DEF Live
<1>1. pc # "start"
  BY DEF SessionInv, StateInv
<1>2. CASE Call
  BY <1>1, <1>2
  DEF Call, Runs, ssh_connect, connect_fails, import_fails,
      ssh_userauth_request_service, ssh_userauth_publickey, auth_fails,
      auth_succeeds, channel_write_begins, channel_write_unblocked,
      channel_write, channel_write_returns, channel_read, channel_read_fails,
      ssh_disconnect
<1>3. CASE ssh_packet_socket_callback \/ incoming_rekey \/ connect_timeout
           \/ ConnectionLost
  BY <1>3
  DEF ssh_packet_socket_callback, incoming_rekey, connect_timeout,
      ConnectionLost, Error
<1>4. CASE ServerReceives \/ ServerSends \/ ServerRekeys \/ ServerDisconnects
           \/ Stopped \/ UNCHANGED vars
  BY <1>4
  DEF ServerReceives, ServerSends, ServerRekeys, ServerDisconnects, Stopped,
      Client
<1> QED
  BY <1>2, <1>3, <1>4 DEF Next

\* While the thread authenticates there is no exchange.
LEMMA Authenticating ==
  ASSUME SessionInv, Live, ~authenticated, pc \notin {"start", "connect"}
  PROVE  dh_handshake_state = "FINISHED" /\ ~client_kex
BY DEF SessionInv, StateInv

\* What a request that is written or an answer that is read does.
LEMMA ssh_packet_send_NoExchange ==
  ASSUME SessionInv, Live, authenticated,
         \/ \E t \in QueuedTypes : ssh_packet_send(t)
         \/ Keeps
  PROVE  \/ Keeps
         \/ Rekexed /\ session_state = "AUTHENTICATED"
         \/ /\ \E t \in RequestTypes : Says(t)
            /\ dh_handshake_state = "FINISHED" /\ ~client_kex
<1>1. dh_handshake_state = "FINISHED" =>
          session_state = "AUTHENTICATED" /\ ~client_kex
  BY DEF SessionInv, TypeOK, StateInv, Live
<1>2. CASE \E t \in QueuedTypes : ssh_packet_send(t)
  <2>1. PICK t \in QueuedTypes : ssh_packet_send(t)
    BY <1>2
  <2>2. \/ Rekexed \/ Keeps
        \/ Says(t) /\ dh_handshake_state = "FINISHED"
    BY <2>1, ssh_packet_send_Effect
  <2>3. CASE Rekexed
    BY <1>1, <2>3 DEF Rekexed
  <2>4. CASE Says(t) /\ dh_handshake_state = "FINISHED"
    BY <1>1, <2>4 DEF RequestTypes
  <2> QED
    BY <2>2, <2>3, <2>4
<1> QED
  BY <1>2

\* The calls of the thread.
LEMMA Call_NoExchange ==
  ASSUME SessionInv, Live', Live, Call, ~ssh_connect
  PROVE  NoExchange
<1>1. CASE \/ connect_fails \/ import_fails \/ auth_succeeds
           \/ channel_write_begins \/ channel_write_unblocked
           \/ channel_write_returns \/ channel_read_fails
  <2>1. /\ UNCHANGED <<c2s, s2c, burst, session, server>>
        /\ pc # "end"
    BY <1>1
    DEF Runs, Keep, connect_fails, import_fails, auth_succeeds,
        channel_write_begins, channel_write_unblocked, channel_write_returns,
        channel_read_fails
  <2> QED
    BY <2>1 DEF NoExchange, Keeps
<1>2. CASE ssh_userauth_request_service
  <2>1. session_state = "AUTHENTICATING"
    BY <1>2 DEF ssh_userauth_request_service
  <2>2. dh_handshake_state = "FINISHED" /\ ~client_kex
    BY <2>1 DEF SessionInv, StateInv
  <2>3. Added(c2s, c2s', "SERVICE_REQUEST", out_key)
    BY <1>2, packet_send2_Sent DEF ssh_userauth_request_service, ClientTypes
  <2>4. /\ UNCHANGED <<s2c, burst, states, keys, server>> /\ pc # "end"
    BY <1>2 DEF ssh_userauth_request_service, Runs, Keep
  <2>5. Says("SERVICE_REQUEST")
    BY <2>3, <2>4 DEF Says
  <2> QED
    BY <2>2, <2>4, <2>5 DEF NoExchange, RequestTypes
<1>3. CASE ssh_userauth_publickey
  <2>1. ~authenticated /\ pc = "service"
    BY <1>3 DEF ssh_userauth_publickey, Runs, SessionInv, StateInv
  <2>2. dh_handshake_state = "FINISHED" /\ ~client_kex
    BY <2>1, Authenticating
  <2>3. Added(c2s, c2s', "USERAUTH_REQUEST", out_key)
    BY <1>3, packet_send2_Sent DEF ssh_userauth_publickey, ClientTypes
  <2>4. /\ UNCHANGED <<s2c, burst, states, keys, server>> /\ pc # "end"
    BY <1>3 DEF ssh_userauth_publickey, Runs, Keep
  <2>5. Says("USERAUTH_REQUEST")
    BY <2>3, <2>4 DEF Says
  <2> QED
    BY <2>2, <2>4, <2>5 DEF NoExchange, RequestTypes
<1>4. CASE auth_fails \/ ssh_disconnect
  <2>1. Added(c2s, c2s', "DISCONNECT", out_key)
    BY <1>4, packet_send2_Sent DEF auth_fails, ssh_disconnect, ClientTypes
  <2>2. UNCHANGED <<s2c, burst, session, server>> /\ pc' = "end"
    BY <1>4 DEF auth_fails, ssh_disconnect, Keep
  <2>3. Says("DISCONNECT")
    BY <2>1, <2>2 DEF Says
  <2> QED
    BY <2>2, <2>3 DEF NoExchange
<1>5. CASE channel_write \/ channel_read
  <2>1. /\ pc \in {"write", "read"}
        /\ UNCHANGED <<s2c, burst, server, session_state, out_key, in_key>>
    BY <1>5 DEF channel_write, channel_read, Runs, Keep
  <2>2. authenticated
    BY <2>1 DEF SessionInv, StateInv
  <2>3. \/ \E t \in QueuedTypes : ssh_packet_send(t)
        \/ Keeps
    BY <1>5 DEF channel_write, channel_read, QueuedTypes, Keeps
  <2> QED
    BY <2>1, <2>2, <2>3, ssh_packet_send_NoExchange DEF NoExchange
<1> QED
  BY <1>1, <1>2, <1>3, <1>4, <1>5 DEF Call

\* The handlers of what the server sends outside an exchange.
LEMMA Callback_NoExchange ==
  ASSUME SessionInv, ssh_packet_socket_callback, s2c[1].type \in TodoTypes
  PROVE  NoExchange
<1> DEFINE p == s2c[1]
<1>1. /\ Live /\ pc \notin {"start", "end"}
      /\ Cut(s2c, s2c')
      /\ Handle(p) /\ ssh_packet_incoming_filter(p.type)
      /\ UNCHANGED <<pc, calls, len, handles, server>>
  BY Callback
<1>2. CASE channel_rcv_data(p)
  <2>1. UNCHANGED <<session_state, in_key, out_key>>
    BY <1>2 DEF channel_rcv_data
  <2>2. \/ \E t \in QueuedTypes : ssh_packet_send(t)
        \/ Keeps
    BY <1>2 DEF channel_rcv_data, QueuedTypes, Keeps
  <2>3. session_state = "AUTHENTICATED"
    BY <1>1, <1>2
    DEF channel_rcv_data, ssh_packet_incoming_filter, filter_transport,
        filter_kex, filter_auth, filter_connection
  <2>4. authenticated
    BY <1>1, <2>3 DEF SessionInv, StateInv
  <2> QED
    BY <1>1, <2>1, <2>2, <2>4, ssh_packet_send_NoExchange DEF NoExchange
<1>3. CASE ssh_packet_userauth_success(p)
  <2>1. session_state = "AUTHENTICATING"
    BY <1>1, <1>3
    DEF ssh_packet_userauth_success, ssh_packet_incoming_filter,
        filter_transport, filter_kex, filter_auth, filter_connection
  <2> QED
    BY <1>1, <1>3, <2>1 DEF ssh_packet_userauth_success, NoExchange, Keeps
<1>4. CASE \/ ssh_packet_ignore_callback(p)
           \/ ssh_packet_service_accept(p)
           \/ ssh_packet_userauth_failure(p)
           \/ channel_rcv_change_window(p)
  BY <1>1, <1>4
  DEF ssh_packet_ignore_callback, ssh_packet_service_accept,
      ssh_packet_userauth_failure, channel_rcv_change_window, NoExchange, Keeps
<1>5. p.type \notin {"DISCONNECT", "KEXINIT", "KEXDH_REPLY", "NEWKEYS"}
  BY DEF TodoTypes, AuthTypes, AnswerTypes, DataTypes
<1> QED
  BY <1>1, <1>2, <1>3, <1>4, <1>5
  DEF Handle, ssh_packet_disconnect_callback, ssh_packet_kexinit,
      ssh_packet_client_dh_reply, ssh_packet_newkeys

LEMMA incoming_rekey_NoExchange ==
  ASSUME SessionInv, incoming_rekey
  PROVE  NoExchange
<1>1. Live /\ Rekexed
  BY ssh_send_rekex_Effect DEF incoming_rekey, Live
<1>2. session_state = "AUTHENTICATED"
  BY <1>1 DEF Rekexed, SessionInv, TypeOK, StateInv, Live
<1> QED
  BY <1>1, <1>2 DEF incoming_rekey, NoExchange

-----------------------------------------------------------------------------
(* The exchange, step by step *)

\* What is left of the queue from the server after a packet that is no part of
\* an exchange.
LEMMA ServerKex_Cut ==
  ASSUME SessionInv, Live, Cut(s2c, s2c'), s2c[1].type \in TodoTypes,
         UNCHANGED <<in_key, s_out, s_kexinit, s_newkeys, s_phase>>,
         DhSent' = DhSent, NewkeysDue' = NewkeysDue
  PROVE  ServerKexInv'
<1>1. /\ Len(s2c) \in Nat /\ Len(s2c) >= 1 /\ Len(s2c') = Len(s2c) - 1
      /\ \A i \in 1..Len(s2c') : s2c'[i] = s2c[i + 1]
  BY DEF Cut
<1>2. s2c[1].type \notin {"DISCONNECT", "KEXINIT", "KEXDH_REPLY", "NEWKEYS"}
  BY DEF TodoTypes, AuthTypes, AnswerTypes, DataTypes
<1>3. \A i \in 1..Len(s2c) : ServerPacket(i)
  BY DEF SessionInv, ServerKexInv
<1>4. ~Replied /\ ~NewkeysDue
  BY <1>2 DEF SessionInv, ServerKexInv
<1>5. ~DhSent
  BY <1>1, <1>2, <1>3, <1>4 DEF ServerPacket, Replied
<1>6. ~Replied' /\ ~NewkeysDue' /\ ~DhSent'
  BY <1>4, <1>5 DEF Replied
<1>7. \A i \in 1..Len(s2c') : ServerPacket(i)'
  <2> SUFFICES ASSUME NEW i \in 1..Len(s2c') PROVE ServerPacket(i)'
    OBVIOUS
  <2>1. i + 1 \in 1..Len(s2c) /\ s2c'[i] = s2c[i + 1] /\ ServerPacket(i + 1)
    BY <1>1, <1>3
  <2>2. s2c[i + 1].type = "KEXINIT" =>
          \A j \in i + 1 .. Len(s2c') : s2c'[j].type = "DISCONNECT"
    BY <1>1, <2>1 DEF ServerPacket
  <2> QED
    BY <1>4, <1>5, <1>6, <2>1, <2>2 DEF ServerPacket
<1> QED
  BY <1>4, <1>5, <1>6, <1>7 DEF SessionInv, ServerKexInv

LEMMA ServerKex_Same ==
  ASSUME SessionInv, Live,
         UNCHANGED <<s2c, burst, in_key, s_out, s_kexinit, s_newkeys, s_phase>>,
         DhSent' = DhSent, NewkeysDue' = NewkeysDue
  PROVE  ServerKexInv'
<1>1. Replied' = Replied
  BY DEF Replied
<1>2. \A i \in 1..Len(s2c) : ServerPacket(i)'
  BY <1>1 DEF SessionInv, ServerKexInv, ServerPacket
<1> QED
  BY <1>1, <1>2 DEF SessionInv, ServerKexInv

\* The client sends nothing, or something outside an exchange.
LEMMA ClientKex_Same ==
  ASSUME SessionInv, Live, Keeps, pc = "end" => pc' = "end",
         UNCHANGED <<out_key, s_in, s_newkeys, c_kexinit>>,
         DhSent' = DhSent
  PROVE  ClientKexInv'
<1>1. Replied' = Replied /\ NewkeysSent' = NewkeysSent
  BY DEF Replied, NewkeysSent
<1>2. \A i \in 1..Len(c2s) : ClientPacket(i)'
  BY <1>1 DEF SessionInv, ClientKexInv, ClientPacket, Keeps
<1> QED
  BY <1>1, <1>2 DEF SessionInv, ClientKexInv, Keeps

LEMMA ClientKex_Says ==
  ASSUME SessionInv, Live, NEW t \in RequestTypes \cup {"DISCONNECT"}, Says(t),
         t = "DISCONNECT" => pc' = "end",
         t # "DISCONNECT" => dh_handshake_state = "FINISHED" /\ ~client_kex,
         pc = "end" => pc' = "end",
         UNCHANGED <<out_key, s_in, s_newkeys, c_kexinit>>,
         DhSent' = DhSent
  PROVE  ClientKexInv'
<1>1. Replied' = Replied /\ NewkeysSent' = NewkeysSent
  BY DEF Replied, NewkeysSent
<1>2. /\ Len(c2s) \in Nat /\ Len(c2s') = Len(c2s) + 1
      /\ \A i \in 1..Len(c2s) : c2s'[i] = c2s[i]
      /\ c2s'[Len(c2s')].type = t /\ c2s'[Len(c2s')].key = out_key
      /\ UNCHANGED <<client_kex, dh_handshake_state>>
  BY DEF Says, Added
<1>3. \A i \in 1..Len(c2s) : ClientPacket(i)
  BY DEF SessionInv, ClientKexInv
<1>4. t \notin {"KEXINIT", "KEXDH_INIT", "NEWKEYS"}
  BY DEF RequestTypes, QueuedTypes
<1>5. t # "DISCONNECT" => ~DhSent
  BY DEF DhSent
<1>6. \A i \in 1..Len(c2s) : ClientPacket(i)'
  <2> SUFFICES ASSUME NEW i \in 1..Len(c2s) PROVE ClientPacket(i)'
    OBVIOUS
  <2>1. c2s'[i] = c2s[i] /\ ClientPacket(i)
    BY <1>2, <1>3
  <2>2. c2s[i].type = "KEXDH_INIT" =>
          \A j \in i + 1 .. Len(c2s') : c2s'[j].type = "DISCONNECT"
    BY <1>2, <1>5, <2>1 DEF ClientPacket
  <2>3. c2s[i].type = "KEXINIT" =>
          \A j \in i + 1 .. Len(c2s') :
              c2s'[j].type \in {"KEXDH_INIT", "DISCONNECT"}
    BY <1>2, <2>1 DEF ClientPacket
  <2> QED
    BY <1>1, <1>2, <2>1, <2>2, <2>3 DEF ClientPacket
<1> PICK n \in Nat : n = Len(c2s')
  BY <1>2
<1>7. ClientPacket(n)'
  <2>1. NewkeysSent => n > 1
    BY <1>2 DEF SessionInv, ClientKexInv
  <2>2. c2s'[n].key = IF NewkeysSent' /\ n > 1 THEN s_in' + 1 ELSE s_in'
    BY <1>1, <1>2, <2>1 DEF SessionInv, ClientKexInv
  <2>3. c_kexinit /\ ~s_newkeys => t = "DISCONNECT"
    BY DEF SessionInv, ClientKexInv
  <2>4. Replied => t = "DISCONNECT"
    BY <1>5 DEF Replied
  <2> QED
    BY <1>1, <1>2, <1>4, <2>2, <2>3, <2>4 DEF ClientPacket
<1>8. NewkeysSent => Len(c2s') >= 1 /\ c2s'[1].type = "NEWKEYS"
  BY <1>2 DEF SessionInv, ClientKexInv
<1>9. \A i \in 1..Len(c2s') : ClientPacket(i)'
  BY <1>2, <1>6, <1>7
<1> QED
  BY <1>1, <1>2, <1>8, <1>9 DEF SessionInv, ClientKexInv

LEMMA ClientKex_Rekexed ==
  ASSUME SessionInv, Live, Rekexed, session_state = "AUTHENTICATED",
         UNCHANGED <<session_state, out_key, s_in, s_newkeys, c_kexinit>>,
         pc = "end" => pc' = "end"
  PROVE  ClientKexInv'
<1>1. ~DhSent /\ ~DhSent' /\ ~Replied /\ ~Replied' /\ NewkeysSent' = NewkeysSent
  BY DEF Replied, NewkeysSent, DhSent
<1>2. /\ Len(c2s) \in Nat /\ Len(c2s') = Len(c2s) + 1
      /\ \A i \in 1..Len(c2s) : c2s'[i] = c2s[i]
      /\ c2s'[Len(c2s')].type = "KEXINIT" /\ c2s'[Len(c2s')].key = out_key
      /\ client_kex' /\ dh_handshake_state' = "INIT_SENT"
      /\ dh_handshake_state = "FINISHED"
  BY DEF Rekexed, Added
<1>3. \A i \in 1..Len(c2s) : ClientPacket(i)
  BY DEF SessionInv, ClientKexInv
<1>4. c_kexinit => s_newkeys
  BY <1>2 DEF SessionInv, ClientKexInv
<1>5. \A i \in 1..Len(c2s) : ClientPacket(i)'
  <2> SUFFICES ASSUME NEW i \in 1..Len(c2s) PROVE ClientPacket(i)'
    OBVIOUS
  <2>1. c2s'[i] = c2s[i] /\ ClientPacket(i)
    BY <1>2, <1>3
  <2>2. c2s[i].type \notin {"KEXDH_INIT", "KEXINIT"}
    BY <1>1, <1>2, <2>1 DEF ClientPacket
  <2> QED
    BY <1>1, <1>2, <1>4, <2>1, <2>2 DEF ClientPacket
<1> PICK n \in Nat : n = Len(c2s')
  BY <1>2
<1>6. ClientPacket(n)'
  <2>1. NewkeysSent => n > 1
    BY <1>2 DEF SessionInv, ClientKexInv
  <2>2. c2s'[n].key = IF NewkeysSent' /\ n > 1 THEN s_in' + 1 ELSE s_in'
    BY <1>1, <1>2, <2>1 DEF SessionInv, ClientKexInv
  <2>3. c_kexinit => NewkeysSent
    BY <1>1, <1>4 DEF NewkeysSent
  <2>4. \A j \in n + 1 .. Len(c2s') : FALSE
    BY <1>2
  <2> QED
    BY <1>1, <1>2, <1>4, <2>2, <2>3, <2>4 DEF ClientPacket
<1>7. NewkeysSent => Len(c2s') >= 1 /\ c2s'[1].type = "NEWKEYS"
  BY <1>2 DEF SessionInv, ClientKexInv
<1>8. \A i \in 1..Len(c2s') : ClientPacket(i)'
  BY <1>2, <1>5, <1>6
<1> QED
  BY <1>1, <1>2, <1>4, <1>7, <1>8 DEF SessionInv, ClientKexInv

LEMMA NoExchange_Kex ==
  ASSUME SessionInv, NoExchange
  PROVE  ServerKexInv' /\ ClientKexInv'
<1>1. DhSent' = DhSent /\ NewkeysDue' = NewkeysDue
  BY DEF NoExchange, Keeps, Rekexed, Says, DhSent, NewkeysDue
<1>a. /\ Live /\ (pc = "end" => pc' = "end")
      /\ UNCHANGED <<in_key, out_key, s_in, s_out, s_kexinit, s_newkeys,
                     c_kexinit, s_phase>>
  BY DEF NoExchange
<1>2. ServerKexInv'
  BY <1>1, ServerKex_Same, ServerKex_Cut DEF NoExchange
<1>3. CASE Keeps
  BY <1>1, <1>3, <1>2, <1>a, ClientKex_Same
<1>4. CASE Rekexed /\ session_state = "AUTHENTICATED"
  <2>1. UNCHANGED session_state
    BY <1>4 DEF NoExchange
  <2> QED
    BY <1>4, <1>2, <1>a, <2>1, ClientKex_Rekexed
<1>5. CASE /\ \E t \in RequestTypes : Says(t)
           /\ dh_handshake_state = "FINISHED" /\ ~client_kex
  <2>1. PICK t \in RequestTypes : Says(t)
    BY <1>5
  <2>2. t # "DISCONNECT"
    BY DEF RequestTypes, QueuedTypes
  <2> QED
    BY <1>1, <1>5, <1>2, <1>a, <2>1, <2>2, ClientKex_Says
<1>6. CASE Says("DISCONNECT") /\ pc' = "end"
  BY <1>1, <1>6, <1>2, <1>a, ClientKex_Says
<1> QED
  BY <1>2, <1>3, <1>4, <1>5, <1>6 DEF NoExchange

\* The first KEXINIT of the client.
LEMMA ssh_connect_Kex ==
  ASSUME SessionInv, ssh_connect
  PROVE  ServerKexInv' /\ ClientKexInv'
<1>1. /\ session_state = "NONE" /\ dh_handshake_state = "INIT" /\ ~client_kex
      /\ c2s = <<>> /\ ~s_kexinit
  BY DEF ssh_connect, Runs, SessionInv, StateInv
<1>2. Live /\ Added(c2s, c2s', "KEXINIT", out_key)
  BY <1>1, packet_send2_Sent DEF ssh_connect, Live, ClientTypes
<1>3. Len(c2s') = 1 /\ c2s'[1].type = "KEXINIT" /\ c2s'[1].key = out_key
  <2>1. Len(c2s) = 0
    BY <1>1
  <2> QED
    BY <1>2, <2>1 DEF Added
<1>4. /\ session_state' = "INITIAL_KEX" /\ client_kex'
      /\ UNCHANGED <<dh_handshake_state, s2c, burst, server, in_key, out_key>>
  BY DEF ssh_connect, Keep
<1>5. ~s_newkeys /\ ~c_kexinit /\ out_key = s_in
  BY <1>1, <1>2 DEF SessionInv, ServerKexInv, ClientKexInv, NewkeysSent
<1>6. /\ ~DhSent /\ ~DhSent' /\ ~NewkeysDue /\ ~NewkeysDue'
      /\ ~Replied' /\ ~NewkeysSent'
  BY <1>1, <1>4, <1>5 DEF DhSent, NewkeysDue, Replied, NewkeysSent
<1>7. ServerKexInv'
  <2>1. DhSent' = DhSent /\ NewkeysDue' = NewkeysDue
    BY <1>1, <1>4 DEF DhSent, NewkeysDue
  <2> QED
    BY <1>2, <1>4, <2>1, ServerKex_Same
<1>8. \A i \in 1..Len(c2s') : ClientPacket(i)'
  BY <1>1, <1>3, <1>4, <1>5, <1>6 DEF ClientPacket
<1>9. ClientKexInv'
  BY <1>4, <1>5, <1>6, <1>8 DEF ClientKexInv
<1> QED
  BY <1>7, <1>9

\* The server's KEXINIT is the last packet it has sent.
LEMMA ssh_packet_kexinit_Kex ==
  ASSUME SessionInv, ssh_packet_socket_callback, ssh_packet_kexinit(s2c[1])
  PROVE  ServerKexInv' /\ ClientKexInv'
<1>1. /\ Live /\ pc # "end" /\ s2c # <<>> /\ Cut(s2c, s2c')
      /\ ssh_packet_incoming_filter(s2c[1].type)
      /\ UNCHANGED <<pc, server>>
  BY Callback
<1>2. s2c[1].type = "KEXINIT" /\ ServerPacket(1)
  BY <1>1, FirstFromServer DEF ssh_packet_kexinit
<1>3. /\ session_state' = "DH" /\ dh_handshake_state' = "INIT_SENT"
      /\ client_kex' /\ UNCHANGED <<in_key, out_key>>
      /\ packet_send2(IF client_kex THEN <<"KEXDH_INIT">>
                      ELSE <<"KEXINIT", "KEXDH_INIT">>)
  BY DEF ssh_packet_kexinit, ssh_client_connection_callback
<1>4. /\ s_kexinit /\ ~s_newkeys
      /\ \A j \in 2..Len(s2c) : s2c[j].type = "DISCONNECT"
  BY <1>2 DEF ServerPacket
<1>5. /\ session_state # "DH"
      /\ dh_handshake_state \in {"INIT", "INIT_SENT", "FINISHED"}
  BY <1>1, <1>2
  DEF ssh_packet_incoming_filter, filter_transport, filter_kex, filter_auth,
      filter_connection
<1>6. /\ ~DhSent /\ ~Replied /\ ~NewkeysDue /\ ~NewkeysSent
      /\ DhSent' /\ ~Replied' /\ ~NewkeysDue' /\ ~NewkeysSent'
  BY <1>1, <1>3, <1>4, <1>5 DEF DhSent, Replied, NewkeysDue, NewkeysSent
<1>7. ServerKexInv'
  <2>1. /\ Len(s2c) \in Nat /\ Len(s2c) >= 1 /\ Len(s2c') = Len(s2c) - 1
        /\ \A i \in 1..Len(s2c') : s2c'[i] = s2c[i + 1]
    BY <1>1 DEF Cut
  <2>2. \A i \in 1..Len(s2c') : ServerPacket(i)'
    <3> SUFFICES ASSUME NEW i \in 1..Len(s2c') PROVE ServerPacket(i)'
      OBVIOUS
    <3>1. i + 1 \in 2..Len(s2c) /\ s2c'[i] = s2c[i + 1]
      BY <2>1
    <3>2. ServerPacket(i + 1) /\ s2c[i + 1].type = "DISCONNECT"
      BY <1>1, <1>4, <2>1, <3>1 DEF SessionInv, ServerKexInv
    <3> QED
      BY <1>1, <1>3, <1>6, <3>1, <3>2 DEF ServerPacket
  <2>3. s_out' = in_key'
    BY <1>1, <1>3, <1>6 DEF SessionInv, ServerKexInv
  <2> QED
    BY <1>1, <1>4, <1>6, <2>2, <2>3 DEF ServerKexInv
<1>8. \A i \in 1..Len(c2s) : ClientPacket(i)
  BY <1>1 DEF SessionInv, ClientKexInv
<1>9. out_key = s_in
  BY <1>1, <1>6 DEF SessionInv, ClientKexInv
<1>10. \A i \in 1..Len(c2s) :
          /\ c2s[i].key = s_in
          /\ c2s[i].type \notin {"DISCONNECT", "NEWKEYS", "KEXDH_INIT"}
          /\ c2s[i].type = "KEXINIT" =>
               /\ client_kex /\ ~c_kexinit
               /\ \A j \in i + 1 .. Len(c2s) : c2s[j].type = "KEXDH_INIT"
          /\ ~c_kexinit
  <2> SUFFICES ASSUME NEW i \in 1..Len(c2s)
               PROVE  /\ c2s[i].key = s_in
                      /\ c2s[i].type \notin {"DISCONNECT", "NEWKEYS",
                                             "KEXDH_INIT"}
                      /\ c2s[i].type = "KEXINIT" =>
                           /\ client_kex /\ ~c_kexinit
                           /\ \A j \in i + 1 .. Len(c2s) :
                                  c2s[j].type = "KEXDH_INIT"
                      /\ ~c_kexinit
    OBVIOUS
  <2>1. ClientPacket(i)
    BY <1>8
  <2>2. /\ c2s[i].key = s_in
        /\ c2s[i].type \notin {"DISCONNECT", "NEWKEYS", "KEXDH_INIT"}
        /\ ~c_kexinit
    BY <1>1, <1>4, <1>6, <2>1 DEF ClientPacket
  <2>3. ASSUME c2s[i].type = "KEXINIT"
        PROVE  /\ client_kex
               /\ \A j \in i + 1 .. Len(c2s) : c2s[j].type = "KEXDH_INIT"
    <3>1. /\ client_kex
          /\ \A j \in i + 1 .. Len(c2s) :
                 c2s[j].type \in {"KEXDH_INIT", "DISCONNECT"}
      BY <2>1, <2>3 DEF ClientPacket
    <3>2. \A j \in 1..Len(c2s) : c2s[j].type # "DISCONNECT"
      BY <1>1, <1>8 DEF ClientPacket
    <3>3. Len(c2s) \in Nat
      BY LenProperties DEF SessionInv, QueueInv
    <3> QED
      BY <3>1, <3>2, <3>3
  <2> QED
    BY <2>2, <2>3
<1>11. c_kexinit => client_kex
  BY <1>1, <1>4 DEF SessionInv, ClientKexInv
<1>12. CASE client_kex
  <2>1. Added(c2s, c2s', "KEXDH_INIT", out_key)
    BY <1>1, <1>3, <1>12, packet_send2_Sent DEF ClientTypes
  <2>2. /\ Len(c2s) \in Nat /\ Len(c2s') = Len(c2s) + 1
        /\ \A i \in 1..Len(c2s) : c2s'[i] = c2s[i]
        /\ c2s'[Len(c2s')].type = "KEXDH_INIT"
        /\ c2s'[Len(c2s')].key = out_key
    BY <2>1 DEF Added
  <2>3. \A i \in 1..Len(c2s') : ClientPacket(i)'
    <3> SUFFICES ASSUME NEW i \in 1..Len(c2s') PROVE ClientPacket(i)'
      OBVIOUS
    <3>1. CASE i \in 1..Len(c2s)
      <4>1. c2s[i].type = "KEXINIT" =>
              \A j \in i + 1 .. Len(c2s') :
                  c2s'[j].type \in {"KEXDH_INIT", "DISCONNECT"}
        BY <1>10, <2>2, <3>1
      <4> QED
        BY <1>1, <1>3, <1>6, <1>10, <2>2, <3>1, <4>1 DEF ClientPacket
    <3>2. CASE i = Len(c2s')
      <4>1. \A j \in i + 1 .. Len(c2s') : FALSE
        BY <2>2, <3>2
      <4> QED
        BY <1>1, <1>3, <1>4, <1>6, <1>9, <2>2, <3>2, <4>1 DEF ClientPacket
    <3> QED
      BY <2>2, <3>1, <3>2
  <2>4. ClientKexInv'
    BY <1>1, <1>3, <1>6, <1>9, <2>3 DEF ClientKexInv
  <2> QED
    BY <1>7, <2>4
<1>13. CASE ~client_kex
  <2>1. c2s' = c2s \o Packets(<<"KEXINIT", "KEXDH_INIT">>, out_key)
    BY <1>1, <1>3, <1>13 DEF packet_send2, Live
  <2>2. /\ c2s \in Seq(ClientPackets)
        /\ [type |-> "KEXINIT", key |-> out_key] \in ClientPackets
        /\ [type |-> "KEXDH_INIT", key |-> out_key] \in ClientPackets
    BY DEF SessionInv, QueueInv, TypeOK, ClientPackets, ClientTypes
  <2>3. /\ Len(c2s) \in Nat /\ Len(c2s') = Len(c2s) + 2
        /\ \A i \in 1..Len(c2s) : c2s'[i] = c2s[i]
        /\ c2s'[Len(c2s) + 1].type = "KEXINIT"
        /\ c2s'[Len(c2s) + 1].key = out_key
        /\ c2s'[Len(c2s) + 2].type = "KEXDH_INIT"
        /\ c2s'[Len(c2s) + 2].key = out_key
    BY <2>1, <2>2, TwoPackets_Sent
  <2>4. \A i \in 1..Len(c2s') : ClientPacket(i)'
    <3> SUFFICES ASSUME NEW i \in 1..Len(c2s') PROVE ClientPacket(i)'
      OBVIOUS
    <3>1. CASE i \in 1..Len(c2s)
      <4>1. c2s[i].type # "KEXINIT"
        BY <1>10, <1>13, <3>1
      <4> QED
        BY <1>1, <1>3, <1>6, <1>10, <2>3, <3>1, <4>1 DEF ClientPacket
    <3>2. CASE i = Len(c2s) + 1
      <4>1. \A j \in i + 1 .. Len(c2s') : j = Len(c2s) + 2
        BY <2>3, <3>2
      <4> QED
        BY <1>1, <1>3, <1>6, <1>9, <1>11, <1>13, <2>3, <3>2, <4>1
        DEF ClientPacket
    <3>3. CASE i = Len(c2s) + 2
      <4>1. \A j \in i + 1 .. Len(c2s') : FALSE
        BY <2>3, <3>3
      <4> QED
        BY <1>1, <1>3, <1>4, <1>6, <1>9, <2>3, <3>3, <4>1 DEF ClientPacket
    <3> QED
      BY <2>3, <3>1, <3>2, <3>3
  <2>5. ClientKexInv'
    BY <1>1, <1>3, <1>6, <1>9, <2>4 DEF ClientKexInv
  <2> QED
    BY <1>7, <2>5
<1> QED
  BY <1>12, <1>13

\* The server's answer is the first packet, and nothing of the client is on its
\* way: its NEWKEYS and what has waited follow.
LEMMA ssh_packet_client_dh_reply_Kex ==
  ASSUME SessionInv, ssh_packet_socket_callback,
         ssh_packet_client_dh_reply(s2c[1])
  PROVE  /\ ServerKexInv' /\ ClientKexInv' /\ c2s' \in Seq(ClientPackets)
         /\ Replied /\ Len(c2s) = 0
         /\ Len(out_queue) \in Nat /\ Len(c2s') = Len(out_queue) + 1
         /\ c2s'[1].type = "NEWKEYS"
         /\ \A i \in 1..Len(out_queue) : c2s'[i + 1].type = out_queue[i]
<1>1. /\ Live /\ pc # "end" /\ s2c # <<>> /\ Cut(s2c, s2c')
      /\ UNCHANGED <<pc, server>>
  BY Callback
<1>2. s2c[1].type = "KEXDH_REPLY" /\ ServerPacket(1)
  BY <1>1, FirstFromServer DEF ssh_packet_client_dh_reply
<1>3. /\ dh_handshake_state' = "NEWKEYS_SENT" /\ out_key' = out_key + 1
      /\ UNCHANGED <<session_state, client_kex, in_key>>
      /\ send_newkeys
  BY DEF ssh_packet_client_dh_reply, send_newkeys
<1>4. Replied /\ DhSent /\ s_newkeys
  BY <1>2 DEF ServerPacket, Replied
<1>5. /\ ~NewkeysDue /\ ~NewkeysSent
      /\ ~DhSent' /\ ~Replied' /\ NewkeysDue' /\ NewkeysSent'
  BY <1>1, <1>3, <1>4 DEF DhSent, Replied, NewkeysDue, NewkeysSent
<1>6. ServerKexInv'
  <2>1. /\ Len(s2c) \in Nat /\ Len(s2c) >= 2 /\ Len(s2c') = Len(s2c) - 1
        /\ \A i \in 1..Len(s2c') : s2c'[i] = s2c[i + 1]
        /\ s2c[2].type = "NEWKEYS"
    BY <1>1, <1>4 DEF Cut, SessionInv, ServerKexInv
  <2>2. \A i \in 1..Len(s2c') : ServerPacket(i)'
    <3> SUFFICES ASSUME NEW i \in 1..Len(s2c') PROVE ServerPacket(i)'
      OBVIOUS
    <3>1. i + 1 \in 1..Len(s2c) /\ s2c'[i] = s2c[i + 1] /\ ServerPacket(i + 1)
          /\ i + 1 # 1
      BY <1>1, <2>1 DEF SessionInv, ServerKexInv
    <3>2. s2c[i + 1].type \notin {"KEXINIT", "KEXDH_REPLY"}
      BY <1>4, <3>1 DEF ServerPacket
    <3>3. s2c[i + 1].type = "NEWKEYS" => i = 1
      BY <1>5, <3>1 DEF ServerPacket
    <3>4. s2c[i + 1].key = IF i > 1 THEN in_key + 1 ELSE in_key
      BY <1>4, <1>5, <3>1 DEF ServerPacket
    <3>5. s2c[i + 1].type = "DISCONNECT" => s_phase = "down"
      BY <3>1 DEF ServerPacket
    <3> QED
      BY <1>1, <1>3, <1>5, <3>1, <3>2, <3>3, <3>4, <3>5 DEF ServerPacket
  <2>3. s_out' = in_key' + 1 /\ s_kexinit'
    BY <1>1, <1>3, <1>4 DEF SessionInv, ServerKexInv
  <2>4. Len(s2c') >= 1 /\ s2c'[1].type = "NEWKEYS"
    BY <2>1
  <2> QED
    BY <1>5, <2>2, <2>3, <2>4 DEF ServerKexInv
<1>7. c2s = <<>> /\ out_key = s_in /\ Len(c2s) = 0
  <2>1. \A i \in 1..Len(c2s) : FALSE
    BY <1>1, <1>4 DEF SessionInv, ClientKexInv, ClientPacket
  <2>2. Len(c2s) \in Nat /\ (Len(c2s) = 0 => c2s = <<>>)
    BY LenProperties, EmptySeq DEF SessionInv, QueueInv
  <2>3. Len(c2s) = 0
    BY <2>1, <2>2
  <2> QED
    BY <1>1, <1>5, <2>2, <2>3 DEF SessionInv, ClientKexInv
<1> DEFINE newkeys == c2s \o Packets(<<"NEWKEYS">>, out_key)
           rest == Packets(out_queue, out_key + 1)
<1>8. c2s' = newkeys \o rest
  BY <1>3 DEF send_newkeys
<1>9. newkeys \in Seq(ClientPackets) /\ Len(newkeys) = 1
      /\ newkeys[1].type = "NEWKEYS" /\ newkeys[1].key = out_key
  <2>1. /\ c2s \in Seq(ClientPackets)
        /\ [type |-> "NEWKEYS", key |-> out_key] \in ClientPackets
    BY DEF SessionInv, QueueInv, TypeOK, ClientPackets, ClientTypes
  <2>2. newkeys \in Seq(ClientPackets) /\ Added(c2s, newkeys, "NEWKEYS", out_key)
    BY <2>1, Packet_Sent
  <2> QED
    BY <1>7, <2>2 DEF Added
<1>10. /\ rest \in Seq(ClientPackets) /\ Len(rest) = Len(out_queue)
       /\ Len(rest) \in Nat
       /\ \A i \in 1..Len(rest) : /\ rest[i].type \in QueuedTypes
                                  /\ rest[i].type = out_queue[i]
                                  /\ rest[i].key = out_key + 1
  <2>1. out_queue \in Seq(QueuedTypes) /\ out_key + 1 \in Nat
    BY DEF SessionInv, QueueInv, TypeOK
  <2>2. Len(out_queue) \in Nat
        /\ \A i \in 1..Len(out_queue) : out_queue[i] \in QueuedTypes
    BY <2>1, LenProperties, ElementOfSeq
  <2>3. /\ rest \in Seq(ClientPackets) /\ Len(rest) = Len(out_queue)
        /\ \A i \in 1..Len(out_queue) : /\ rest[i].type = out_queue[i]
                                        /\ rest[i].key = out_key + 1
    BY <2>1, Packets_Type
  <2> QED
    BY <2>2, <2>3
<1> HIDE DEF newkeys, rest
<1>11. /\ c2s' \in Seq(ClientPackets) /\ Len(c2s') = Len(rest) + 1
       /\ c2s'[1] = newkeys[1]
       /\ \A i \in 1..Len(rest) : c2s'[i + 1] = rest[i]
  <2> DEFINE r == newkeys \o rest
  <2>1. /\ r \in Seq(ClientPackets) /\ Len(r) = Len(newkeys) + Len(rest)
        /\ \A i \in 1..Len(newkeys) + Len(rest) :
               r[i] = IF i <= Len(newkeys) THEN newkeys[i]
                      ELSE rest[i - Len(newkeys)]
    <3>1. newkeys \in Seq(ClientPackets)
      BY <1>9
    <3>2. rest \in Seq(ClientPackets)
      BY <1>10
    <3> QED
      BY <3>1, <3>2, ConcatProperties
  <2>2. c2s' = r
    BY <1>8
  <2> HIDE DEF r
  <2>3. r[1] = newkeys[1]
    BY <1>9, <1>10, <2>1
  <2>4. ASSUME NEW i \in 1..Len(rest)
        PROVE  r[i + 1] = rest[i]
    <3>1. i + 1 \in 1..Len(newkeys) + Len(rest) /\ ~(i + 1 <= Len(newkeys))
          /\ (i + 1) - Len(newkeys) = i
      BY <1>9, <1>10
    <3> QED
      BY <2>1, <3>1
  <2> QED
    BY <1>9, <1>10, <2>1, <2>2, <2>3, <2>4
<1>12. \A i \in 1..Len(c2s') :
         IF i = 1 THEN c2s'[i].type = "NEWKEYS" /\ c2s'[i].key = s_in
         ELSE c2s'[i].type \in QueuedTypes /\ c2s'[i].key = s_in + 1
  <2> SUFFICES ASSUME NEW i \in 1..Len(c2s'), i # 1
               PROVE  c2s'[i].type \in QueuedTypes /\ c2s'[i].key = s_in + 1
    BY <1>7, <1>9, <1>11
  <2>1. i - 1 \in 1..Len(rest) /\ (i - 1) + 1 = i
    BY <1>10, <1>11
  <2>2. c2s'[i] = rest[i - 1]
    BY <1>11, <2>1
  <2>3. rest[i - 1].type \in QueuedTypes /\ rest[i - 1].key = out_key + 1
    BY <1>10, <2>1
  <2> QED
    BY <1>7, <2>2, <2>3
<1>13. \A i \in 1..Len(c2s') : ClientPacket(i)'
  <2> SUFFICES ASSUME NEW i \in 1..Len(c2s') PROVE ClientPacket(i)'
    OBVIOUS
  <2>1. CASE i = 1
    BY <1>1, <1>4, <1>5, <1>12, <2>1 DEF ClientPacket
  <2>2. CASE i # 1
    <3>1. c2s'[i].type \in QueuedTypes /\ c2s'[i].key = s_in + 1 /\ i > 1
      BY <1>10, <1>11, <1>12, <2>2
    <3> QED
      BY <1>1, <1>4, <1>5, <3>1 DEF ClientPacket, QueuedTypes
  <2> QED
    BY <2>1, <2>2
<1>14. ClientKexInv'
  <2>1. Len(c2s') >= 1 /\ c2s'[1].type = "NEWKEYS"
    BY <1>9, <1>10, <1>11
  <2> QED
    BY <1>1, <1>3, <1>4, <1>5, <1>7, <1>13, <2>1 DEF ClientKexInv
<1> QED
  BY <1>4, <1>6, <1>7, <1>9, <1>10, <1>11, <1>14

\* The server's NEWKEYS: from here on both use the new keys.
LEMMA ssh_packet_newkeys_Kex ==
  ASSUME SessionInv, ssh_packet_socket_callback, ssh_packet_newkeys(s2c[1])
  PROVE  ServerKexInv' /\ ClientKexInv'
<1>1. /\ Live /\ pc # "end" /\ s2c # <<>> /\ Cut(s2c, s2c')
      /\ UNCHANGED <<pc, server>>
  BY Callback
<1>2. s2c[1].type = "NEWKEYS" /\ ServerPacket(1)
  BY <1>1, FirstFromServer DEF ssh_packet_newkeys
<1>3. /\ dh_handshake_state' = "FINISHED" /\ in_key' = in_key + 1
      /\ ~client_kex' /\ UNCHANGED <<c2s, out_key>>
      /\ session_state' \in {"AUTHENTICATED", "AUTHENTICATING"}
  BY DEF ssh_packet_newkeys
<1>4. NewkeysDue
  BY <1>2 DEF ServerPacket
<1>5. /\ ~DhSent /\ ~Replied
      /\ ~DhSent' /\ ~Replied' /\ ~NewkeysDue' /\ NewkeysSent' = NewkeysSent
  BY <1>1, <1>3, <1>4 DEF DhSent, Replied, NewkeysDue, NewkeysSent
<1>6. ServerKexInv'
  <2>1. /\ Len(s2c) \in Nat /\ Len(s2c) >= 1 /\ Len(s2c') = Len(s2c) - 1
        /\ \A i \in 1..Len(s2c') : s2c'[i] = s2c[i + 1]
    BY <1>1 DEF Cut
  <2>2. \A i \in 1..Len(s2c') : ServerPacket(i)'
    <3> SUFFICES ASSUME NEW i \in 1..Len(s2c') PROVE ServerPacket(i)'
      OBVIOUS
    <3>1. i + 1 \in 1..Len(s2c) /\ s2c'[i] = s2c[i + 1] /\ ServerPacket(i + 1)
          /\ i + 1 > 1
      BY <1>1, <2>1 DEF SessionInv, ServerKexInv
    <3>2. s2c[i + 1].type \notin {"NEWKEYS", "KEXDH_REPLY"}
      BY <1>5, <3>1 DEF ServerPacket
    <3>3. s2c[i + 1].key = in_key + 1
      BY <1>4, <1>5, <3>1 DEF ServerPacket
    <3>4. s2c[i + 1].type = "KEXINIT" =>
            \A j \in i + 1 .. Len(s2c') : s2c'[j].type = "DISCONNECT"
      BY <2>1, <3>1 DEF ServerPacket
    <3> QED
      BY <1>1, <1>3, <1>5, <3>1, <3>2, <3>3, <3>4 DEF ServerPacket
  <2>3. s_out' = in_key' /\ (s_newkeys' => s_kexinit')
    BY <1>1, <1>3, <1>4 DEF SessionInv, ServerKexInv
  <2> QED
    BY <1>5, <2>2, <2>3 DEF ServerKexInv
<1>7. ~(c_kexinit /\ ~s_newkeys)
  BY <1>1, <1>4 DEF SessionInv, ClientKexInv, NewkeysDue
<1>8. \A i \in 1..Len(c2s') : ClientPacket(i)'
  <2> SUFFICES ASSUME NEW i \in 1..Len(c2s) PROVE ClientPacket(i)'
    BY <1>3
  <2>1. ClientPacket(i)
    BY <1>1 DEF SessionInv, ClientKexInv
  <2>2. c2s[i].type \notin {"KEXINIT", "KEXDH_INIT"}
    BY <1>4, <1>5, <2>1 DEF ClientPacket, NewkeysDue
  <2> QED
    BY <1>1, <1>3, <1>5, <1>7, <2>1, <2>2 DEF ClientPacket
<1>9. ClientKexInv'
  BY <1>1, <1>3, <1>5, <1>7, <1>8 DEF SessionInv, ClientKexInv
<1> QED
  BY <1>6, <1>9

\* The server takes the first packet of the client: what is left.
LEMMA ClientKex_Cut ==
  ASSUME SessionInv, Live, Cut(c2s, c2s'),
         c2s[1].type \notin {"KEXINIT", "KEXDH_INIT", "NEWKEYS"},
         UNCHANGED <<session_state, dh_handshake_state, client_kex, out_key,
                     pc, s_in, s_newkeys, c_kexinit>>
  PROVE  ClientKexInv'
<1>1. /\ Len(c2s) \in Nat /\ Len(c2s) >= 1 /\ Len(c2s') = Len(c2s) - 1
      /\ \A i \in 1..Len(c2s') : c2s'[i] = c2s[i + 1]
  BY DEF Cut
<1>2. ~NewkeysSent
  BY DEF SessionInv, ClientKexInv
<1>3. DhSent' = DhSent /\ Replied' = Replied /\ ~NewkeysSent'
  BY <1>2 DEF DhSent, Replied, NewkeysSent
<1>4. \A i \in 1..Len(c2s') : ClientPacket(i)'
  <2> SUFFICES ASSUME NEW i \in 1..Len(c2s') PROVE ClientPacket(i)'
    OBVIOUS
  <2>1. i + 1 \in 1..Len(c2s) /\ c2s'[i] = c2s[i + 1] /\ ClientPacket(i + 1)
    BY <1>1 DEF SessionInv, ClientKexInv
  <2>2. c2s[i + 1].type = "KEXDH_INIT" =>
          \A j \in i + 1 .. Len(c2s') : c2s'[j].type = "DISCONNECT"
    BY <1>1, <2>1 DEF ClientPacket
  <2>3. c2s[i + 1].type = "KEXINIT" =>
          \A j \in i + 1 .. Len(c2s') :
              c2s'[j].type \in {"KEXDH_INIT", "DISCONNECT"}
    BY <1>1, <2>1 DEF ClientPacket
  <2> QED
    BY <1>2, <1>3, <2>1, <2>2, <2>3 DEF ClientPacket
<1> QED
  BY <1>2, <1>3, <1>4 DEF SessionInv, ClientKexInv

\* The server sends a packet that is no part of an exchange, KEXINIT, or its
\* DISCONNECT.
LEMMA ServerKex_Added ==
  ASSUME SessionInv, Live, s_phase # "down",
         NEW t, Added(s2c, s2c', t, s_out),
         \/ t \in TodoTypes /\ (s_kexinit => s_newkeys)
            /\ UNCHANGED s_kexinit /\ (s_phase' = "down" => s_phase = "down")
         \/ t = "KEXINIT" /\ ~s_kexinit /\ s_kexinit' /\ UNCHANGED s_phase
         \/ t = "DISCONNECT" /\ UNCHANGED s_kexinit /\ s_phase' = "down",
         UNCHANGED <<session_state, dh_handshake_state, in_key, s_out,
                     s_newkeys, burst>>
  PROVE  ServerKexInv'
<1>1. /\ Len(s2c) \in Nat /\ Len(s2c') = Len(s2c) + 1
      /\ \A i \in 1..Len(s2c) : s2c'[i] = s2c[i]
      /\ s2c'[Len(s2c')].type = t /\ s2c'[Len(s2c')].key = s_out
  BY DEF Added
<1>2. /\ DhSent' = DhSent /\ Replied' = Replied
      /\ NewkeysDue' = NewkeysDue
  BY DEF DhSent, Replied, NewkeysDue
<1>3. t \in TodoTypes =>
        t \notin {"DISCONNECT", "KEXINIT", "KEXDH_REPLY", "NEWKEYS"}
  BY DEF TodoTypes, AuthTypes, AnswerTypes, DataTypes
<1>4. /\ s_newkeys => s_kexinit
      /\ DhSent => s_kexinit
      /\ s_out = IF Replied \/ NewkeysDue THEN in_key + 1 ELSE in_key
      /\ Replied => /\ Len(s2c) >= 2 /\ burst = 0
                    /\ s2c[1].type = "KEXDH_REPLY" /\ s2c[2].type = "NEWKEYS"
      /\ NewkeysDue => Len(s2c) >= 1 /\ s2c[1].type = "NEWKEYS"
      /\ \A i \in 1..Len(s2c) : ServerPacket(i)
  BY DEF SessionInv, ServerKexInv
<1>5. \A i \in 1..Len(s2c) : ServerPacket(i)'
  <2> SUFFICES ASSUME NEW i \in 1..Len(s2c) PROVE ServerPacket(i)'
    OBVIOUS
  <2>1. s2c'[i] = s2c[i] /\ ServerPacket(i) /\ s2c[i].type # "DISCONNECT"
    BY <1>1, <1>4 DEF ServerPacket
  <2>a. s2c[i].type = "KEXINIT" =>
          /\ t = "DISCONNECT"
          /\ \A j \in i + 1 .. Len(s2c) : s2c[j].type = "DISCONNECT"
    BY <2>1 DEF ServerPacket
  <2>2. s2c[i].type = "KEXINIT" =>
          \A j \in i + 1 .. Len(s2c') : s2c'[j].type = "DISCONNECT"
    BY <1>1, <2>a
  <2>3. s2c[i].type = "KEXINIT" => s_kexinit'
    BY <2>1 DEF ServerPacket
  <2> QED
    BY <1>2, <2>1, <2>2, <2>3 DEF ServerPacket
<1> PICK n \in Nat : n = Len(s2c')
  BY <1>1
<1>6. ServerPacket(n)'
  <2>1. \A j \in n + 1 .. Len(s2c') : FALSE
    BY <1>1
  <2>2. s2c'[n].key = IF (Replied /\ n > 2) \/ (NewkeysDue /\ n > 1)
                      THEN in_key + 1 ELSE in_key
    BY <1>1, <1>4
  <2>3. DhSent /\ ~s_newkeys => t = "DISCONNECT"
    BY <1>4
  <2>4. t \notin {"KEXDH_REPLY", "NEWKEYS"}
    BY <1>3
  <2>5. t = "DISCONNECT" => s_phase' = "down"
    BY <1>3
  <2>6. t = "KEXINIT" => s_kexinit' /\ ~s_newkeys
    BY <1>3, <1>4
  <2> QED
    BY <1>1, <1>2, <2>1, <2>2, <2>3, <2>4, <2>5, <2>6 DEF ServerPacket
<1>7. \A i \in 1..Len(s2c') : ServerPacket(i)'
  BY <1>1, <1>5, <1>6
<1>8. Replied => /\ Len(s2c') >= 2 /\ burst = 0
                 /\ s2c'[1].type = "KEXDH_REPLY" /\ s2c'[2].type = "NEWKEYS"
  BY <1>1, <1>4
<1>9. NewkeysDue => Len(s2c') >= 1 /\ s2c'[1].type = "NEWKEYS"
  BY <1>1, <1>4
<1>10. (s_newkeys => s_kexinit') /\ (DhSent => s_kexinit')
  BY <1>4
<1> QED
  BY <1>2, <1>4, <1>7, <1>8, <1>9, <1>10 DEF ServerKexInv

\* The server receives KEXINIT, and sends its own unless it was first.
LEMMA ServerKexinit_Kex ==
  ASSUME SessionInv, ServerReceives, c2s[1].type = "KEXINIT", ServerKexinit
  PROVE  ServerKexInv' /\ ClientKexInv'
<1>1. /\ Live /\ s_phase # "down" /\ c2s # <<>> /\ Cut(c2s, c2s')
      /\ UNCHANGED Client
  BY ServerReceives_Effect
<1>2. ClientPacket(1)
  BY <1>1, Accepted
<1>3. /\ dh_handshake_state \in {"INIT", "INIT_SENT"} /\ client_kex
      /\ \A j \in 2..Len(c2s) : c2s[j].type \in {"KEXDH_INIT", "DISCONNECT"}
  BY <1>2 DEF ClientPacket
<1>4. ~NewkeysSent /\ ~Replied /\ ~NewkeysDue /\ ~s_newkeys /\ ~c_kexinit
  <2>1. ~NewkeysSent
    BY <1>1 DEF SessionInv, ClientKexInv
  <2>2. ~Replied /\ ~c_kexinit
    BY <1>2, <2>1 DEF ClientPacket
  <2> QED
    BY <1>3, <2>1, <2>2 DEF Replied, NewkeysSent, NewkeysDue
<1>5. /\ c_kexinit' /\ s_kexinit'
      /\ UNCHANGED <<s_in, s_out, s_newkeys, s_phase>>
      /\ s_kexinit \/ SSend(<<"KEXINIT">>)
      /\ s_kexinit => UNCHANGED s2c
  BY DEF ServerKexinit
<1>6. /\ DhSent' = DhSent /\ NewkeysDue' = NewkeysDue
      /\ ~Replied' /\ ~NewkeysSent'
  BY <1>1, <1>4, <1>5 DEF DhSent, NewkeysDue, Replied, NewkeysSent, Client
<1>7. ServerKexInv'
  <2>1. CASE s_kexinit
    BY <1>1, <1>5, <1>6, <2>1, ServerKex_Same DEF Client, SessionInv, StateInv
  <2>2. CASE ~s_kexinit
    <3>1. Added(s2c, s2c', "KEXINIT", s_out)
      BY <1>5, <2>2, SSend_Sent DEF ServerTypes
    <3> QED
      BY <1>1, <1>5, <2>2, <3>1, ServerKex_Added DEF Client
  <2> QED
    BY <2>1, <2>2
<1>8. /\ Len(c2s) \in Nat /\ Len(c2s) >= 1 /\ Len(c2s') = Len(c2s) - 1
      /\ \A i \in 1..Len(c2s') : c2s'[i] = c2s[i + 1]
  BY <1>1 DEF Cut
<1>9. \A i \in 1..Len(c2s') : ClientPacket(i)'
  <2> SUFFICES ASSUME NEW i \in 1..Len(c2s') PROVE ClientPacket(i)'
    OBVIOUS
  <2>1. i + 1 \in 2..Len(c2s) /\ c2s'[i] = c2s[i + 1]
    BY <1>8
  <2>2. ClientPacket(i + 1)
    BY <1>1, <1>8, <2>1 DEF SessionInv, ClientKexInv
  <2>3. c2s[i + 1].type \in {"KEXDH_INIT", "DISCONNECT"}
    BY <1>3, <2>1
  <2>4. c2s[i + 1].type = "KEXDH_INIT" =>
          \A j \in i + 1 .. Len(c2s') : c2s'[j].type = "DISCONNECT"
    BY <1>8, <2>1, <2>2 DEF ClientPacket
  <2> QED
    BY <1>1, <1>4, <1>5, <1>6, <2>1, <2>2, <2>3, <2>4 DEF ClientPacket, Client
<1>10. ClientKexInv'
  BY <1>1, <1>3, <1>4, <1>5, <1>6, <1>9 DEF SessionInv, ClientKexInv, Client
<1> QED
  BY <1>7, <1>10

\* The server has the client's first message: it answers, and uses new keys.
LEMMA ServerDh_Kex ==
  ASSUME SessionInv, ServerReceives, c2s[1].type = "KEXDH_INIT", ServerDh
  PROVE  /\ ServerKexInv' /\ ClientKexInv'
         /\ s2c = <<>> /\ s2c' \in Seq(ServerPackets) /\ Len(s2c') = 2
         /\ s2c'[1].type = "KEXDH_REPLY" /\ s2c'[2].type = "NEWKEYS"
<1>1. /\ Live /\ s_phase # "down" /\ c2s # <<>> /\ Cut(c2s, c2s')
      /\ UNCHANGED Client
  BY ServerReceives_Effect
<1>2. ClientPacket(1)
  BY <1>1, Accepted
<1>3. /\ DhSent /\ ~s_newkeys
      /\ \A j \in 2..Len(c2s) : c2s[j].type = "DISCONNECT"
  BY <1>2 DEF ClientPacket
<1>4. /\ s_newkeys' /\ s_out' = s_out + 1
      /\ UNCHANGED <<s_in, s_kexinit, c_kexinit, s_phase>>
  BY DEF ServerDh
<1>5. /\ ~Replied /\ ~NewkeysSent /\ ~NewkeysDue
      /\ DhSent' /\ Replied' /\ ~NewkeysSent' /\ ~NewkeysDue'
  BY <1>1, <1>3, <1>4 DEF DhSent, Replied, NewkeysSent, NewkeysDue, Client
<1>6. s2c = <<>> /\ Len(s2c) = 0
  <2>1. \A i \in 1..Len(s2c) : FALSE
    BY <1>1, <1>3 DEF SessionInv, ServerKexInv, ServerPacket
  <2>2. Len(s2c) \in Nat /\ (Len(s2c) = 0 => s2c = <<>>)
    BY LenProperties, EmptySeq DEF SessionInv, QueueInv
  <2> QED
    BY <2>1, <2>2
<1>7. /\ s2c' \in Seq(ServerPackets) /\ Len(s2c') = 2
      /\ s2c'[1].type = "KEXDH_REPLY" /\ s2c'[1].key = s_out
      /\ s2c'[2].type = "NEWKEYS" /\ s2c'[2].key = s_out
  <2>1. s2c' = s2c \o Packets(<<"KEXDH_REPLY", "NEWKEYS">>, s_out)
    BY DEF ServerDh, SSend
  <2>2. /\ s2c \in Seq(ServerPackets)
        /\ [type |-> "KEXDH_REPLY", key |-> s_out] \in ServerPackets
        /\ [type |-> "NEWKEYS", key |-> s_out] \in ServerPackets
    BY DEF SessionInv, QueueInv, TypeOK, ServerPackets, ServerTypes
  <2>3. /\ s2c' \in Seq(ServerPackets) /\ Len(s2c') = Len(s2c) + 2
        /\ s2c'[Len(s2c) + 1].type = "KEXDH_REPLY"
        /\ s2c'[Len(s2c) + 1].key = s_out
        /\ s2c'[Len(s2c) + 2].type = "NEWKEYS"
        /\ s2c'[Len(s2c) + 2].key = s_out
    BY <2>1, <2>2, TwoPackets_Sent
  <2> QED
    BY <1>6, <2>3
<1>8. s_out = in_key /\ s_kexinit /\ out_key = s_in
  BY <1>1, <1>3, <1>5 DEF SessionInv, ServerKexInv, ClientKexInv
<1>9. burst = 0
  BY <1>6 DEF SessionInv, TypeOK
<1>10. ServerKexInv'
  <2>1. \A i \in 1..Len(s2c') : ServerPacket(i)'
    BY <1>1, <1>4, <1>5, <1>7, <1>8 DEF ServerPacket, Client
  <2> QED
    BY <1>1, <1>4, <1>5, <1>7, <1>8, <1>9, <2>1 DEF ServerKexInv, Client
<1>11. /\ Len(c2s) \in Nat /\ Len(c2s) >= 1 /\ Len(c2s') = Len(c2s) - 1
       /\ \A i \in 1..Len(c2s') : c2s'[i] = c2s[i + 1]
  BY <1>1 DEF Cut
<1>12. \A i \in 1..Len(c2s') : ClientPacket(i)'
  <2> SUFFICES ASSUME NEW i \in 1..Len(c2s') PROVE ClientPacket(i)'
    OBVIOUS
  <2>1. i + 1 \in 2..Len(c2s) /\ c2s'[i] = c2s[i + 1]
    BY <1>11
  <2>2. ClientPacket(i + 1)
    BY <1>1, <1>11, <2>1 DEF SessionInv, ClientKexInv
  <2>3. c2s[i + 1].type = "DISCONNECT"
    BY <1>3, <2>1
  <2> QED
    BY <1>1, <1>4, <1>5, <2>1, <2>2, <2>3 DEF ClientPacket, Client
<1>13. ClientKexInv'
  BY <1>1, <1>4, <1>5, <1>8, <1>12 DEF ClientKexInv, Client
<1> QED
  BY <1>6, <1>7, <1>10, <1>13

\* The server receives NEWKEYS: it has the new keys, too.
LEMMA ServerNewkeys_Kex ==
  ASSUME SessionInv, ServerReceives, c2s[1].type = "NEWKEYS", ServerNewkeys
  PROVE  ServerKexInv' /\ ClientKexInv'
<1>1. /\ Live /\ s_phase # "down" /\ c2s # <<>> /\ Cut(c2s, c2s')
      /\ UNCHANGED Client
  BY ServerReceives_Effect
<1>2. ClientPacket(1)
  BY <1>1, Accepted
<1>3. NewkeysSent
  BY <1>2 DEF ClientPacket
<1>4. /\ s_in' = s_in + 1 /\ ~s_kexinit' /\ ~s_newkeys' /\ ~c_kexinit'
      /\ UNCHANGED <<s2c, s_out, s_phase>>
  BY DEF ServerNewkeys
<1>5. /\ ~DhSent /\ ~Replied /\ s_newkeys
      /\ ~DhSent' /\ ~Replied' /\ ~NewkeysSent' /\ NewkeysDue' = NewkeysDue
  BY <1>1, <1>3, <1>4 DEF DhSent, Replied, NewkeysSent, NewkeysDue, Client
<1>6. ServerKexInv'
  <2>1. \A i \in 1..Len(s2c') : ServerPacket(i)'
    <3> SUFFICES ASSUME NEW i \in 1..Len(s2c) PROVE ServerPacket(i)'
      BY <1>4
    <3>1. ServerPacket(i)
      BY <1>1 DEF SessionInv, ServerKexInv
    <3>2. s2c[i].type # "KEXINIT"
      BY <1>5, <3>1 DEF ServerPacket
    <3> QED
      BY <1>1, <1>4, <1>5, <3>1, <3>2 DEF ServerPacket, Client
  <2> QED
    BY <1>1, <1>4, <1>5, <2>1 DEF SessionInv, ServerKexInv, Client
<1>7. /\ Len(c2s) \in Nat /\ Len(c2s) >= 1 /\ Len(c2s') = Len(c2s) - 1
      /\ \A i \in 1..Len(c2s') : c2s'[i] = c2s[i + 1]
  BY <1>1 DEF Cut
<1>8. \A i \in 1..Len(c2s') : ClientPacket(i)'
  <2> SUFFICES ASSUME NEW i \in 1..Len(c2s') PROVE ClientPacket(i)'
    OBVIOUS
  <2>1. i + 1 \in 1..Len(c2s) /\ i + 1 > 1 /\ c2s'[i] = c2s[i + 1]
    BY <1>7
  <2>2. ClientPacket(i + 1)
    BY <1>1, <2>1 DEF SessionInv, ClientKexInv
  <2>3. c2s[i + 1].type \notin {"NEWKEYS", "KEXDH_INIT"}
        /\ c2s[i + 1].key = s_in + 1
    BY <1>3, <1>5, <2>1, <2>2 DEF ClientPacket
  <2>4. c2s[i + 1].type = "KEXINIT" =>
          \A j \in i + 1 .. Len(c2s') :
              c2s'[j].type \in {"KEXDH_INIT", "DISCONNECT"}
    BY <1>7, <2>1, <2>2 DEF ClientPacket
  <2> QED
    BY <1>1, <1>4, <1>5, <2>1, <2>2, <2>3, <2>4 DEF ClientPacket, Client
<1>9. ClientKexInv'
  BY <1>1, <1>3, <1>4, <1>5, <1>8 DEF SessionInv, ClientKexInv, Client
<1> QED
  BY <1>6, <1>9

\* Keys and exchanges, over all steps.
LEMMA Kex_Step ==
  ASSUME SessionInv, [Next]_vars
  PROVE  ServerKexInv' /\ ClientKexInv'
<1> SUFFICES ASSUME Live' PROVE ServerKexInv' /\ ClientKexInv'
  BY DEF ServerKexInv, ClientKexInv
<1>1. Live
  BY ErrorStays
<1>2. CASE Call
  BY <1>1, <1>2, Call_NoExchange, NoExchange_Kex, ssh_connect_Kex
<1>3. CASE ssh_packet_socket_callback
  <2>1. Handle(s2c[1]) /\ s2c[1].type \in ServerTypes
    BY <1>3, Callback
  <2>2. CASE s2c[1].type \in TodoTypes
    BY <1>3, <2>2, Callback_NoExchange, NoExchange_Kex
  <2>3. CASE ssh_packet_kexinit(s2c[1])
    BY <1>3, <2>3, ssh_packet_kexinit_Kex
  <2>4. CASE ssh_packet_client_dh_reply(s2c[1])
    BY <1>3, <2>4, ssh_packet_client_dh_reply_Kex
  <2>5. CASE ssh_packet_newkeys(s2c[1])
    BY <1>3, <2>5, ssh_packet_newkeys_Kex
  <2>6. ~ssh_packet_disconnect_callback(s2c[1])
    BY DEF ssh_packet_disconnect_callback, Error, Live
  <2> QED
    BY <2>1, <2>2, <2>3, <2>4, <2>5, <2>6
    DEF Handle, ssh_packet_ignore_callback, ssh_packet_service_accept,
        ssh_packet_userauth_success, ssh_packet_userauth_failure,
        channel_rcv_change_window, channel_rcv_data,
        TodoTypes, AuthTypes, AnswerTypes, DataTypes, ServerTypes
<1>4. CASE incoming_rekey
  BY <1>4, incoming_rekey_NoExchange, NoExchange_Kex
<1>5. CASE connect_timeout \/ ConnectionLost
  BY <1>5 DEF connect_timeout, ConnectionLost, Error, Live
<1>6. CASE ServerReceives
  <2>1. /\ Live /\ s_phase # "down" /\ c2s # <<>> /\ Cut(c2s, c2s')
        /\ UNCHANGED Client
        /\ \/ c2s[1].type = "KEXINIT" /\ ServerKexinit
           \/ c2s[1].type = "KEXDH_INIT" /\ ServerDh
           \/ c2s[1].type = "NEWKEYS" /\ ServerNewkeys
           \/ c2s[1].type = "SERVICE_REQUEST" /\ ServerService
           \/ c2s[1].type = "USERAUTH_REQUEST" /\ ServerAuth
           \/ c2s[1].type = "CHANNEL_DATA" /\ ServerData
           \/ /\ c2s[1].type \in {"WINDOW_ADJUST", "DISCONNECT"}
              /\ UNCHANGED <<s2c, server>>
    BY <1>6, ServerReceives_Effect
  <2>2. CASE \/ c2s[1].type = "SERVICE_REQUEST" /\ ServerService
             \/ c2s[1].type = "USERAUTH_REQUEST" /\ ServerAuth
             \/ c2s[1].type = "CHANNEL_DATA" /\ ServerData
             \/ /\ c2s[1].type \in {"WINDOW_ADJUST", "DISCONNECT"}
                /\ UNCHANGED <<s2c, server>>
    <3>1. /\ UNCHANGED <<s2c, s_in, s_out, s_kexinit, s_newkeys, c_kexinit>>
          /\ s_phase' # s_phase => s_phase' # "down"
          /\ c2s[1].type \notin {"KEXINIT", "KEXDH_INIT", "NEWKEYS"}
      BY <2>2 DEF ServerService, ServerAuth, ServerData
    <3>2. ClientKexInv'
      BY <2>1, <3>1, ClientKex_Cut DEF Client
    <3>3. DhSent' = DhSent /\ Replied' = Replied /\ NewkeysDue' = NewkeysDue
      BY <2>1, <3>1 DEF DhSent, Replied, NewkeysDue, Client
    <3>4. \A i \in 1..Len(s2c) : ServerPacket(i)'
      <4> SUFFICES ASSUME NEW i \in 1..Len(s2c) PROVE ServerPacket(i)'
        OBVIOUS
      <4>1. ServerPacket(i) /\ s2c[i].type # "DISCONNECT"
        BY <1>1, <2>1 DEF SessionInv, ServerKexInv, ServerPacket
      <4> QED
        BY <2>1, <3>1, <3>3, <4>1 DEF ServerPacket, Client
    <3>5. ServerKexInv'
      BY <1>1, <2>1, <3>1, <3>3, <3>4 DEF SessionInv, ServerKexInv, Client
    <3> QED
      BY <3>2, <3>5
  <2> QED
    BY <1>6, <2>1, <2>2, ServerKexinit_Kex, ServerDh_Kex, ServerNewkeys_Kex
<1>7. CASE ServerSends \/ ServerRekeys \/ ServerDisconnects
  <2>1. /\ UNCHANGED <<c2s, Client, s_in, s_out, s_newkeys, c_kexinit>>
        /\ s_phase # "down"
    BY <1>7, SessionAssumption
    DEF ServerSends, ServerRekeys, ServerDisconnects, SessionAssumption
  <2>2. DhSent' = DhSent /\ Keeps
    BY <2>1 DEF DhSent, Keeps, Client
  <2>3. ClientKexInv'
    BY <1>1, <2>1, <2>2, ClientKex_Same DEF Client
  <2>4. CASE ServerSends
    <3>1. s_todo \in Seq(TodoTypes) /\ s_todo # <<>>
      BY <2>4 DEF SessionInv, QueueInv, ServerSends
    <3>2. Head(s_todo) \in TodoTypes
      BY <3>1, Received
    <3>3. Added(s2c, s2c', Head(s_todo), s_out)
      BY <2>4, <3>2, SSend_Sent DEF ServerSends, ServerTypes
    <3>4. /\ s_kexinit => s_newkeys
          /\ UNCHANGED s_kexinit
          /\ s_phase' = "down" => s_phase = "down"
      BY <2>4 DEF ServerSends
    <3>5. ServerKexInv'
      BY <1>1, <2>1, <3>2, <3>3, <3>4, ServerKex_Added DEF Client
    <3> QED
      BY <2>3, <3>5
  <2>5. CASE ServerRekeys
    <3>1. Added(s2c, s2c', "KEXINIT", s_out)
      BY <2>5, SSend_Sent DEF ServerRekeys, ServerTypes
    <3>2. ~s_kexinit /\ s_kexinit' /\ UNCHANGED s_phase
      BY <2>5 DEF ServerRekeys
    <3>3. ServerKexInv'
      BY <1>1, <2>1, <3>1, <3>2, ServerKex_Added DEF Client
    <3> QED
      BY <2>3, <3>3
  <2>6. CASE ServerDisconnects
    <3>1. Added(s2c, s2c', "DISCONNECT", s_out)
      BY <2>6, SSend_Sent DEF ServerDisconnects, ServerTypes
    <3>2. UNCHANGED s_kexinit /\ s_phase' = "down"
      BY <2>6 DEF ServerDisconnects
    <3>3. ServerKexInv'
      BY <1>1, <2>1, <3>1, <3>2, ServerKex_Added DEF Client
    <3> QED
      BY <2>3, <3>3
  <2> QED
    BY <1>7, <2>4, <2>5, <2>6
<1>8. CASE UNCHANGED vars
  BY <1>1, <1>8, NoExchange_Kex DEF NoExchange, Keeps
<1> QED
  BY <1>2, <1>3, <1>4, <1>5, <1>6, <1>7, <1>8 DEF Next, Stopped

-----------------------------------------------------------------------------
(* The thread *)

\* A packet is put into out_queue.
LEMMA out_queue_Append ==
  ASSUME SessionInv, NEW t \in QueuedTypes
  PROVE  Append(out_queue, t) \in Seq(QueuedTypes)
<1>1. out_queue \in Seq(QueuedTypes)
  BY DEF SessionInv, QueueInv
<1> QED
  BY <1>1, AppendProperties

\* What ssh_packet_send leaves.
LEMMA ssh_packet_send_Queue ==
  ASSUME SessionInv, Live, authenticated,
         NEW t \in QueuedTypes, ssh_packet_send(t)
  PROVE  c2s' \in Seq(ClientPackets) /\ out_queue' \in Seq(QueuedTypes)
<1>1. out_queue \in Seq(QueuedTypes) /\ Append(out_queue, t) \in Seq(QueuedTypes)
  BY out_queue_Append DEF SessionInv, QueueInv
<1> QED
  BY <1>1, ssh_packet_send_Effect

\* The types of the queues.
LEMMA QueueInv_Step ==
  ASSUME SessionInv, [Next]_vars
  PROVE  QueueInv'
<1>0. /\ c2s \in Seq(ClientPackets) /\ s2c \in Seq(ServerPackets)
      /\ s_todo \in Seq(TodoTypes) /\ out_queue \in Seq(QueuedTypes)
  BY DEF SessionInv, QueueInv, ClientPackets, ServerPackets
<1> SUFFICES /\ c2s' \in Seq(ClientPackets) /\ s2c' \in Seq(ServerPackets)
             /\ s_todo' \in Seq(TodoTypes) /\ out_queue' \in Seq(QueuedTypes)
  BY DEF QueueInv, ClientPackets, ServerPackets
<1>1. ASSUME NEW t \in ClientTypes, packet_send2(<<t>>)
      PROVE  c2s' \in Seq(ClientPackets)
  BY <1>0, <1>1, packet_send2_Sent DEF packet_send2, Live
<1>2. CASE \/ connect_fails \/ import_fails \/ auth_succeeds
           \/ channel_write_begins \/ channel_write_unblocked
           \/ channel_write_returns \/ channel_read_fails
           \/ connect_timeout \/ UNCHANGED vars
  BY <1>0, <1>2
  DEF Keep, connect_fails, import_fails, auth_succeeds,
      channel_write_begins, channel_write_unblocked, channel_write_returns,
      channel_read_fails, connect_timeout
<1>3. CASE \/ ssh_connect \/ ssh_userauth_request_service
           \/ ssh_userauth_publickey \/ auth_fails \/ ssh_disconnect
  <2>1. \E t \in ClientTypes : packet_send2(<<t>>)
    BY <1>3
    DEF ssh_connect, ssh_userauth_request_service, ssh_userauth_publickey,
        auth_fails, ssh_disconnect, ClientTypes
  <2>2. UNCHANGED <<s2c, s_todo, out_queue>>
    BY <1>3
    DEF ssh_connect, ssh_userauth_request_service, ssh_userauth_publickey,
        auth_fails, ssh_disconnect, Keep
  <2> QED
    BY <1>0, <1>1, <2>1, <2>2
<1>4. CASE channel_write \/ channel_read
  <2>1. Live /\ pc \in {"write", "read"} /\ UNCHANGED <<s2c, s_todo>>
    BY <1>4 DEF channel_write, channel_read, Runs, Keep, Live
  <2>2. authenticated
    BY <2>1 DEF SessionInv, StateInv
  <2>3. \/ \E t \in QueuedTypes : ssh_packet_send(t)
        \/ UNCHANGED <<c2s, out_queue>>
    BY <1>4 DEF channel_write, channel_read, QueuedTypes
  <2> QED
    BY <1>0, <2>1, <2>2, <2>3, ssh_packet_send_Queue
<1>5. CASE ssh_packet_socket_callback
  <2>1. /\ Live /\ Handle(s2c[1]) /\ s2c' \in Seq(ServerPackets)
        /\ ssh_packet_incoming_filter(s2c[1].type) /\ UNCHANGED s_todo
    BY <1>5, Callback
  <2>2. CASE \/ ssh_packet_disconnect_callback(s2c[1])
             \/ ssh_packet_ignore_callback(s2c[1])
             \/ ssh_packet_newkeys(s2c[1])
             \/ ssh_packet_service_accept(s2c[1])
             \/ ssh_packet_userauth_success(s2c[1])
             \/ ssh_packet_userauth_failure(s2c[1])
             \/ channel_rcv_change_window(s2c[1])
    BY <1>0, <2>1, <2>2
    DEF ssh_packet_disconnect_callback, ssh_packet_ignore_callback,
        ssh_packet_newkeys, ssh_packet_service_accept,
        ssh_packet_userauth_success, ssh_packet_userauth_failure,
        channel_rcv_change_window
  <2>3. CASE ssh_packet_kexinit(s2c[1])
    <3>1. UNCHANGED out_queue
      BY <2>3 DEF ssh_packet_kexinit
    <3>2. CASE client_kex
      <4>1. packet_send2(<<"KEXDH_INIT">>)
        BY <2>3, <3>2 DEF ssh_packet_kexinit, ssh_client_connection_callback
      <4>2. c2s' \in Seq(ClientPackets)
        BY <2>1, <4>1, packet_send2_Sent DEF ClientTypes
      <4> QED
        BY <1>0, <2>1, <3>1, <4>2
    <3>3. CASE ~client_kex
      <4>1. c2s' = c2s \o Packets(<<"KEXINIT", "KEXDH_INIT">>, out_key)
        BY <2>1, <2>3, <3>3
        DEF ssh_packet_kexinit, ssh_client_connection_callback, packet_send2,
            Live
      <4>2. /\ [type |-> "KEXINIT", key |-> out_key] \in ClientPackets
            /\ [type |-> "KEXDH_INIT", key |-> out_key] \in ClientPackets
        BY DEF SessionInv, TypeOK, ClientPackets, ClientTypes
      <4>3. c2s' \in Seq(ClientPackets)
        BY <1>0, <4>1, <4>2, TwoPackets_Sent
      <4> QED
        BY <1>0, <2>1, <3>1, <4>3
    <3> QED
      BY <3>2, <3>3
  <2>4. CASE ssh_packet_client_dh_reply(s2c[1])
    <3>1. out_queue' = <<>>
      BY <2>4 DEF ssh_packet_client_dh_reply, send_newkeys
    <3>2. <<>> \in Seq(QueuedTypes)
      OBVIOUS
    <3> QED
      BY <1>0, <1>5, <2>1, <2>4, <3>1, <3>2, ssh_packet_client_dh_reply_Kex
  <2>5. CASE channel_rcv_data(s2c[1])
    <3>1. session_state = "AUTHENTICATED"
      BY <2>1, <2>5
      DEF channel_rcv_data, ssh_packet_incoming_filter, filter_transport,
          filter_kex, filter_auth, filter_connection
    <3>2. authenticated
      BY <2>1, <3>1 DEF SessionInv, StateInv
    <3>3. \/ \E t \in QueuedTypes : ssh_packet_send(t)
          \/ UNCHANGED <<c2s, out_queue>>
      BY <2>5 DEF channel_rcv_data, QueuedTypes
    <3> QED
      BY <1>0, <2>1, <3>2, <3>3, ssh_packet_send_Queue
  <2> QED
    BY <2>1, <2>2, <2>3, <2>4, <2>5 DEF Handle
<1>6. CASE incoming_rekey
  BY <1>0, <1>6, ssh_send_rekex_Effect DEF incoming_rekey, Live
<1>7. CASE ConnectionLost
  <2>1. <<>> \in Seq(ClientPackets) /\ <<>> \in Seq(ServerPackets)
    OBVIOUS
  <2> QED
    BY <1>0, <1>7, <2>1 DEF ConnectionLost
<1>8. CASE ServerReceives
  <2>1. /\ c2s' \in Seq(ClientPackets) /\ UNCHANGED Client
        /\ \/ c2s[1].type = "KEXINIT" /\ ServerKexinit
           \/ c2s[1].type = "KEXDH_INIT" /\ ServerDh
           \/ c2s[1].type = "NEWKEYS" /\ ServerNewkeys
           \/ c2s[1].type = "SERVICE_REQUEST" /\ ServerService
           \/ c2s[1].type = "USERAUTH_REQUEST" /\ ServerAuth
           \/ c2s[1].type = "CHANNEL_DATA" /\ ServerData
           \/ UNCHANGED <<s2c, server>>
    BY <1>8, ServerReceives_Effect
  <2>2. s2c' \in Seq(ServerPackets)
    <3>1. CASE c2s[1].type = "KEXDH_INIT" /\ ServerDh
      BY <1>8, <3>1, ServerDh_Kex
    <3>2. CASE SSend(<<"KEXINIT">>)
      BY <3>2, SSend_Sent DEF ServerTypes
    <3>3. \/ c2s[1].type = "KEXDH_INIT" /\ ServerDh
          \/ SSend(<<"KEXINIT">>)
          \/ UNCHANGED s2c
      BY <2>1
      DEF ServerKexinit, ServerNewkeys, ServerService, ServerAuth, ServerData
    <3> QED
      BY <1>0, <3>1, <3>2, <3>3
  <2>3. s_todo' \in Seq(TodoTypes)
    <3>1. /\ <<"EXT_INFO">> \in Seq(TodoTypes)
          /\ <<"SERVICE_ACCEPT">> \in Seq(TodoTypes)
          /\ <<"USERAUTH_BANNER", "USERAUTH_SUCCESS">> \in Seq(TodoTypes)
          /\ <<"USERAUTH_SUCCESS", "GLOBAL_REQUEST">> \in Seq(TodoTypes)
          /\ <<"WINDOW_ADJUST">> \in Seq(TodoTypes)
          /\ <<"WINDOW_ADJUST", "CHANNEL_DATA">> \in Seq(TodoTypes)
      BY DEF TodoTypes, AuthTypes, AnswerTypes, DataTypes
    <3>2. \A ts \in Seq(TodoTypes) : s_todo \o ts \in Seq(TodoTypes)
      BY <1>0, ConcatProperties
    <3>3. \A t \in TodoTypes : Append(s_todo, t) \in Seq(TodoTypes)
      BY <1>0, AppendProperties
    <3>4. \/ s_todo' = s_todo \/ s_todo' = <<"EXT_INFO">>
          \/ \E ts \in Seq(TodoTypes) : s_todo' = s_todo \o ts
          \/ \E t \in {"SERVICE_ACCEPT", "USERAUTH_FAILURE"} :
                 s_todo' = Append(s_todo, t)
      <4>1. CASE ServerAuth
        BY <3>1, <4>1 DEF ServerAuth
      <4>2. CASE ServerData
        BY <3>1, <4>2 DEF ServerData
      <4>3. CASE ServerService
        BY <4>3 DEF ServerService
      <4>4. CASE ServerDh
        BY <4>4 DEF ServerDh
      <4> QED
        BY <2>1, <4>1, <4>2, <4>3, <4>4 DEF ServerKexinit, ServerNewkeys
    <3>5. {"SERVICE_ACCEPT", "USERAUTH_FAILURE"} \subseteq TodoTypes
      BY DEF TodoTypes, AuthTypes, AnswerTypes
    <3> QED
      BY <1>0, <3>1, <3>2, <3>3, <3>4, <3>5
  <2> QED
    BY <1>0, <2>1, <2>2, <2>3 DEF Client
<1>9. CASE ServerSends
  <2>1. s_todo # <<>>
    BY <1>9 DEF ServerSends
  <2>2. Head(s_todo) \in TodoTypes /\ Tail(s_todo) \in Seq(TodoTypes)
    BY <1>0, <2>1, Received
  <2>3. s2c' \in Seq(ServerPackets)
    BY <1>9, <2>2, SSend_Sent DEF ServerSends, ServerTypes
  <2> QED
    BY <1>0, <1>9, <2>2, <2>3 DEF ServerSends, Client
<1>10. CASE ServerRekeys \/ ServerDisconnects
  <2>1. s2c' \in Seq(ServerPackets)
    BY <1>10, SSend_Sent DEF ServerRekeys, ServerDisconnects, ServerTypes
  <2> QED
    BY <1>0, <1>10, <2>1 DEF ServerRekeys, ServerDisconnects, Client
<1> QED
  BY <1>2, <1>3, <1>4, <1>5, <1>6, <1>7, <1>8, <1>9, <1>10
  DEF Next, Call, Stopped

\* Session and key are freed on every way out.
LEMMA HandleInv_Step ==
  ASSUME SessionInv, [Next]_vars
  PROVE  HandleInv'
<1>0. HandleInv /\ pc \in {"start", "connect", "service", "auth", "work",
                           "unblock", "write", "read", "end"}
  BY DEF SessionInv, StateInv
<1>1. CASE UNCHANGED <<pc, handles>>
  BY <1>0, <1>1 DEF HandleInv
<1>2. CASE Call
  BY <1>0, <1>2
  DEF HandleInv, Call, Runs, ssh_connect, connect_fails, import_fails,
      ssh_userauth_request_service, ssh_userauth_publickey, auth_fails,
      auth_succeeds, channel_write_begins, channel_write_unblocked,
      channel_write, channel_write_returns, channel_read, channel_read_fails,
      ssh_disconnect, key_and_session
<1>3. CASE ~Call
  BY <1>1, <1>3
  DEF Next, ssh_packet_socket_callback, incoming_rekey, connect_timeout,
      ConnectionLost, ServerReceives, ServerSends, ServerRekeys,
      ServerDisconnects, Stopped, Client
<1> QED
  BY <1>2, <1>3

\* The server asks for no new keys before the session exists.
LEMMA ServerWaits ==
  ASSUME SessionInv, session_state = "NONE"
  PROVE  s_phase # "work"
<1>1. Live /\ ~authenticated /\ in_key = 0 /\ ~DhSent /\ ~NewkeysDue
  BY DEF SessionInv, StateInv, Live, DhSent, NewkeysDue
<1>2. s_out = 0
  BY <1>1 DEF SessionInv, ServerKexInv, Replied
<1>3. ~Coming("USERAUTH_SUCCESS")
  BY <1>1, <1>2 DEF SessionInv, AuthInv, AuthTypes, AnswerTypes
<1>4. \A i \in 1..Len(s2c) : s2c[i].type # "USERAUTH_SUCCESS"
  BY <1>3 DEF Coming
<1> QED
  BY <1>1, <1>4 DEF SessionInv, SuccessInv, SuccessBefore

\* What holds of an exchange that starts or goes on with a packet to send.
LEMMA ssh_packet_send_State ==
  ASSUME SessionInv, Live, authenticated,
         \/ \E t \in QueuedTypes : ssh_packet_send(t)
         \/ UNCHANGED <<c2s, out_queue, client_kex, dh_handshake_state, rekeys>>
  PROVE  \/ UNCHANGED <<client_kex, dh_handshake_state>>
         \/ /\ session_state = "AUTHENTICATED"
            /\ client_kex' = TRUE /\ dh_handshake_state' = "INIT_SENT"
<1>1. \/ Keeps
      \/ Rekexed /\ session_state = "AUTHENTICATED"
      \/ \E t \in RequestTypes : Says(t)
  BY ssh_packet_send_NoExchange DEF Keeps
<1> QED
  BY <1>1 DEF Keeps, Rekexed, Says

\* The states that belong together.
LEMMA StateInv_Step ==
  ASSUME SessionInv, [Next]_vars
  PROVE  StateInv'
<1>0. StateInv /\ TypeOK
  BY DEF SessionInv
<1>1. CASE \/ connect_fails \/ import_fails \/ auth_succeeds
           \/ channel_write_begins \/ channel_write_unblocked
           \/ channel_write_returns \/ channel_read_fails
  <2>1. UNCHANGED <<c2s, s2c, burst, session, server>> /\ burst = 0
        /\ pc # "start" /\ pc' # "start"
    BY <1>1
    DEF Runs, Keep, connect_fails, import_fails, auth_succeeds,
        channel_write_begins, channel_write_unblocked, channel_write_returns,
        channel_read_fails
  <2>2. pc' \in {"work", "unblock", "write", "read", "end"}
    BY <1>1
    DEF connect_fails, import_fails, auth_succeeds,
        channel_write_begins, channel_write_unblocked, channel_write_returns,
        channel_read_fails
  <2>3. CASE authenticated
    BY <1>0, <2>1, <2>2, <2>3 DEF StateInv, Live
  <2>4. CASE ~authenticated
    <3>1. ~channel_write_begins /\ ~channel_write_unblocked
          /\ ~channel_write_returns /\ ~channel_read_fails
      BY <1>0, <2>4
      DEF StateInv, Runs, channel_write_begins, channel_write_unblocked,
          channel_write_returns, channel_read_fails
    <3>2. ~auth_succeeds
      BY <1>0, <2>4 DEF auth_succeeds, StateInv
    <3>3. session_state \in {"ERROR", "AUTHENTICATING"} /\ pc' = "end"
      BY <1>1, <3>1, <3>2 DEF connect_fails, import_fails
    <3> QED
      BY <1>0, <2>1, <2>4, <3>3 DEF StateInv, Live
  <2> QED
    BY <2>3, <2>4
<1>2. CASE ssh_connect
  BY <1>0, <1>2 DEF ssh_connect, Runs, Keep, StateInv, TypeOK, Live
<1>3. CASE ssh_userauth_request_service \/ ssh_userauth_publickey
  BY <1>0, <1>3
  DEF ssh_userauth_request_service, ssh_userauth_publickey, Runs, Keep,
      StateInv, Live
<1>4. CASE auth_fails \/ ssh_disconnect
  BY <1>0, <1>4 DEF auth_fails, ssh_disconnect, Runs, Keep, StateInv, Live
<1>5. CASE channel_write \/ channel_read
  <2>1. Live /\ pc \in {"write", "read"} /\ burst = 0
        /\ pc' \in {"write", "work"}
        /\ UNCHANGED <<s2c, burst, server, session_state, authenticated,
                       auth_state, in_key>>
    BY <1>5 DEF channel_write, channel_read, Runs, Keep, Live
  <2>2. authenticated
    BY <1>0, <2>1 DEF StateInv
  <2>3. \/ \E t \in QueuedTypes : ssh_packet_send(t)
        \/ UNCHANGED <<c2s, out_queue, client_kex, dh_handshake_state, rekeys>>
    BY <1>5 DEF channel_write, channel_read, QueuedTypes
  <2>4. \/ UNCHANGED <<client_kex, dh_handshake_state>>
        \/ /\ session_state = "AUTHENTICATED"
           /\ client_kex' = TRUE /\ dh_handshake_state' = "INIT_SENT"
    BY <2>1, <2>2, <2>3, ssh_packet_send_State
  <2> QED
    BY <1>0, <2>1, <2>2, <2>4 DEF StateInv, Live
<1>6. CASE ssh_packet_socket_callback
  <2>1. /\ Live /\ Handle(s2c[1]) /\ pc \notin {"start", "end"}
        /\ ssh_packet_incoming_filter(s2c[1].type) /\ s2c # <<>>
        /\ UNCHANGED <<pc, calls, len, handles, server>>
    BY <1>6, Callback
  <2>2. CASE ssh_packet_disconnect_callback(s2c[1])
    BY <1>0, <2>1, <2>2
    DEF ssh_packet_disconnect_callback, Error, StateInv, Live
  <2>3. CASE \/ ssh_packet_ignore_callback(s2c[1])
             \/ ssh_packet_service_accept(s2c[1])
             \/ channel_rcv_change_window(s2c[1])
    BY <1>0, <2>1, <2>3
    DEF ssh_packet_ignore_callback, ssh_packet_service_accept,
        channel_rcv_change_window, StateInv, Live
  <2>9. CASE ssh_packet_userauth_failure(s2c[1])
    <3>1. auth_state = "PUBKEY_AUTH_SENT"
      BY <2>1, <2>9, FirstOfAuth
      DEF ssh_packet_userauth_failure, AuthTypes, AnswerTypes
    <3>2. auth_state' \notin {"NONE", "SUCCESS"}
          /\ UNCHANGED <<c2s, states, keys>>
      BY <2>9 DEF ssh_packet_userauth_failure
    <3> QED
      BY <1>0, <2>1, <3>1, <3>2 DEF StateInv, Live
  <2>4. CASE ssh_packet_kexinit(s2c[1])
    <3>1. session_state \in {"AUTHENTICATED", "INITIAL_KEX"}
      BY <2>1, <2>4
      DEF ssh_packet_kexinit, ssh_packet_incoming_filter, filter_transport,
          filter_kex, filter_auth, filter_connection
    <3>2. authenticated \/ pc \in {"start", "connect"}
      BY <1>0, <2>1, <3>1 DEF StateInv
    <3> QED
      BY <1>0, <2>1, <2>4, <3>1, <3>2
      DEF ssh_packet_kexinit, ssh_client_connection_callback, StateInv, Live
  <2>5. CASE ssh_packet_client_dh_reply(s2c[1])
    <3>1. session_state = "DH"
      BY <2>1, <2>5
      DEF ssh_packet_client_dh_reply, ssh_packet_incoming_filter,
          filter_transport, filter_kex, filter_auth, filter_connection
    <3> QED
      BY <1>0, <2>1, <2>5, <3>1
      DEF ssh_packet_client_dh_reply, send_newkeys, StateInv, Live
  <2>6. CASE ssh_packet_newkeys(s2c[1])
    BY <1>0, <2>1, <2>6 DEF ssh_packet_newkeys, StateInv, TypeOK, Live
  <2>7. CASE ssh_packet_userauth_success(s2c[1])
    <3>1. session_state = "AUTHENTICATING"
      BY <2>1, <2>7
      DEF ssh_packet_userauth_success, ssh_packet_incoming_filter,
          filter_transport, filter_kex, filter_auth, filter_connection
    <3>2. auth_state = "PUBKEY_AUTH_SENT"
      BY <2>1, <2>7, FirstOfAuth
      DEF ssh_packet_userauth_success, AuthTypes, AnswerTypes
    <3> QED
      BY <1>0, <2>1, <2>7, <3>1, <3>2
      DEF ssh_packet_userauth_success, StateInv, Live
  <2>8. CASE channel_rcv_data(s2c[1])
    <3>1. session_state = "AUTHENTICATED"
      BY <2>1, <2>8
      DEF channel_rcv_data, ssh_packet_incoming_filter, filter_transport,
          filter_kex, filter_auth, filter_connection
    <3>2. authenticated
      BY <1>0, <2>1, <3>1 DEF StateInv
    <3>3. \/ \E t \in QueuedTypes : ssh_packet_send(t)
          \/ UNCHANGED <<c2s, out_queue, client_kex, dh_handshake_state, rekeys>>
      BY <2>8 DEF channel_rcv_data, QueuedTypes
    <3>4. \/ UNCHANGED <<client_kex, dh_handshake_state>>
          \/ /\ session_state = "AUTHENTICATED"
             /\ client_kex' = TRUE /\ dh_handshake_state' = "INIT_SENT"
      BY <2>1, <3>2, <3>3, ssh_packet_send_State
    <3> QED
      BY <1>0, <2>1, <2>8, <3>1, <3>2, <3>4
      DEF channel_rcv_data, StateInv, Live
  <2> QED
    BY <2>1, <2>2, <2>3, <2>4, <2>5, <2>6, <2>7, <2>8, <2>9 DEF Handle
<1>7. CASE incoming_rekey
  <2>1. session_state = "AUTHENTICATED"
    BY <1>0, <1>7
    DEF incoming_rekey, ssh_packet_need_rekey, StateInv, TypeOK, Live
  <2> QED
    BY <1>0, <1>7, <2>1
    DEF incoming_rekey, ssh_packet_need_rekey, ssh_send_rekex, StateInv, Live
<1>8. CASE connect_timeout \/ ConnectionLost
  BY <1>0, <1>8
  DEF connect_timeout, ConnectionLost, Error, Runs, Keep,
      ssh_connect_termination, StateInv, Live
<1>9. CASE ServerReceives
  <2>1. /\ Live /\ c2s # <<>> /\ UNCHANGED Client
        /\ \/ ServerKexinit \/ ServerDh \/ ServerNewkeys \/ ServerService
           \/ ServerAuth \/ ServerData \/ UNCHANGED <<s2c, server>>
    BY <1>9, ServerReceives_Effect
  <2>2. /\ s_kexinit' \in BOOLEAN /\ s_newkeys' \in BOOLEAN
        /\ c_kexinit' \in BOOLEAN
    BY <1>0, <2>1
    DEF StateInv, ServerKexinit, ServerDh, ServerNewkeys, ServerService,
        ServerAuth, ServerData
  <2>3. session_state # "NONE"
    BY <1>0, <2>1 DEF StateInv
  <2> QED
    BY <1>0, <2>1, <2>2, <2>3 DEF StateInv, Live, Client
<1>10. CASE ServerSends \/ ServerRekeys \/ ServerDisconnects
  <2>1. /\ UNCHANGED <<c2s, Client, s_newkeys, c_kexinit>>
        /\ s_kexinit' \in BOOLEAN
        /\ UNCHANGED s_kexinit \/ s_phase = "work"
    BY <1>0, <1>10 DEF ServerSends, ServerRekeys, ServerDisconnects, StateInv
  <2>2. session_state = "NONE" => UNCHANGED s_kexinit
    BY <2>1, ServerWaits
  <2> QED
    BY <1>0, <2>1, <2>2 DEF StateInv, Live, Client
<1>11. CASE UNCHANGED vars
  BY <1>0, <1>11 DEF StateInv, Live
<1> QED
  BY <1>1, <1>2, <1>3, <1>4, <1>5, <1>6, <1>7, <1>8, <1>9, <1>10, <1>11
  DEF Next, Call, Stopped

-----------------------------------------------------------------------------
(* Authentication *)

\* r is q followed by ts.
Extends(q, r, ts) ==
    /\ Len(q) \in Nat /\ Len(ts) \in Nat /\ Len(r) = Len(q) + Len(ts)
    /\ \A i \in 1..Len(q) : r[i] = q[i]
    /\ \A i \in 1..Len(ts) : r[Len(q) + i] = ts[i]

LEMMA Concat_Extends ==
  ASSUME NEW S, NEW q \in Seq(S), NEW ts \in Seq(S)
  PROVE  Extends(q, q \o ts, ts)
<1> DEFINE r == q \o ts
<1>1. /\ r \in Seq(S) /\ Len(r) = Len(q) + Len(ts)
      /\ Len(q) \in Nat /\ Len(ts) \in Nat
      /\ \A i \in 1..Len(q) + Len(ts) : r[i] = IF i <= Len(q) THEN q[i]
                                               ELSE ts[i - Len(q)]
  BY ConcatProperties, LenProperties
<1> HIDE DEF r
<1>2. \A i \in 1..Len(q) : r[i] = q[i]
  BY <1>1
<1>3. \A i \in 1..Len(ts) : r[Len(q) + i] = ts[i]
  <2> TAKE i \in 1..Len(ts)
  <2>1. /\ Len(q) + i \in 1..Len(q) + Len(ts) /\ ~(Len(q) + i <= Len(q))
        /\ (Len(q) + i) - Len(q) = i
    BY <1>1
  <2> QED
    BY <1>1, <2>1
<1>4. Extends(q, r, ts)
  BY <1>1, <1>2, <1>3 DEF Extends
<1> QED
  BY <1>4 DEF r

LEMMA Append_Extends ==
  ASSUME NEW S, NEW q \in Seq(S), NEW e \in S
  PROVE  Extends(q, Append(q, e), <<e>>)
<1> DEFINE r == Append(q, e)
<1>1. /\ Len(q) \in Nat /\ Len(r) = Len(q) + 1
      /\ \A i \in 1..Len(q) : r[i] = q[i]
      /\ r[Len(q) + 1] = e
  BY AppendProperties, LenProperties
<1> HIDE DEF r
<1>2. Extends(q, r, <<e>>)
  BY <1>1 DEF Extends
<1> QED
  BY <1>2 DEF r

\* Requests that the server has taken, and requests that are made.
LEMMA Asked_Cut ==
  ASSUME Cut(c2s, c2s')
  PROVE  /\ \A t : Asked(t)' => Asked(t)
         /\ \A t : Once(t) => Once(t)'
         /\ Asked(c2s[1].type)
         /\ \A t : t = c2s[1].type /\ Once(t) => ~Asked(t)'
<1>1. /\ Len(c2s) \in Nat /\ Len(c2s) >= 1 /\ Len(c2s') = Len(c2s) - 1
      /\ \A i \in 1..Len(c2s') : c2s'[i] = c2s[i + 1] /\ i + 1 \in 1..Len(c2s)
  BY DEF Cut
<1>2. \A t : Asked(t)' => Asked(t)
  BY <1>1 DEF Asked
<1>3. \A t : Once(t) => Once(t)'
  <2> SUFFICES ASSUME NEW t, Once(t),
                      NEW i \in 1..Len(c2s'), NEW j \in 1..Len(c2s'),
                      c2s'[i].type = t, c2s'[j].type = t
               PROVE  i = j
    BY DEF Once
  <2>1. i + 1 = j + 1
    BY <1>1 DEF Once
  <2> QED
    BY <1>1, <2>1
<1>4. Asked(c2s[1].type)
  BY <1>1 DEF Asked
<1>5. \A t : t = c2s[1].type /\ Once(t) => ~Asked(t)'
  <2> SUFFICES ASSUME NEW t, t = c2s[1].type, Once(t), Asked(t)' PROVE FALSE
    OBVIOUS
  <2>1. PICK i \in 1..Len(c2s') : c2s'[i].type = t
    BY DEF Asked
  <2>2. i + 1 = 1
    BY <1>1, <2>1 DEF Once
  <2> QED
    BY <1>1, <2>2
<1> QED
  BY <1>2, <1>3, <1>4, <1>5

LEMMA Asked_Added ==
  ASSUME NEW t, NEW k, Added(c2s, c2s', t, k)
  PROVE  /\ \A u : Asked(u)' => Asked(u) \/ u = t
         /\ \A u : Once(u) /\ (u = t => ~Asked(u)) => Once(u)'
<1>1. /\ Len(c2s) \in Nat /\ Len(c2s') = Len(c2s) + 1
      /\ \A i \in 1..Len(c2s) : c2s'[i] = c2s[i]
      /\ c2s'[Len(c2s) + 1].type = t
      /\ \A i \in 1..Len(c2s') : i \in 1..Len(c2s) \/ i = Len(c2s) + 1
  BY DEF Added
<1> QED
  BY <1>1 DEF Asked, Once

\* Answers that the client has taken, and answers that are given.
LEMMA Coming_Cut ==
  ASSUME Cut(s2c, s2c'), UNCHANGED s_todo
  PROVE  (\A t : Coming(t)' => Coming(t)) /\ Coming(s2c[1].type)
BY DEF Cut, Coming

LEMMA Coming_Added ==
  ASSUME NEW t, NEW k, Added(s2c, s2c', t, k), UNCHANGED s_todo
  PROVE  \A u : Coming(u)' => Coming(u) \/ u = t
<1>1. /\ Len(s2c) \in Nat /\ Len(s2c') = Len(s2c) + 1
      /\ \A i \in 1..Len(s2c) : s2c'[i] = s2c[i]
      /\ s2c'[Len(s2c) + 1].type = t
      /\ \A i \in 1..Len(s2c') : i \in 1..Len(s2c) \/ i = Len(s2c) + 1
  BY DEF Added
<1> QED
  BY <1>1 DEF Coming

LEMMA Coming_Extends ==
  ASSUME NEW ts, Extends(s_todo, s_todo', ts), UNCHANGED s2c
  PROVE  \A u : Coming(u)' => Coming(u) \/ \E i \in 1..Len(ts) : ts[i] = u
<1>1. \A i \in 1..Len(s_todo') :
        \/ i \in 1..Len(s_todo) /\ s_todo'[i] = s_todo[i]
        \/ \E j \in 1..Len(ts) : s_todo'[i] = ts[j]
  <2> TAKE i \in 1..Len(s_todo')
  <2>1. CASE i > Len(s_todo)
    <3>1. i - Len(s_todo) \in 1..Len(ts) /\ Len(s_todo) + (i - Len(s_todo)) = i
      BY <2>1 DEF Extends
    <3> QED
      BY <3>1 DEF Extends
  <2> QED
    BY <2>1 DEF Extends
<1> QED
  BY <1>1 DEF Coming

\* What the server sends was among what it had to send.
LEMMA ServerSends_Effect ==
  ASSUME SessionInv, ServerSends
  PROVE  /\ Live /\ s_phase # "down" /\ (s_kexinit => s_newkeys)
         /\ Cut(s_todo, s_todo') /\ s_todo[1] \in TodoTypes
         /\ s_todo' \in Seq(TodoTypes)
         /\ Added(s2c, s2c', s_todo[1], s_out)
         /\ s_phase' = IF s_todo[1] = "USERAUTH_SUCCESS" THEN "work"
                       ELSE s_phase
         /\ UNCHANGED <<c2s, Client, s_kex, s_parts, s_refused>>
<1>1. s_todo \in Seq(TodoTypes) /\ s_todo # <<>>
  BY DEF SessionInv, QueueInv, ServerSends
<1>2. /\ s_todo' \in Seq(TodoTypes) /\ Head(s_todo) = s_todo[1]
      /\ s_todo[1] \in TodoTypes /\ Cut(s_todo, s_todo')
  BY <1>1, Received DEF ServerSends
<1>3. Added(s2c, s2c', s_todo[1], s_out)
  BY <1>2, SSend_Sent DEF ServerSends, ServerTypes
<1>4. /\ Live /\ s_phase # "down" /\ (s_kexinit => s_newkeys)
      /\ s_phase' = IF Head(s_todo) = "USERAUTH_SUCCESS" THEN "work"
                    ELSE s_phase
      /\ UNCHANGED <<c2s, Client, s_kex, s_parts, s_refused>>
  BY DEF ServerSends, Live
<1> QED
  BY <1>2, <1>3, <1>4

LEMMA Coming_Sends ==
  ASSUME NEW k, Cut(s_todo, s_todo'), Added(s2c, s2c', s_todo[1], k)
  PROVE  \A t : Coming(t)' => Coming(t)
<1>1. /\ Len(s2c) \in Nat
      /\ \A i \in 1..Len(s2c) : s2c'[i] = s2c[i]
      /\ s2c'[Len(s2c) + 1].type = s_todo[1]
      /\ \A i \in 1..Len(s2c') : i \in 1..Len(s2c) \/ i = Len(s2c) + 1
  BY DEF Added
<1>2. /\ 1 \in 1..Len(s_todo)
      /\ \A i \in 1..Len(s_todo') : /\ i + 1 \in 1..Len(s_todo)
                                    /\ s_todo'[i] = s_todo[i + 1]
  BY DEF Cut
<1> QED
  BY <1>1, <1>2 DEF Coming

\* What the server decides to send when it receives a packet.
LEMMA ServerReceives_Todo ==
  ASSUME SessionInv, ServerReceives
  PROVE  \/ c2s[1].type = "KEXINIT" /\ ServerKexinit /\ UNCHANGED s_todo
         \/ c2s[1].type = "KEXDH_INIT" /\ ServerDh
         \/ c2s[1].type = "NEWKEYS" /\ ServerNewkeys /\ UNCHANGED s_todo
         \/ /\ c2s[1].type = "SERVICE_REQUEST" /\ ServerService
            /\ Extends(s_todo, s_todo', <<"SERVICE_ACCEPT">>)
         \/ /\ c2s[1].type = "USERAUTH_REQUEST" /\ ServerAuth
            /\ \/ Extends(s_todo, s_todo',
                          <<"USERAUTH_BANNER", "USERAUTH_SUCCESS">>)
               \/ Extends(s_todo, s_todo',
                          <<"USERAUTH_SUCCESS", "GLOBAL_REQUEST">>)
               \/ Extends(s_todo, s_todo', <<"USERAUTH_FAILURE">>)
         \/ /\ c2s[1].type = "CHANNEL_DATA" /\ ServerData
            /\ \/ Extends(s_todo, s_todo', <<"WINDOW_ADJUST", "CHANNEL_DATA">>)
               \/ Extends(s_todo, s_todo', <<"WINDOW_ADJUST">>)
         \/ /\ c2s[1].type \in {"WINDOW_ADJUST", "DISCONNECT"}
            /\ UNCHANGED <<s2c, server>>
<1>1. s_todo \in Seq(TodoTypes)
  BY DEF SessionInv, QueueInv
<1>2. /\ <<"USERAUTH_BANNER", "USERAUTH_SUCCESS">> \in Seq(TodoTypes)
      /\ <<"USERAUTH_SUCCESS", "GLOBAL_REQUEST">> \in Seq(TodoTypes)
      /\ <<"WINDOW_ADJUST">> \in Seq(TodoTypes)
      /\ <<"WINDOW_ADJUST", "CHANNEL_DATA">> \in Seq(TodoTypes)
      /\ "SERVICE_ACCEPT" \in TodoTypes /\ "USERAUTH_FAILURE" \in TodoTypes
  BY DEF TodoTypes, AuthTypes, AnswerTypes, DataTypes
<1>3. \A ts \in Seq(TodoTypes) : Extends(s_todo, s_todo \o ts, ts)
  BY <1>1, Concat_Extends
<1>4. \A t \in TodoTypes : Extends(s_todo, Append(s_todo, t), <<t>>)
  BY <1>1, Append_Extends
<1>5. CASE c2s[1].type = "SERVICE_REQUEST" /\ ServerService
  BY <1>2, <1>4, <1>5 DEF ServerService
<1>6. CASE c2s[1].type = "USERAUTH_REQUEST" /\ ServerAuth
  <2>1. CASE s_todo' = s_todo \o <<"USERAUTH_BANNER", "USERAUTH_SUCCESS">>
    BY <1>2, <1>3, <1>6, <2>1
  <2>2. CASE s_todo' = s_todo \o <<"USERAUTH_SUCCESS", "GLOBAL_REQUEST">>
    BY <1>2, <1>3, <1>6, <2>2
  <2>3. CASE s_todo' = Append(s_todo, "USERAUTH_FAILURE")
    BY <1>2, <1>4, <1>6, <2>3
  <2> QED
    BY <1>6, <2>1, <2>2, <2>3 DEF ServerAuth
<1>7. CASE c2s[1].type = "CHANNEL_DATA" /\ ServerData
  <2>1. CASE s_todo' = s_todo \o <<"WINDOW_ADJUST", "CHANNEL_DATA">>
    BY <1>2, <1>3, <1>7, <2>1
  <2>2. CASE s_todo' = s_todo \o <<"WINDOW_ADJUST">>
    BY <1>2, <1>3, <1>7, <2>2
  <2> QED
    BY <1>7, <2>1, <2>2 DEF ServerData
<1>8. CASE \/ c2s[1].type = "KEXINIT" /\ ServerKexinit
           \/ c2s[1].type = "KEXDH_INIT" /\ ServerDh
           \/ c2s[1].type = "NEWKEYS" /\ ServerNewkeys
           \/ /\ c2s[1].type \in {"WINDOW_ADJUST", "DISCONNECT"}
              /\ UNCHANGED <<s2c, server>>
  BY <1>8 DEF ServerKexinit, ServerNewkeys
<1> QED
  BY <1>5, <1>6, <1>7, <1>8, ServerReceives_Effect

\* Steps in which nobody goes on with the authentication.
LEMMA Auth_Frame ==
  ASSUME SessionInv, Live,
         UNCHANGED <<authenticated, service_state, auth_state>>,
         pc' \in {"start", "connect"} => pc \in {"start", "connect"},
         s_out' = 0 => s_out = 0,
         \A t \in RequestTypes :
             Asked(t)' => Asked(t) \/ (authenticated /\ t \in QueuedTypes),
         \A t \in AuthTypes : Coming(t)' => Coming(t),
         Once("SERVICE_REQUEST")', Once("USERAUTH_REQUEST")'
  PROVE  AuthInv'
<1>1. AuthInv
  BY DEF SessionInv
<1>2. Asked("SERVICE_REQUEST")' => Asked("SERVICE_REQUEST")
  BY DEF RequestTypes, QueuedTypes
<1>3. Asked("USERAUTH_REQUEST")' => Asked("USERAUTH_REQUEST")
  BY DEF RequestTypes, QueuedTypes
<1>4. Asked("CHANNEL_DATA")' \/ Asked("WINDOW_ADJUST")' => authenticated
  BY <1>1 DEF RequestTypes, QueuedTypes, AuthInv
<1>5. \A t \in AnswerTypes : Coming(t)' => Coming(t)
  BY DEF AuthTypes
<1>6. Coming("SERVICE_ACCEPT")' => Coming("SERVICE_ACCEPT")
  BY DEF AuthTypes
<1> QED
  BY <1>1, <1>2, <1>3, <1>4, <1>5, <1>6 DEF AuthInv

\* Nothing that the server has sent to authenticate comes twice or late.
LEMMA HeadIsFirst ==
  ASSUME SessionInv, Live, Cut(s2c, s2c'), UNCHANGED s_todo,
         s2c[1].type \in AuthTypes, NEW t \in AuthTypes, Coming(t)'
  PROVE  Rank(s2c[1].type) < Rank(t)
<1>1. /\ Len(s2c) \in Nat /\ Len(s2c) >= 1 /\ Len(s2c') = Len(s2c) - 1
      /\ \A i \in 1..Len(s2c') : s2c'[i] = s2c[i + 1]
  BY DEF Cut
<1>2. CASE \E i \in 1..Len(s2c') : s2c'[i].type = t
  <2>1. PICK i \in 1..Len(s2c') : s2c'[i].type = t
    BY <1>2
  <2>2. /\ i + 1 \in 1..Len(s2c) /\ 1 \in 1..Len(s2c) /\ 1 < i + 1
        /\ s2c[i + 1].type = t
    BY <1>1, <2>1
  <2>3. Before(s2c[1].type, s2c[i + 1].type)
    BY <2>2 DEF SessionInv, OrderInv
  <2> QED
    BY <2>2, <2>3 DEF Before
<1>3. CASE \E i \in 1..Len(s_todo) : s_todo[i] = t
  <2>1. PICK i \in 1..Len(s_todo) : s_todo[i] = t
    BY <1>3
  <2>2. Before(s2c[1].type, s_todo[i])
    BY <1>1, <2>1 DEF SessionInv, OrderInv
  <2> QED
    BY <2>1, <2>2 DEF Before
<1> QED
  BY <1>2, <1>3 DEF Coming

\* The client that waits for the service or for an answer has new keys.
LEMMA KeysInUse ==
  ASSUME SessionInv, Live,
         authenticated \/ service_state # "NONE" \/ auth_state # "NONE"
  PROVE  s_out # 0
<1>1. in_key > 0
  BY DEF SessionInv, StateInv, AuthInv
<1> QED
  BY <1>1 DEF SessionInv, ServerKexInv, TypeOK

\* A packet that the client sends and that is no request.
LEMMA Auth_Added ==
  ASSUME SessionInv, Live, NEW t, NEW k, Added(c2s, c2s', t, k),
         t \in RequestTypes => authenticated /\ t \in QueuedTypes,
         UNCHANGED <<authenticated, service_state, auth_state, s_out, s2c,
                     s_todo>>,
         pc' \in {"start", "connect"} => pc \in {"start", "connect"}
  PROVE  AuthInv'
<1>1. /\ \A u : Asked(u)' => Asked(u) \/ u = t
      /\ \A u : Once(u) /\ (u = t => ~Asked(u)) => Once(u)'
  BY Asked_Added
<1>2. t \notin {"SERVICE_REQUEST", "USERAUTH_REQUEST"}
  BY DEF RequestTypes, QueuedTypes
<1>3. Once("SERVICE_REQUEST")' /\ Once("USERAUTH_REQUEST")'
  BY <1>1, <1>2 DEF SessionInv, AuthInv
<1>4. \A u : Coming(u)' => Coming(u)
  BY DEF Coming
<1> QED
  BY <1>1, <1>3, <1>4, Auth_Frame

LEMMA Auth_Same ==
  ASSUME SessionInv, Live,
         UNCHANGED <<c2s, authenticated, service_state, auth_state, s_out, s2c,
                     s_todo>>,
         pc' \in {"start", "connect"} => pc \in {"start", "connect"}
  PROVE  AuthInv'
<1>1. \A u : (Coming(u)' => Coming(u)) /\ (Asked(u)' => Asked(u))
             /\ (Once(u) => Once(u)')
  BY DEF Coming, Asked, Once
<1>2. Once("SERVICE_REQUEST")' /\ Once("USERAUTH_REQUEST")'
  BY <1>1 DEF SessionInv, AuthInv
<1> QED
  BY <1>1, <1>2, Auth_Frame

\* The calls of the thread.
LEMMA AuthInv_Call ==
  ASSUME SessionInv, Live, Live', Call
  PROVE  AuthInv'
<1>0. AuthInv /\ StateInv
  BY DEF SessionInv
<1>1. CASE \/ connect_fails \/ import_fails \/ auth_succeeds
           \/ channel_write_begins \/ channel_write_unblocked
           \/ channel_write_returns \/ channel_read_fails
  <2>1. /\ UNCHANGED <<c2s, s2c, session, server>>
        /\ pc' \notin {"start", "connect"}
    BY <1>1
    DEF Keep, connect_fails, import_fails, auth_succeeds,
        channel_write_begins, channel_write_unblocked, channel_write_returns,
        channel_read_fails
  <2> QED
    BY <2>1, Auth_Same
<1>2. CASE ssh_connect
  <2>1. Added(c2s, c2s', "KEXINIT", out_key)
    BY <1>2, packet_send2_Sent DEF ssh_connect, ClientTypes
  <2>2. UNCHANGED <<s2c, server, authenticated, auths>> /\ pc = "start"
    BY <1>2 DEF ssh_connect, Keep, Runs
  <2>3. "KEXINIT" \notin RequestTypes
    BY DEF RequestTypes, QueuedTypes
  <2> QED
    BY <2>1, <2>2, <2>3, Auth_Added
<1>3. CASE auth_fails \/ ssh_disconnect
  <2>1. Added(c2s, c2s', "DISCONNECT", out_key)
    BY <1>3, packet_send2_Sent DEF auth_fails, ssh_disconnect, ClientTypes
  <2>2. UNCHANGED <<s2c, server, session>> /\ pc' = "end"
    BY <1>3 DEF auth_fails, ssh_disconnect, Keep
  <2>3. "DISCONNECT" \notin RequestTypes
    BY DEF RequestTypes, QueuedTypes
  <2> QED
    BY <2>1, <2>2, <2>3, Auth_Added
<1>4. CASE channel_write \/ channel_read
  <2>1. /\ pc \in {"write", "read"} /\ pc' \in {"write", "work"}
        /\ UNCHANGED <<s2c, server, authenticated, auths>>
    BY <1>4 DEF channel_write, channel_read, Runs, Keep
  <2>2. authenticated
    BY <1>0, <2>1 DEF StateInv
  <2>3. \/ \E t \in QueuedTypes : ssh_packet_send(t)
        \/ Keeps
    BY <1>4 DEF channel_write, channel_read, QueuedTypes, Keeps
  <2>4. Keeps \/ Rekexed \/ \E t \in QueuedTypes : Says(t)
    BY <2>2, <2>3, ssh_packet_send_Effect
  <2>5. CASE Keeps
    BY <2>1, <2>5, Auth_Same DEF Keeps
  <2>6. CASE Rekexed
    <3>1. "KEXINIT" \notin RequestTypes
      BY DEF RequestTypes, QueuedTypes
    <3> QED
      BY <2>1, <2>6, <3>1, Auth_Added DEF Rekexed
  <2>7. CASE \E t \in QueuedTypes : Says(t)
    BY <2>1, <2>2, <2>7, Auth_Added DEF Says
  <2> QED
    BY <2>4, <2>5, <2>6, <2>7
<1>5. CASE ssh_userauth_request_service
  <2>1. Added(c2s, c2s', "SERVICE_REQUEST", out_key)
    BY <1>5, packet_send2_Sent DEF ssh_userauth_request_service, ClientTypes
  <2>2. /\ UNCHANGED <<s2c, server, states, auth_state>>
        /\ service_state' = "SENT" /\ pc = "connect" /\ pc' = "service"
    BY <1>5 DEF ssh_userauth_request_service, Runs, Keep
  <2>3. /\ service_state = "NONE" /\ auth_state = "NONE" /\ ~authenticated
        /\ ~Asked("SERVICE_REQUEST") /\ ~Coming("SERVICE_ACCEPT")
        /\ Once("SERVICE_REQUEST") /\ Once("USERAUTH_REQUEST")
    BY <1>0, <2>2 DEF AuthInv, StateInv
  <2>4. \A u : Coming(u)' = Coming(u)
    BY <2>2 DEF Coming
  <2>5. \A u : Asked(u)' => Asked(u) \/ u = "SERVICE_REQUEST"
    BY <2>1, Asked_Added
  <2>6. Once("SERVICE_REQUEST")' /\ Once("USERAUTH_REQUEST")'
    BY <2>1, <2>3, Asked_Added
  <2>7. /\ ~Asked("USERAUTH_REQUEST")' /\ ~Asked("CHANNEL_DATA")'
        /\ ~Asked("WINDOW_ADJUST")'
    BY <1>0, <2>3, <2>5 DEF AuthInv
  <2>8. ~Coming("SERVICE_ACCEPT")'
    BY <2>3, <2>4
  <2>9. \A t \in AnswerTypes : ~Coming(t)'
    BY <1>0, <2>3, <2>4 DEF AuthInv
  <2>10. s_out' = 0 => \A t \in AuthTypes : ~Coming(t)'
    BY <1>0, <2>2, <2>4 DEF AuthInv
  <2> QED
    BY <2>2, <2>3, <2>6, <2>7, <2>8, <2>9, <2>10 DEF AuthInv
<1>6. CASE ssh_userauth_publickey
  <2>1. Added(c2s, c2s', "USERAUTH_REQUEST", out_key)
    BY <1>6, packet_send2_Sent DEF ssh_userauth_publickey, ClientTypes
  <2>2. /\ UNCHANGED <<s2c, server, states, service_state>>
        /\ service_state = "ACCEPTED" /\ auth_state' = "PUBKEY_AUTH_SENT"
        /\ pc = "service" /\ pc' = "auth"
    BY <1>6 DEF ssh_userauth_publickey, Runs, Keep
  <2>3. /\ auth_state = "NONE" /\ ~authenticated
        /\ ~Asked("USERAUTH_REQUEST") /\ ~Asked("SERVICE_REQUEST")
        /\ ~Coming("SERVICE_ACCEPT")
        /\ Once("SERVICE_REQUEST") /\ Once("USERAUTH_REQUEST")
    BY <1>0, <2>2 DEF AuthInv, StateInv
  <2>4. \A u : Coming(u)' = Coming(u)
    BY <2>2 DEF Coming
  <2>5. \A u : Asked(u)' => Asked(u) \/ u = "USERAUTH_REQUEST"
    BY <2>1, Asked_Added
  <2>6. Once("SERVICE_REQUEST")' /\ Once("USERAUTH_REQUEST")'
    BY <2>1, <2>3, Asked_Added
  <2>7. /\ ~Asked("SERVICE_REQUEST")' /\ ~Asked("CHANNEL_DATA")'
        /\ ~Asked("WINDOW_ADJUST")'
    BY <1>0, <2>3, <2>5 DEF AuthInv
  <2>8. ~Coming("SERVICE_ACCEPT")'
    BY <2>3, <2>4
  <2>9. \A t \in AnswerTypes : ~Coming(t)'
    BY <1>0, <2>3, <2>4 DEF AuthInv
  <2>10. s_out' = 0 => \A t \in AuthTypes : ~Coming(t)'
    BY <1>0, <2>2, <2>4 DEF AuthInv
  <2> QED
    BY <2>2, <2>3, <2>6, <2>7, <2>8, <2>9, <2>10 DEF AuthInv
<1> QED
  BY <1>1, <1>2, <1>3, <1>4, <1>5, <1>6 DEF Call

\* A packet that the client handles and that does not authenticate it.
LEMMA Auth_Cut ==
  ASSUME SessionInv, Live, Cut(s2c, s2c'),
         UNCHANGED <<authenticated, service_state, auth_state, s_out, pc,
                     s_todo>>,
         \A t \in RequestTypes :
             Asked(t)' => Asked(t) \/ (authenticated /\ t \in QueuedTypes),
         \A t \in {"SERVICE_REQUEST", "USERAUTH_REQUEST"} : Once(t) => Once(t)'
  PROVE  AuthInv'
<1>1. \A t : Coming(t)' => Coming(t)
  BY Coming_Cut
<1>2. Once("SERVICE_REQUEST")' /\ Once("USERAUTH_REQUEST")'
  BY DEF SessionInv, AuthInv
<1> QED
  BY <1>1, <1>2, Auth_Frame

\* The packet handlers.
LEMMA AuthInv_Callback ==
  ASSUME SessionInv, Live', ssh_packet_socket_callback
  PROVE  AuthInv'
<1> DEFINE p == s2c[1]
<1>0. AuthInv /\ StateInv
  BY DEF SessionInv
<1>1. /\ Live /\ s2c # <<>> /\ Cut(s2c, s2c') /\ Handle(p)
      /\ ssh_packet_incoming_filter(p.type)
      /\ UNCHANGED <<pc, calls, len, handles, server>>
  BY Callback
<1>2. /\ \A t : Coming(t)' => Coming(t)
      /\ Coming(p.type)
  BY <1>1, Coming_Cut
<1>3. ASSUME UNCHANGED c2s
      PROVE  \A t : Asked(t)' = Asked(t) /\ Once(t)' = Once(t)
  BY <1>3 DEF Asked, Once
<1>4. ASSUME NEW t, NEW k, Added(c2s, c2s', t, k),
             t \in RequestTypes => authenticated /\ t \in QueuedTypes,
             UNCHANGED <<authenticated, service_state, auth_state>>
      PROVE  AuthInv'
  <2>1. /\ \A u : Asked(u)' => Asked(u) \/ u = t
        /\ \A u : Once(u) /\ (u = t => ~Asked(u)) => Once(u)'
    BY <1>4, Asked_Added
  <2>2. t \notin {"SERVICE_REQUEST", "USERAUTH_REQUEST"}
    BY <1>4 DEF RequestTypes, QueuedTypes
  <2> QED
    BY <1>1, <1>4, <2>1, <2>2, Auth_Cut
<1>5. "KEXINIT" \notin RequestTypes /\ "KEXDH_INIT" \notin RequestTypes
      /\ "NEWKEYS" \notin RequestTypes
  BY DEF RequestTypes, QueuedTypes
<1>6. CASE \/ ssh_packet_ignore_callback(p)
           \/ ssh_packet_newkeys(p)
           \/ channel_rcv_change_window(p)
  <2>1. UNCHANGED <<c2s, authenticated, auths>>
    BY <1>6
    DEF ssh_packet_ignore_callback, ssh_packet_newkeys,
        channel_rcv_change_window
  <2> QED
    BY <1>1, <1>3, <2>1, Auth_Cut
<1>7. CASE ssh_packet_kexinit(p)
  <2>1. UNCHANGED <<authenticated, auths>>
    BY <1>7 DEF ssh_packet_kexinit
  <2>2. CASE client_kex
    <3>1. packet_send2(<<"KEXDH_INIT">>)
      BY <1>7, <2>2 DEF ssh_packet_kexinit, ssh_client_connection_callback
    <3>2. Added(c2s, c2s', "KEXDH_INIT", out_key)
      BY <1>1, <3>1, packet_send2_Sent DEF ClientTypes
    <3> QED
      BY <1>4, <1>5, <2>1, <3>2
  <2>3. CASE ~client_kex
    <3>1. c2s' = c2s \o Packets(<<"KEXINIT", "KEXDH_INIT">>, out_key)
      BY <1>1, <1>7, <2>3
      DEF ssh_packet_kexinit, ssh_client_connection_callback, packet_send2,
          Live
    <3>2. /\ c2s \in Seq(ClientPackets)
          /\ [type |-> "KEXINIT", key |-> out_key] \in ClientPackets
          /\ [type |-> "KEXDH_INIT", key |-> out_key] \in ClientPackets
      BY DEF SessionInv, QueueInv, TypeOK, ClientPackets, ClientTypes
    <3>3. /\ Len(c2s) \in Nat /\ Len(c2s') = Len(c2s) + 2
          /\ \A i \in 1..Len(c2s) : c2s'[i] = c2s[i]
          /\ c2s'[Len(c2s) + 1].type = "KEXINIT"
          /\ c2s'[Len(c2s) + 2].type = "KEXDH_INIT"
      BY <3>1, <3>2, TwoPackets_Sent
    <3>4. \A i \in 1..Len(c2s') : \/ i \in 1..Len(c2s)
                                  \/ c2s'[i].type \in {"KEXINIT", "KEXDH_INIT"}
      BY <3>3
    <3>5. \A t \in RequestTypes : Asked(t)' => Asked(t)
      BY <1>5, <3>3, <3>4 DEF Asked
    <3>6. \A t \in RequestTypes : Once(t) => Once(t)'
      BY <1>5, <3>3, <3>4 DEF Once
    <3> QED
      BY <1>1, <2>1, <3>5, <3>6, Auth_Cut DEF RequestTypes
  <2> QED
    BY <2>2, <2>3
<1>8. CASE ssh_packet_client_dh_reply(p)
  <2>1. UNCHANGED <<authenticated, auths>>
    BY <1>8 DEF ssh_packet_client_dh_reply
  <2>2. /\ Len(out_queue) \in Nat /\ Len(c2s') = Len(out_queue) + 1
        /\ c2s'[1].type = "NEWKEYS"
        /\ \A i \in 1..Len(out_queue) : c2s'[i + 1].type = out_queue[i]
    BY <1>8, ssh_packet_client_dh_reply_Kex
  <2>3. out_queue \in Seq(QueuedTypes)
    BY DEF SessionInv, QueueInv
  <2>4. \A i \in 1..Len(out_queue) : out_queue[i] \in QueuedTypes
    BY <2>3, ElementOfSeq
  <2>5. \A i \in 1..Len(c2s') :
            /\ c2s'[i].type \in {"NEWKEYS"} \cup QueuedTypes
            /\ i # 1 => authenticated
    <3> SUFFICES ASSUME NEW i \in 1..Len(c2s'), i # 1
                 PROVE  c2s'[i].type \in QueuedTypes /\ authenticated
      BY <2>2
    <3>1. i - 1 \in 1..Len(out_queue) /\ (i - 1) + 1 = i
      BY <2>2
    <3>2. c2s'[i].type \in QueuedTypes
      BY <2>2, <2>4, <3>1
    <3>3. out_queue # <<>>
      BY <3>1
    <3> QED
      BY <1>0, <1>1, <3>2, <3>3 DEF StateInv
  <2>6. \A t \in RequestTypes :
            Asked(t)' => authenticated /\ t \in QueuedTypes
    BY <1>5, <2>2, <2>5 DEF Asked
  <2>7. \A t \in {"SERVICE_REQUEST", "USERAUTH_REQUEST"} : Once(t)'
    BY <2>5 DEF Once, QueuedTypes
  <2> QED
    BY <1>1, <2>1, <2>6, <2>7, Auth_Cut
<1>9. CASE channel_rcv_data(p)
  <2>1. session_state = "AUTHENTICATED" /\ UNCHANGED <<authenticated, auths>>
    BY <1>1, <1>9
    DEF channel_rcv_data, ssh_packet_incoming_filter, filter_transport,
        filter_kex, filter_auth, filter_connection
  <2>2. authenticated
    BY <1>0, <1>1, <2>1 DEF StateInv
  <2>3. \/ \E t \in QueuedTypes : ssh_packet_send(t)
        \/ Keeps
    BY <1>9 DEF channel_rcv_data, QueuedTypes, Keeps
  <2>4. Keeps \/ Rekexed \/ \E t \in QueuedTypes : Says(t)
    BY <1>1, <2>2, <2>3, ssh_packet_send_Effect
  <2>5. CASE Keeps
    BY <1>1, <1>3, <2>1, <2>5, Auth_Cut DEF Keeps
  <2>6. CASE Rekexed
    BY <1>4, <1>5, <2>1, <2>6 DEF Rekexed
  <2>7. CASE \E t \in QueuedTypes : Says(t)
    BY <1>4, <2>1, <2>2, <2>7 DEF Says
  <2> QED
    BY <2>4, <2>5, <2>6, <2>7
<1>10. CASE ssh_packet_service_accept(p)
  <2>1. /\ p.type = "SERVICE_ACCEPT" /\ service_state' = "ACCEPTED"
        /\ UNCHANGED <<c2s, authenticated, auth_state>>
    BY <1>10 DEF ssh_packet_service_accept
  <2>2. /\ service_state = "SENT" /\ auth_state = "NONE"
        /\ ~authenticated
        /\ pc \notin {"start", "connect"}
    BY <1>0, <1>1, <1>2, <2>1 DEF AuthInv, StateInv
  <2>3. /\ ~Asked("SERVICE_REQUEST")' /\ ~Asked("USERAUTH_REQUEST")'
        /\ ~Asked("CHANNEL_DATA")' /\ ~Asked("WINDOW_ADJUST")'
        /\ Once("SERVICE_REQUEST")' /\ Once("USERAUTH_REQUEST")'
    BY <1>0, <1>1, <1>2, <1>3, <2>1, <2>2 DEF AuthInv
  <2>4. ~Coming("SERVICE_ACCEPT")'
    BY <1>1, <2>1, HeadIsFirst DEF AuthTypes, Rank
  <2>5. \A t \in AnswerTypes : ~Coming(t)'
    BY <1>0, <1>1, <1>2, <2>2 DEF AuthInv
  <2>6. s_out' = 0 => \A t \in AuthTypes : ~Coming(t)'
    BY <1>0, <1>1, <1>2 DEF AuthInv
  <2> QED
    BY <1>1, <2>1, <2>2, <2>3, <2>4, <2>5, <2>6 DEF AuthInv
<1>11. CASE ssh_packet_userauth_success(p) \/ ssh_packet_userauth_failure(p)
  <2>1. /\ p.type \in {"USERAUTH_SUCCESS", "USERAUTH_FAILURE"}
        /\ UNCHANGED <<c2s, service_state>>
        /\ authenticated' => authenticated \/ ssh_packet_userauth_success(p)
    BY <1>11 DEF ssh_packet_userauth_success, ssh_packet_userauth_failure
  <2>2. p.type \in AuthTypes /\ p.type \in AnswerTypes
    BY <2>1 DEF AuthTypes, AnswerTypes
  <2>3. /\ auth_state = "PUBKEY_AUTH_SENT" /\ ~authenticated
        /\ service_state = "ACCEPTED" /\ pc \notin {"start", "connect"}
    BY <1>0, <1>1, <1>2, <2>2 DEF AuthInv, StateInv
  <2>4. \A t \in AuthTypes : ~Coming(t)'
    <3> SUFFICES ASSUME NEW t \in AuthTypes, Coming(t)' PROVE FALSE
      OBVIOUS
    <3>1. Rank(p.type) < Rank(t)
      BY <1>1, <2>2, HeadIsFirst
    <3>2. Rank(p.type) = 4
      BY <2>1 DEF Rank
    <3>3. Rank(t) \in 0..4
      BY DEF Rank, AuthTypes, AnswerTypes
    <3> QED
      BY <3>1, <3>2, <3>3
  <2>5. /\ ~Asked("SERVICE_REQUEST")' /\ ~Asked("USERAUTH_REQUEST")'
        /\ ~Asked("CHANNEL_DATA")' /\ ~Asked("WINDOW_ADJUST")'
        /\ Once("SERVICE_REQUEST")' /\ Once("USERAUTH_REQUEST")'
    BY <1>0, <1>1, <1>2, <1>3, <2>1, <2>2, <2>3 DEF AuthInv
  <2>6. ~Coming("SERVICE_ACCEPT")' /\ \A t \in AnswerTypes : ~Coming(t)'
    BY <2>4 DEF AuthTypes
  <2> QED
    BY <1>1, <2>1, <2>3, <2>4, <2>5, <2>6 DEF AuthInv
<1>12. ~ssh_packet_disconnect_callback(p)
  BY DEF ssh_packet_disconnect_callback, Error, Live
<1> QED
  BY <1>1, <1>6, <1>7, <1>8, <1>9, <1>10, <1>11, <1>12 DEF Handle

\* The server.
LEMMA AuthInv_ServerReceives ==
  ASSUME SessionInv, ServerReceives
  PROVE  AuthInv'
<1>0. AuthInv /\ StateInv
  BY DEF SessionInv
<1>1. /\ Live /\ c2s # <<>> /\ Cut(c2s, c2s') /\ UNCHANGED Client
  BY ServerReceives_Effect
<1>2. /\ \A t : Asked(t)' => Asked(t)
      /\ \A t : Once(t) => Once(t)'
      /\ Asked(c2s[1].type)
      /\ \A t : t = c2s[1].type /\ Once(t) => ~Asked(t)'
  BY <1>1, Asked_Cut
<1>3. Once("SERVICE_REQUEST")' /\ Once("USERAUTH_REQUEST")'
  BY <1>0, <1>1, <1>2 DEF AuthInv
<1>4. UNCHANGED <<authenticated, service_state, auth_state, pc>>
  BY <1>1 DEF Client
<1>5. ASSUME s_out' = 0 => s_out = 0,
             \A t \in AuthTypes : Coming(t)' => Coming(t)
      PROVE  AuthInv'
  BY <1>1, <1>2, <1>3, <1>4, <1>5, Auth_Frame
<1>6. CASE c2s[1].type = "KEXINIT" /\ ServerKexinit /\ UNCHANGED s_todo
  <2>1. UNCHANGED s_out /\ (UNCHANGED s2c \/ SSend(<<"KEXINIT">>))
    BY <1>6 DEF ServerKexinit
  <2>2. UNCHANGED s2c \/ Added(s2c, s2c', "KEXINIT", s_out)
    BY <2>1, SSend_Sent DEF ServerTypes
  <2>3. \A t : Coming(t)' => Coming(t) \/ t = "KEXINIT"
    <3>1. CASE UNCHANGED s2c
      BY <1>6, <3>1 DEF Coming
    <3> QED
      BY <1>6, <2>2, <3>1, Coming_Added
  <2> QED
    BY <1>5, <2>1, <2>3 DEF AuthTypes, AnswerTypes
<1>7. CASE \/ c2s[1].type = "NEWKEYS" /\ ServerNewkeys /\ UNCHANGED s_todo
           \/ UNCHANGED <<s2c, server>>
  <2>1. UNCHANGED <<s2c, s_todo, s_out>>
    BY <1>7 DEF ServerNewkeys
  <2> QED
    BY <1>5, <2>1 DEF Coming
<1>8. CASE /\ c2s[1].type = "CHANNEL_DATA" /\ ServerData
           /\ \/ Extends(s_todo, s_todo', <<"WINDOW_ADJUST", "CHANNEL_DATA">>)
              \/ Extends(s_todo, s_todo', <<"WINDOW_ADJUST">>)
  <2>1. UNCHANGED <<s2c, s_out>>
    BY <1>8 DEF ServerData
  <2>2. CASE Extends(s_todo, s_todo', <<"WINDOW_ADJUST", "CHANNEL_DATA">>)
    <3>1. \A t : Coming(t)' => Coming(t) \/ t \in DataTypes
      BY <2>1, <2>2, Coming_Extends DEF DataTypes
    <3> QED
      BY <1>5, <2>1, <3>1 DEF AuthTypes, AnswerTypes, DataTypes
  <2>3. CASE Extends(s_todo, s_todo', <<"WINDOW_ADJUST">>)
    <3>1. \A t : Coming(t)' => Coming(t) \/ t \in DataTypes
      BY <2>1, <2>3, Coming_Extends DEF DataTypes
    <3> QED
      BY <1>5, <2>1, <3>1 DEF AuthTypes, AnswerTypes, DataTypes
  <2> QED
    BY <1>8, <2>2, <2>3
<1>9. CASE c2s[1].type = "KEXDH_INIT" /\ ServerDh
  <2>1. /\ s_out' = s_out + 1
        /\ s_todo' = IF s_out = 0 THEN <<"EXT_INFO">> ELSE s_todo
    BY <1>9 DEF ServerDh
  <2>2. /\ Len(s2c') = 2 /\ s2c'[1].type = "KEXDH_REPLY"
        /\ s2c'[2].type = "NEWKEYS"
    BY <1>9, ServerDh_Kex
  <2>3. \A t \in AuthTypes :
          Coming(t)' => \E i \in 1..Len(s_todo') : s_todo'[i] = t
    BY <2>2 DEF Coming, AuthTypes, AnswerTypes
  <2>4. s_out' # 0
    BY <2>1 DEF SessionInv, TypeOK
  <2>5. CASE s_out # 0
    BY <1>5, <2>1, <2>3, <2>4, <2>5 DEF Coming
  <2>6. CASE s_out = 0
    <3>1. s_todo' = <<"EXT_INFO">>
      BY <2>1, <2>6
    <3>2. \A t \in AuthTypes : Coming(t)' => t = "EXT_INFO"
      BY <2>3, <3>1
    <3>3. ~authenticated
      BY <1>1, <2>6, KeysInUse
    <3>4. ~Coming("SERVICE_ACCEPT")' /\ \A t \in AnswerTypes : ~Coming(t)'
      BY <3>2 DEF AuthTypes, AnswerTypes
    <3> QED
      BY <1>0, <1>1, <1>2, <1>3, <1>4, <2>4, <3>3, <3>4 DEF AuthInv
  <2> QED
    BY <2>5, <2>6
<1>10. CASE /\ c2s[1].type = "SERVICE_REQUEST" /\ ServerService
            /\ Extends(s_todo, s_todo', <<"SERVICE_ACCEPT">>)
  <2>1. UNCHANGED <<s2c, s_out>>
    BY <1>10 DEF ServerService
  <2>2. \A t : Coming(t)' => Coming(t) \/ t = "SERVICE_ACCEPT"
    BY <1>10, <2>1, Coming_Extends
  <2>3. ~Asked("SERVICE_REQUEST")'
    BY <1>0, <1>1, <1>2, <1>10 DEF AuthInv
  <2>4. service_state = "SENT" /\ ~authenticated
    BY <1>0, <1>1, <1>2, <1>10 DEF AuthInv, StateInv
  <2>5. s_out' # 0
    BY <1>1, <2>1, <2>4, KeysInUse
  <2>6. \A t \in AnswerTypes : Coming(t)' => Coming(t)
    BY <2>2 DEF AnswerTypes
  <2> QED
    BY <1>0, <1>1, <1>2, <1>3, <1>4, <2>3, <2>4, <2>5, <2>6 DEF AuthInv
<1>11. CASE /\ c2s[1].type = "USERAUTH_REQUEST" /\ ServerAuth
            /\ \/ Extends(s_todo, s_todo',
                          <<"USERAUTH_BANNER", "USERAUTH_SUCCESS">>)
               \/ Extends(s_todo, s_todo',
                          <<"USERAUTH_SUCCESS", "GLOBAL_REQUEST">>)
               \/ Extends(s_todo, s_todo', <<"USERAUTH_FAILURE">>)
  <2>1. UNCHANGED <<s2c, s_out>>
    BY <1>11 DEF ServerAuth
  <2>2. \A t : Coming(t)' => Coming(t) \/ t \in AnswerTypes \/ t \in DataTypes
    <3>1. CASE Extends(s_todo, s_todo',
                       <<"USERAUTH_BANNER", "USERAUTH_SUCCESS">>)
      BY <2>1, <3>1, Coming_Extends DEF AnswerTypes
    <3>2. CASE Extends(s_todo, s_todo',
                       <<"USERAUTH_SUCCESS", "GLOBAL_REQUEST">>)
      BY <2>1, <3>2, Coming_Extends DEF AnswerTypes, DataTypes
    <3>3. CASE Extends(s_todo, s_todo', <<"USERAUTH_FAILURE">>)
      BY <2>1, <3>3, Coming_Extends DEF AnswerTypes
    <3> QED
      BY <1>11, <3>1, <3>2, <3>3
  <2>3. ~Asked("USERAUTH_REQUEST")'
    BY <1>0, <1>1, <1>2, <1>11 DEF AuthInv
  <2>4. auth_state = "PUBKEY_AUTH_SENT" /\ ~authenticated
        /\ service_state = "ACCEPTED"
    BY <1>0, <1>1, <1>2, <1>11 DEF AuthInv, StateInv
  <2>5. s_out' # 0
    BY <1>1, <2>1, <2>4, KeysInUse
  <2>6. Coming("SERVICE_ACCEPT")' => Coming("SERVICE_ACCEPT")
    BY <2>2 DEF AnswerTypes, DataTypes
  <2> QED
    BY <1>0, <1>1, <1>2, <1>3, <1>4, <2>3, <2>4, <2>5, <2>6 DEF AuthInv
<1> QED
  BY <1>6, <1>7, <1>8, <1>9, <1>10, <1>11, ServerReceives_Todo

\* The authentication, over all steps.
LEMMA AuthInv_Step ==
  ASSUME SessionInv, [Next]_vars
  PROVE  AuthInv'
<1> SUFFICES ASSUME Live' PROVE AuthInv'
  BY DEF AuthInv
<1>1. Live
  BY ErrorStays
<1>2. CASE incoming_rekey
  <2>1. /\ Rekexed
        /\ UNCHANGED <<s2c, authenticated, auths, thread, server>>
    BY <1>1, <1>2, ssh_send_rekex_Effect DEF incoming_rekey
  <2>2. "KEXINIT" \notin RequestTypes
    BY DEF RequestTypes, QueuedTypes
  <2> QED
    BY <1>1, <2>1, <2>2, Auth_Added DEF Rekexed
<1>3. CASE connect_timeout \/ ConnectionLost
  BY <1>3 DEF connect_timeout, ConnectionLost, Error, Live
<1>4. CASE ServerSends \/ ServerRekeys \/ ServerDisconnects
  <2>1. UNCHANGED <<c2s, Client, s_out>>
    BY <1>4 DEF ServerSends, ServerRekeys, ServerDisconnects
  <2>2. \A t \in AuthTypes : Coming(t)' => Coming(t)
    <3>1. CASE ServerSends
      BY <3>1, ServerSends_Effect, Coming_Sends
    <3>2. CASE ServerRekeys \/ ServerDisconnects
      <4>1. PICK t \in {"KEXINIT", "DISCONNECT"} :
                SSend(<<t>>) /\ UNCHANGED s_todo
        BY <3>2 DEF ServerRekeys, ServerDisconnects
      <4>2. Added(s2c, s2c', t, s_out)
        BY <4>1, SSend_Sent DEF ServerTypes
      <4> QED
        BY <4>1, <4>2, Coming_Added DEF AuthTypes, AnswerTypes
    <3> QED
      BY <1>4, <3>1, <3>2
  <2>3. \A u : Asked(u)' = Asked(u) /\ Once(u)' = Once(u)
    BY <2>1 DEF Asked, Once
  <2>4. Once("SERVICE_REQUEST")' /\ Once("USERAUTH_REQUEST")'
    BY <1>1, <2>3 DEF SessionInv, AuthInv
  <2> QED
    BY <1>1, <2>1, <2>2, <2>3, <2>4, Auth_Frame DEF Client
<1>5. CASE UNCHANGED vars
  BY <1>1, <1>5, Auth_Same
<1> QED
  BY <1>1, <1>2, <1>3, <1>4, <1>5, AuthInv_Call, AuthInv_Callback,
     AuthInv_ServerReceives
  DEF Next, Stopped

-----------------------------------------------------------------------------
(* The order of what the server sends *)

LEMMA Order_Cut ==
  ASSUME SessionInv, Live, Cut(s2c, s2c'), UNCHANGED s_todo
  PROVE  OrderInv'
<1>1. /\ Len(s2c) \in Nat /\ Len(s2c) >= 1 /\ Len(s2c') = Len(s2c) - 1
      /\ \A i \in 1..Len(s2c') : s2c'[i] = s2c[i + 1] /\ i + 1 \in 1..Len(s2c)
  BY DEF Cut
<1>2. \A i, j \in 1..Len(s2c') : i < j => i + 1 < j + 1
  BY <1>1
<1>3. \A i, j \in 1..Len(s2c') : i < j => Before(s2c'[i].type, s2c'[j].type)
  BY <1>1, <1>2 DEF SessionInv, OrderInv
<1>4. \A i \in 1..Len(s2c'), j \in 1..Len(s_todo) :
          Before(s2c'[i].type, s_todo[j])
  BY <1>1 DEF SessionInv, OrderInv
<1> QED
  BY <1>3, <1>4 DEF SessionInv, OrderInv

\* A packet that does not authenticate may come at any time.
LEMMA Order_Added ==
  ASSUME SessionInv, Live, NEW t, NEW k, t \notin AuthTypes,
         Added(s2c, s2c', t, k), UNCHANGED s_todo
  PROVE  OrderInv'
<1>1. /\ Len(s2c) \in Nat /\ Len(s2c') = Len(s2c) + 1
      /\ \A i \in 1..Len(s2c) : s2c'[i] = s2c[i]
      /\ s2c'[Len(s2c) + 1].type = t
      /\ \A i \in 1..Len(s2c') : i \in 1..Len(s2c) \/ i = Len(s2c) + 1
  BY DEF Added
<1>2. \A u : Before(u, t) /\ Before(t, u)
  BY DEF Before
<1>3. \A i, j \in 1..Len(s2c') : i < j => Before(s2c'[i].type, s2c'[j].type)
  BY <1>1, <1>2 DEF SessionInv, OrderInv
<1>4. \A i \in 1..Len(s2c'), j \in 1..Len(s_todo) :
          Before(s2c'[i].type, s_todo[j])
  BY <1>1, <1>2 DEF SessionInv, OrderInv
<1> QED
  BY <1>3, <1>4 DEF SessionInv, OrderInv

\* The server sends the first packet of those it has to send.
LEMMA Order_Sends ==
  ASSUME SessionInv, Live, NEW k,
         Cut(s_todo, s_todo'), Added(s2c, s2c', s_todo[1], k)
  PROVE  OrderInv'
<1>1. /\ Len(s2c) \in Nat /\ Len(s2c') = Len(s2c) + 1
      /\ \A i \in 1..Len(s2c) : s2c'[i] = s2c[i]
      /\ s2c'[Len(s2c) + 1].type = s_todo[1]
      /\ \A i \in 1..Len(s2c') : i \in 1..Len(s2c) \/ i = Len(s2c) + 1
  BY DEF Added
<1>2. /\ 1 \in 1..Len(s_todo)
      /\ \A i \in 1..Len(s_todo') : /\ s_todo'[i] = s_todo[i + 1]
                                    /\ i + 1 \in 1..Len(s_todo) /\ 1 < i + 1
      /\ \A i, j \in 1..Len(s_todo') : i < j => i + 1 < j + 1
  BY DEF Cut
<1>3. /\ \A i, j \in 1..Len(s2c) : i < j => Before(s2c[i].type, s2c[j].type)
      /\ \A i, j \in 1..Len(s_todo) : i < j => Before(s_todo[i], s_todo[j])
      /\ \A i \in 1..Len(s2c), j \in 1..Len(s_todo) :
             Before(s2c[i].type, s_todo[j])
  BY DEF SessionInv, OrderInv
<1>4. \A i, j \in 1..Len(s2c') : i < j => Before(s2c'[i].type, s2c'[j].type)
  <2> SUFFICES ASSUME NEW i \in 1..Len(s2c'), NEW j \in 1..Len(s2c'), i < j
               PROVE  Before(s2c'[i].type, s2c'[j].type)
    OBVIOUS
  <2>1. i \in 1..Len(s2c)
    BY <1>1
  <2> QED
    BY <1>1, <1>2, <1>3, <2>1
<1>5. \A i, j \in 1..Len(s_todo') : i < j => Before(s_todo'[i], s_todo'[j])
  BY <1>2, <1>3
<1>6. \A i \in 1..Len(s2c'), j \in 1..Len(s_todo') :
          Before(s2c'[i].type, s_todo'[j])
  BY <1>1, <1>2, <1>3
<1> QED
  BY <1>4, <1>5, <1>6 DEF OrderInv

\* The server has more to send, which authenticates further.
LEMMA Order_Extends ==
  ASSUME SessionInv, Live, NEW ts, Extends(s_todo, s_todo', ts), UNCHANGED s2c,
         \A i, j \in 1..Len(ts) : i < j => Before(ts[i], ts[j]),
         \A t : Coming(t) => \A i \in 1..Len(ts) : Before(t, ts[i])
  PROVE  OrderInv'
<1>1. /\ \A i, j \in 1..Len(s2c) : i < j => Before(s2c[i].type, s2c[j].type)
      /\ \A i, j \in 1..Len(s_todo) : i < j => Before(s_todo[i], s_todo[j])
      /\ \A i \in 1..Len(s2c), j \in 1..Len(s_todo) :
             Before(s2c[i].type, s_todo[j])
  BY DEF SessionInv, OrderInv
<1>2. \A i \in 1..Len(s_todo') :
        \/ i \in 1..Len(s_todo) /\ s_todo'[i] = s_todo[i]
        \/ /\ i - Len(s_todo) \in 1..Len(ts) /\ i > Len(s_todo)
           /\ s_todo'[i] = ts[i - Len(s_todo)]
  <2> TAKE i \in 1..Len(s_todo')
  <2>1. CASE i > Len(s_todo)
    <3>1. i - Len(s_todo) \in 1..Len(ts) /\ Len(s_todo) + (i - Len(s_todo)) = i
      BY <2>1 DEF Extends
    <3> QED
      BY <2>1, <3>1 DEF Extends
  <2> QED
    BY <2>1 DEF Extends
<1>3. /\ \A i \in 1..Len(s2c) : Coming(s2c[i].type)
      /\ \A i \in 1..Len(s_todo) : Coming(s_todo[i])
  BY DEF Coming
<1>4. \A i, j \in 1..Len(s_todo') : i < j => Before(s_todo'[i], s_todo'[j])
  <2> SUFFICES ASSUME NEW i \in 1..Len(s_todo'), NEW j \in 1..Len(s_todo'),
                      i < j
               PROVE  Before(s_todo'[i], s_todo'[j])
    OBVIOUS
  <2>1. Len(s_todo) \in Nat
    BY DEF Extends
  <2>2. CASE i \in 1..Len(s_todo)
    BY <1>1, <1>2, <1>3, <2>1, <2>2
  <2>3. CASE i > Len(s_todo)
    <3>1. /\ i - Len(s_todo) \in 1..Len(ts) /\ j - Len(s_todo) \in 1..Len(ts)
          /\ s_todo'[i] = ts[i - Len(s_todo)]
          /\ s_todo'[j] = ts[j - Len(s_todo)]
          /\ i - Len(s_todo) < j - Len(s_todo)
      BY <1>2, <2>1, <2>3
    <3> QED
      BY <3>1
  <2> QED
    BY <1>2, <2>2, <2>3
<1>5. \A i \in 1..Len(s2c), j \in 1..Len(s_todo') :
          Before(s2c[i].type, s_todo'[j])
  BY <1>1, <1>2, <1>3
<1> QED
  BY <1>1, <1>4, <1>5 DEF OrderInv

LEMMA OrderInv_ServerReceives ==
  ASSUME SessionInv, ServerReceives
  PROVE  OrderInv'
<1>0. AuthInv /\ StateInv
  BY DEF SessionInv
<1>1. /\ Live /\ c2s # <<>> /\ Cut(c2s, c2s') /\ UNCHANGED Client
  BY ServerReceives_Effect
<1>2. Asked(c2s[1].type)
  BY <1>1, Asked_Cut
<1>3. CASE UNCHANGED <<s2c, s_todo>>
  BY <1>1, <1>3 DEF SessionInv, OrderInv
<1>4. CASE c2s[1].type = "KEXINIT" /\ ServerKexinit /\ UNCHANGED s_todo
  <2>1. UNCHANGED s2c \/ SSend(<<"KEXINIT">>)
    BY <1>4 DEF ServerKexinit
  <2>2. UNCHANGED s2c \/ Added(s2c, s2c', "KEXINIT", s_out)
    BY <2>1, SSend_Sent DEF ServerTypes
  <2> QED
    BY <1>1, <1>3, <1>4, <2>2, Order_Added DEF AuthTypes, AnswerTypes
<1>5. CASE c2s[1].type = "KEXDH_INIT" /\ ServerDh
  <2>1. s_todo' = <<"EXT_INFO">> \/ s_todo' = s_todo
    BY <1>5 DEF ServerDh
  <2>2. \A i \in 1..Len(s2c') : s2c'[i].type \notin AuthTypes
    <3>1. /\ Len(s2c') = 2 /\ s2c'[1].type = "KEXDH_REPLY"
          /\ s2c'[2].type = "NEWKEYS"
      BY <1>5, ServerDh_Kex
    <3> QED
      BY <3>1 DEF AuthTypes, AnswerTypes
  <2>3. \A i, j \in 1..Len(s_todo') : i < j => Before(s_todo'[i], s_todo'[j])
    <3>1. CASE s_todo' = <<"EXT_INFO">>
      BY <3>1
    <3>2. CASE s_todo' = s_todo
      BY <1>1, <3>2 DEF SessionInv, OrderInv
    <3> QED
      BY <2>1, <3>1, <3>2
  <2> QED
    BY <2>2, <2>3 DEF OrderInv, Before
<1>6. CASE /\ c2s[1].type = "CHANNEL_DATA" /\ ServerData
           /\ \/ Extends(s_todo, s_todo', <<"WINDOW_ADJUST", "CHANNEL_DATA">>)
              \/ Extends(s_todo, s_todo', <<"WINDOW_ADJUST">>)
  <2>1. UNCHANGED s2c
    BY <1>6 DEF ServerData
  <2>2. PICK ts \in {<<"WINDOW_ADJUST", "CHANNEL_DATA">>, <<"WINDOW_ADJUST">>} :
            Extends(s_todo, s_todo', ts)
    BY <1>6
  <2>3. \A i \in 1..Len(ts) : ts[i] \notin AuthTypes
    BY DEF AuthTypes, AnswerTypes
  <2>4. \A u : \A i \in 1..Len(ts) : Before(u, ts[i])
    BY <2>3 DEF Before
  <2> QED
    BY <1>1, <2>1, <2>2, <2>4, Order_Extends
<1>7. CASE /\ c2s[1].type = "SERVICE_REQUEST" /\ ServerService
           /\ Extends(s_todo, s_todo', <<"SERVICE_ACCEPT">>)
  <2>1. UNCHANGED s2c
    BY <1>7 DEF ServerService
  <2>2. /\ service_state = "SENT" /\ auth_state = "NONE"
        /\ ~Coming("SERVICE_ACCEPT") /\ \A t \in AnswerTypes : ~Coming(t)
    BY <1>0, <1>1, <1>2, <1>7 DEF AuthInv
  <2>3. \A t : Coming(t) => Before(t, "SERVICE_ACCEPT")
    BY <2>2 DEF Before, AuthTypes, Rank
  <2> QED
    BY <1>1, <1>7, <2>1, <2>3, Order_Extends
<1>8. CASE /\ c2s[1].type = "USERAUTH_REQUEST" /\ ServerAuth
           /\ \/ Extends(s_todo, s_todo',
                         <<"USERAUTH_BANNER", "USERAUTH_SUCCESS">>)
              \/ Extends(s_todo, s_todo',
                         <<"USERAUTH_SUCCESS", "GLOBAL_REQUEST">>)
              \/ Extends(s_todo, s_todo', <<"USERAUTH_FAILURE">>)
  <2>1. UNCHANGED s2c
    BY <1>8 DEF ServerAuth
  <2>2. \A t \in AnswerTypes : ~Coming(t)
    BY <1>0, <1>1, <1>2, <1>8 DEF AuthInv
  <2>3. \A t : Coming(t) => \A u \in AnswerTypes : Before(t, u)
    BY <2>2 DEF Before, AuthTypes, AnswerTypes, Rank
  <2>4. \A t : Before(t, "GLOBAL_REQUEST")
    BY DEF Before, AuthTypes, AnswerTypes
  <2>5. CASE Extends(s_todo, s_todo',
                     <<"USERAUTH_BANNER", "USERAUTH_SUCCESS">>)
    <3>1. Before("USERAUTH_BANNER", "USERAUTH_SUCCESS")
      BY DEF Before, Rank
    <3> DEFINE ts == <<"USERAUTH_BANNER", "USERAUTH_SUCCESS">>
    <3>2. \A i, j \in 1..Len(ts) : i < j => Before(ts[i], ts[j])
      BY <3>1
    <3>3. \A t : Coming(t) => \A i \in 1..Len(ts) : Before(t, ts[i])
      BY <2>3 DEF AnswerTypes
    <3> QED
      BY <1>1, <2>1, <2>5, <3>2, <3>3, Order_Extends
  <2>6. CASE Extends(s_todo, s_todo',
                     <<"USERAUTH_SUCCESS", "GLOBAL_REQUEST">>)
    <3> DEFINE ts == <<"USERAUTH_SUCCESS", "GLOBAL_REQUEST">>
    <3>2. \A i, j \in 1..Len(ts) : i < j => Before(ts[i], ts[j])
      BY <2>4
    <3>3. \A t : Coming(t) => \A i \in 1..Len(ts) : Before(t, ts[i])
      BY <2>3, <2>4 DEF AnswerTypes
    <3> QED
      BY <1>1, <2>1, <2>6, <3>2, <3>3, Order_Extends
  <2>7. CASE Extends(s_todo, s_todo', <<"USERAUTH_FAILURE">>)
    <3> DEFINE ts == <<"USERAUTH_FAILURE">>
    <3>2. \A i, j \in 1..Len(ts) : i < j => Before(ts[i], ts[j])
      OBVIOUS
    <3>3. \A t : Coming(t) => \A i \in 1..Len(ts) : Before(t, ts[i])
      BY <2>3 DEF AnswerTypes
    <3> QED
      BY <1>1, <2>1, <2>7, <3>2, <3>3, Order_Extends
  <2> QED
    BY <1>8, <2>5, <2>6, <2>7
<1>9. CASE \/ ServerNewkeys /\ UNCHANGED s_todo
           \/ UNCHANGED <<s2c, server>>
  BY <1>3, <1>9 DEF ServerNewkeys
<1> QED
  BY <1>4, <1>5, <1>6, <1>7, <1>8, <1>9, ServerReceives_Todo

LEMMA OrderInv_Step ==
  ASSUME SessionInv, [Next]_vars
  PROVE  OrderInv'
<1> SUFFICES ASSUME Live' PROVE OrderInv'
  BY DEF OrderInv
<1>1. Live
  BY ErrorStays
<1>2. CASE UNCHANGED <<s2c, s_todo>>
  BY <1>1, <1>2 DEF SessionInv, OrderInv
<1>3. CASE ssh_packet_socket_callback
  BY <1>1, <1>3, Callback, Order_Cut
<1>4. CASE Call \/ incoming_rekey
  <2>1. UNCHANGED <<s2c, s_todo>>
    BY <1>4
    DEF Call, Keep, ssh_connect, connect_fails, import_fails,
        ssh_userauth_request_service, ssh_userauth_publickey, auth_fails,
        auth_succeeds, channel_write_begins, channel_write_unblocked,
        channel_write, channel_write_returns, channel_read,
        channel_read_fails, ssh_disconnect, incoming_rekey
  <2> QED
    BY <1>2, <2>1
<1>5. CASE connect_timeout \/ ConnectionLost
  BY <1>5 DEF connect_timeout, ConnectionLost, Error, Live
<1>6. CASE ServerSends
  BY <1>1, <1>6, ServerSends_Effect, Order_Sends
<1>7. CASE ServerRekeys \/ ServerDisconnects
  <2>1. PICK t \in {"KEXINIT", "DISCONNECT"} : SSend(<<t>>) /\ UNCHANGED s_todo
    BY <1>7 DEF ServerRekeys, ServerDisconnects
  <2>2. Added(s2c, s2c', t, s_out)
    BY <2>1, SSend_Sent DEF ServerTypes
  <2> QED
    BY <1>1, <2>1, <2>2, Order_Added DEF AuthTypes, AnswerTypes
<1> QED
  BY <1>2, <1>3, <1>4, <1>5, <1>6, <1>7, OrderInv_ServerReceives
  DEF Next, Stopped

-----------------------------------------------------------------------------
(* What comes after USERAUTH_SUCCESS *)

\* The client handles a packet that does not tell it that it is authenticated.
LEMMA Success_Cut ==
  ASSUME SessionInv, Live, ~authenticated, Cut(s2c, s2c'),
         s2c[1].type # "USERAUTH_SUCCESS",
         UNCHANGED <<s_todo, s_phase>>,
         \/ session_state' = session_state
         \/ session_state # "INITIAL_KEX"
         \/ \A i \in 1..Len(s2c') : s2c'[i].type # "KEXINIT"
  PROVE  SuccessInv'
<1>1. /\ Len(s2c) \in Nat /\ Len(s2c) >= 1 /\ Len(s2c') = Len(s2c) - 1
      /\ \A i \in 1..Len(s2c') : s2c'[i] = s2c[i + 1] /\ i + 1 \in 1..Len(s2c)
  BY DEF Cut
<1>2. \A i \in 1..Len(s2c) : SuccessBefore(i + 1) => SuccessBefore(i)'
  <2> SUFFICES ASSUME NEW i \in 1..Len(s2c), SuccessBefore(i + 1)
               PROVE  \E j \in 1..Len(s2c') :
                          j < i /\ s2c'[j].type = "USERAUTH_SUCCESS"
    BY DEF SuccessBefore
  <2>1. PICK j \in 1..Len(s2c) :
            j < i + 1 /\ s2c[j].type = "USERAUTH_SUCCESS"
    BY DEF SuccessBefore
  <2>2. /\ j - 1 \in 1..Len(s2c') /\ j - 1 < i
        /\ s2c'[j - 1] = s2c[(j - 1) + 1] /\ (j - 1) + 1 = j
    BY <1>1, <2>1
  <2> QED
    BY <2>1, <2>2
<1>3. /\ s_phase = "work" => SuccessBefore(Len(s2c) + 1)
      /\ \A i \in 1..Len(s2c) :
           /\ s2c[i].type \in DataTypes => SuccessBefore(i)
           /\ s2c[i].type = "KEXINIT" =>
                  session_state = "INITIAL_KEX" \/ SuccessBefore(i)
      /\ \A i \in 1..Len(s_todo) : s_todo[i] \in DataTypes =>
             \/ SuccessBefore(Len(s2c) + 1)
             \/ \E j \in 1..Len(s_todo) :
                    j < i /\ s_todo[j] = "USERAUTH_SUCCESS"
  BY DEF SessionInv, SuccessInv
<1>4. PICK n \in Nat : n = Len(s2c') + 1 /\ n = Len(s2c)
  BY <1>1
<1>5. SuccessBefore(Len(s2c) + 1) => SuccessBefore(n)'
  BY <1>1, <1>2, <1>4
<1>6. SuccessBefore(n)' = SuccessBefore(Len(s2c) + 1)'
  BY <1>4 DEF SuccessBefore
<1>7. s_phase' = "work" => SuccessBefore(Len(s2c) + 1)'
  BY <1>3, <1>5, <1>6
<1>8. \A i \in 1..Len(s2c') :
        /\ s2c'[i].type \in DataTypes => SuccessBefore(i)'
        /\ s2c'[i].type = "KEXINIT" =>
               session_state' = "INITIAL_KEX" \/ SuccessBefore(i)'
  <2> TAKE i \in 1..Len(s2c')
  <2>1. i + 1 \in 1..Len(s2c) /\ s2c'[i] = s2c[i + 1] /\ i \in 1..Len(s2c)
    BY <1>1
  <2> QED
    BY <1>2, <1>3, <2>1
<1>9. \A i \in 1..Len(s_todo) : s_todo[i] \in DataTypes =>
        \/ SuccessBefore(Len(s2c) + 1)'
        \/ \E j \in 1..Len(s_todo) :
               j < i /\ s_todo[j] = "USERAUTH_SUCCESS"
  BY <1>3, <1>5, <1>6
<1> QED
  BY <1>7, <1>8, <1>9 DEF SuccessInv

\* The server sends a packet, or has more to send.
LEMMA Success_Added ==
  ASSUME SessionInv, Live, ~authenticated,
         NEW t, NEW k, Added(s2c, s2c', t, k), UNCHANGED session_state,
         t = "KEXINIT" =>
             session_state = "INITIAL_KEX" \/ SuccessBefore(Len(s2c) + 1),
         t \in DataTypes => SuccessBefore(Len(s2c) + 1),
         s_phase' = "work" => s_phase = "work" \/ t = "USERAUTH_SUCCESS",
         \A i \in 1..Len(s_todo') : s_todo'[i] \in DataTypes =>
             \/ SuccessBefore(Len(s2c) + 1)
             \/ t = "USERAUTH_SUCCESS"
             \/ \E j \in 1..Len(s_todo') :
                    j < i /\ s_todo'[j] = "USERAUTH_SUCCESS"
  PROVE  SuccessInv'
<1>1. /\ Len(s2c) \in Nat /\ Len(s2c') = Len(s2c) + 1
      /\ \A i \in 1..Len(s2c) : s2c'[i] = s2c[i] /\ i \in 1..Len(s2c')
      /\ s2c'[Len(s2c) + 1].type = t
      /\ \A i \in 1..Len(s2c') : i \in 1..Len(s2c) \/ i = Len(s2c) + 1
  BY DEF Added
<1>2. \A i \in 1..Len(s2c) + 1 : SuccessBefore(i) => SuccessBefore(i)'
  BY <1>1 DEF SuccessBefore
<1>3. SuccessBefore(Len(s2c) + 1) \/ t = "USERAUTH_SUCCESS" =>
          SuccessBefore(Len(s2c) + 1)'
  <2>1. ASSUME SuccessBefore(Len(s2c) + 1) \/ t = "USERAUTH_SUCCESS"
        PROVE  \E j \in 1..Len(s2c') : j < Len(s2c') + 1
                                       /\ s2c'[j].type = "USERAUTH_SUCCESS"
    <3>1. CASE t = "USERAUTH_SUCCESS"
      BY <1>1, <3>1
    <3>2. CASE SuccessBefore(Len(s2c) + 1)
      BY <1>1, <3>2 DEF SuccessBefore
    <3> QED
      BY <2>1, <3>1, <3>2
  <2> QED
    BY <2>1 DEF SuccessBefore
<1>4. /\ s_phase = "work" => SuccessBefore(Len(s2c) + 1)
      /\ \A i \in 1..Len(s2c) :
           /\ s2c[i].type \in DataTypes => SuccessBefore(i)
           /\ s2c[i].type = "KEXINIT" =>
                  session_state = "INITIAL_KEX" \/ SuccessBefore(i)
  BY DEF SessionInv, SuccessInv
<1>5. PICK n \in Nat : n = Len(s2c) + 1
  BY <1>1
<1>6. SuccessBefore(n) => SuccessBefore(n)'
  BY <1>1, <1>2, <1>5
<1>7. \A i \in 1..Len(s2c') :
        /\ s2c'[i].type \in DataTypes => SuccessBefore(i)'
        /\ s2c'[i].type = "KEXINIT" =>
               session_state' = "INITIAL_KEX" \/ SuccessBefore(i)'
  <2> TAKE i \in 1..Len(s2c')
  <2>1. CASE i \in 1..Len(s2c)
    <3>1. s2c'[i] = s2c[i] /\ (SuccessBefore(i) => SuccessBefore(i)')
      BY <1>1, <1>2, <2>1
    <3> QED
      BY <1>4, <2>1, <3>1
  <2>2. CASE i = n
    BY <1>1, <1>5, <1>6, <2>2
  <2> QED
    BY <1>1, <1>5, <2>1, <2>2
<1> QED
  BY <1>3, <1>4, <1>7 DEF SuccessInv

LEMMA Success_Same ==
  ASSUME SessionInv, Live, ~authenticated, UNCHANGED s2c,
         s_phase' = "work" => s_phase = "work",
         session_state = "INITIAL_KEX" => session_state' = "INITIAL_KEX",
         \A i \in 1..Len(s_todo') : s_todo'[i] \in DataTypes =>
             \/ SuccessBefore(Len(s2c) + 1)
             \/ \E j \in 1..Len(s_todo') :
                    j < i /\ s_todo'[j] = "USERAUTH_SUCCESS"
  PROVE  SuccessInv'
<1>1. \A i : SuccessBefore(i)' = SuccessBefore(i)
  BY DEF SuccessBefore
<1>2. SuccessBefore(Len(s2c) + 1) => SuccessBefore(Len(s2c) + 1)'
  BY DEF SuccessBefore
<1>3. s_phase' = "work" => SuccessBefore(Len(s2c) + 1)'
  BY <1>2 DEF SessionInv, SuccessInv
<1>4. \A i \in 1..Len(s2c') :
        /\ s2c'[i].type \in DataTypes => SuccessBefore(i)'
        /\ s2c'[i].type = "KEXINIT" =>
               session_state' = "INITIAL_KEX" \/ SuccessBefore(i)'
  BY <1>1 DEF SessionInv, SuccessInv
<1> QED
  BY <1>2, <1>3, <1>4 DEF SuccessInv

LEMMA SuccessInv_Callback ==
  ASSUME SessionInv, Live', ~authenticated', ssh_packet_socket_callback
  PROVE  SuccessInv'
<1> DEFINE p == s2c[1]
<1>1. /\ Live /\ s2c # <<>> /\ Cut(s2c, s2c') /\ Handle(p)
      /\ UNCHANGED <<pc, calls, len, handles, server>>
  BY Callback
<1>2. /\ ~authenticated /\ p.type # "USERAUTH_SUCCESS"
      /\ p.type = "KEXINIT" \/ UNCHANGED session_state
         \/ p.type = "NEWKEYS"
  BY <1>1
  DEF Handle, ssh_packet_disconnect_callback, Error, Live,
      ssh_packet_ignore_callback, ssh_packet_kexinit,
      ssh_packet_client_dh_reply, ssh_packet_newkeys,
      ssh_packet_service_accept, ssh_packet_userauth_success,
      ssh_packet_userauth_failure, channel_rcv_change_window,
      channel_rcv_data
<1>3. ServerPacket(1)
  BY <1>1, FirstFromServer
<1>4. p.type = "KEXINIT" => \A i \in 1..Len(s2c') : s2c'[i].type # "KEXINIT"
  <2> SUFFICES ASSUME p.type = "KEXINIT", NEW i \in 1..Len(s2c')
               PROVE  s2c'[i].type = "DISCONNECT"
    OBVIOUS
  <2>1. s2c'[i] = s2c[i + 1] /\ i + 1 \in 2..Len(s2c)
    BY <1>1 DEF Cut
  <2> QED
    BY <1>3, <2>1 DEF ServerPacket
<1>5. p.type = "NEWKEYS" => session_state # "INITIAL_KEX"
  BY <1>1, <1>3 DEF ServerPacket, Replied, DhSent, NewkeysDue, SessionInv,
                    StateInv
<1> QED
  BY <1>1, <1>2, <1>4, <1>5, Success_Cut

LEMMA SuccessInv_ServerReceives ==
  ASSUME SessionInv, ServerReceives, ~authenticated
  PROVE  SuccessInv'
<1>1. /\ Live /\ c2s # <<>> /\ Cut(c2s, c2s') /\ UNCHANGED Client
      /\ s_phase # "down"
  BY ServerReceives_Effect
<1>2. UNCHANGED session_state
  BY <1>1 DEF Client
<1>3. \A i \in 1..Len(s_todo) : s_todo[i] \in DataTypes =>
          \/ SuccessBefore(Len(s2c) + 1)
          \/ \E j \in 1..Len(s_todo) :
                 j < i /\ s_todo[j] = "USERAUTH_SUCCESS"
  BY <1>1 DEF SessionInv, SuccessInv
<1>4. CASE UNCHANGED <<s2c, s_todo, s_phase>>
  BY <1>1, <1>2, <1>3, <1>4, Success_Same
<1>5. CASE c2s[1].type = "KEXINIT" /\ ServerKexinit /\ UNCHANGED s_todo
  <2>1. UNCHANGED s_phase
    BY <1>5 DEF ServerKexinit
  <2>2. CASE s_kexinit
    BY <1>4, <1>5, <2>1, <2>2 DEF ServerKexinit, SessionInv, StateInv
  <2>3. CASE ~s_kexinit
    <3>1. Added(s2c, s2c', "KEXINIT", s_out)
      BY <1>5, <2>3, SSend_Sent DEF ServerKexinit, ServerTypes
    <3>2. /\ dh_handshake_state \in {"INIT", "INIT_SENT"} /\ client_kex
          /\ ~DhSent
      BY <1>1, <1>5, <2>3, Accepted DEF ClientPacket, SessionInv, ServerKexInv
    <3>3. session_state = "INITIAL_KEX"
      BY <1>1, <3>2 DEF DhSent, SessionInv, TypeOK, StateInv, Live
    <3>4. "KEXINIT" \notin DataTypes
      BY DEF DataTypes
    <3> QED
      BY <1>1, <1>2, <1>3, <1>5, <2>1, <3>1, <3>3, <3>4, Success_Added
  <2> QED
    BY <2>2, <2>3
<1>6. CASE c2s[1].type = "KEXDH_INIT" /\ ServerDh
  <2>1. /\ UNCHANGED s_phase
        /\ s_todo' = <<"EXT_INFO">> \/ s_todo' = s_todo
    BY <1>6 DEF ServerDh
  <2>2. /\ s2c = <<>> /\ Len(s2c') = 2
        /\ s2c'[1].type = "KEXDH_REPLY" /\ s2c'[2].type = "NEWKEYS"
    BY <1>6, ServerDh_Kex
  <2>3. \A i : ~SuccessBefore(i)
    BY <2>2 DEF SuccessBefore
  <2>4. s_phase # "work"
    BY <1>1, <2>3 DEF SessionInv, SuccessInv
  <2>5. \A i \in 1..Len(s2c') : /\ s2c'[i].type \notin DataTypes
                                /\ s2c'[i].type # "KEXINIT"
    BY <2>2 DEF DataTypes
  <2>6. \A i \in 1..Len(s_todo') : s_todo'[i] \in DataTypes =>
            \E j \in 1..Len(s_todo') :
                j < i /\ s_todo'[j] = "USERAUTH_SUCCESS"
    <3>1. CASE s_todo' = s_todo
      BY <1>3, <2>3, <3>1
    <3>2. CASE s_todo' = <<"EXT_INFO">>
      BY <3>2 DEF DataTypes
    <3> QED
      BY <2>1, <3>1, <3>2
  <2> QED
    BY <2>1, <2>4, <2>5, <2>6 DEF SuccessInv
<1>7. CASE /\ c2s[1].type = "SERVICE_REQUEST" /\ ServerService
           /\ Extends(s_todo, s_todo', <<"SERVICE_ACCEPT">>)
  <2>1. UNCHANGED s2c /\ s_phase' = "auth"
    BY <1>7 DEF ServerService
  <2>2. /\ Len(s_todo) \in Nat /\ Len(s_todo') = Len(s_todo) + 1
        /\ \A i \in 1..Len(s_todo) : s_todo'[i] = s_todo[i]
                                     /\ i \in 1..Len(s_todo')
        /\ s_todo'[Len(s_todo) + 1] = "SERVICE_ACCEPT"
        /\ \A i \in 1..Len(s_todo') : i \in 1..Len(s_todo)
                                      \/ i = Len(s_todo) + 1
    BY <1>7 DEF Extends
  <2>3. \A i \in 1..Len(s_todo') : s_todo'[i] \in DataTypes =>
            \/ SuccessBefore(Len(s2c) + 1)
            \/ \E j \in 1..Len(s_todo') :
                   j < i /\ s_todo'[j] = "USERAUTH_SUCCESS"
    BY <1>3, <2>2 DEF DataTypes
  <2> QED
    BY <1>1, <1>2, <2>1, <2>3, Success_Same
<1>8. CASE /\ c2s[1].type = "USERAUTH_REQUEST" /\ ServerAuth
           /\ \/ Extends(s_todo, s_todo',
                         <<"USERAUTH_BANNER", "USERAUTH_SUCCESS">>)
              \/ Extends(s_todo, s_todo',
                         <<"USERAUTH_SUCCESS", "GLOBAL_REQUEST">>)
              \/ Extends(s_todo, s_todo', <<"USERAUTH_FAILURE">>)
  <2>1. UNCHANGED <<s2c, s_phase>>
    BY <1>8 DEF ServerAuth
  <2>2. /\ Len(s_todo) \in Nat
        /\ \A i \in 1..Len(s_todo) : s_todo'[i] = s_todo[i]
                                     /\ i \in 1..Len(s_todo')
        /\ \A i \in 1..Len(s_todo') :
             \/ i \in 1..Len(s_todo)
             \/ s_todo'[i] \notin DataTypes
             \/ /\ i = Len(s_todo) + 2 /\ Len(s_todo) + 1 \in 1..Len(s_todo')
                /\ s_todo'[Len(s_todo) + 1] = "USERAUTH_SUCCESS"
    <3>1. CASE Extends(s_todo, s_todo',
                       <<"USERAUTH_BANNER", "USERAUTH_SUCCESS">>)
      <4>1. /\ Len(s_todo) \in Nat /\ Len(s_todo') = Len(s_todo) + 2
            /\ \A i \in 1..Len(s_todo) : s_todo'[i] = s_todo[i]
            /\ s_todo'[Len(s_todo) + 1] = "USERAUTH_BANNER"
            /\ s_todo'[Len(s_todo) + 2] = "USERAUTH_SUCCESS"
        BY <3>1 DEF Extends
      <4>2. \A i \in 1..Len(s_todo') :
              i \in 1..Len(s_todo) \/ i = Len(s_todo) + 1 \/ i = Len(s_todo) + 2
        BY <4>1
      <4> QED
        BY <4>1, <4>2 DEF DataTypes
    <3>2. CASE Extends(s_todo, s_todo',
                       <<"USERAUTH_SUCCESS", "GLOBAL_REQUEST">>)
      <4>1. /\ Len(s_todo) \in Nat /\ Len(s_todo') = Len(s_todo) + 2
            /\ \A i \in 1..Len(s_todo) : s_todo'[i] = s_todo[i]
            /\ s_todo'[Len(s_todo) + 1] = "USERAUTH_SUCCESS"
        BY <3>2 DEF Extends
      <4>2. \A i \in 1..Len(s_todo') :
              i \in 1..Len(s_todo) \/ i = Len(s_todo) + 1 \/ i = Len(s_todo) + 2
        BY <4>1
      <4> QED
        BY <4>1, <4>2 DEF DataTypes
    <3>3. CASE Extends(s_todo, s_todo', <<"USERAUTH_FAILURE">>)
      <4>1. /\ Len(s_todo) \in Nat /\ Len(s_todo') = Len(s_todo) + 1
            /\ \A i \in 1..Len(s_todo) : s_todo'[i] = s_todo[i]
            /\ s_todo'[Len(s_todo) + 1] = "USERAUTH_FAILURE"
        BY <3>3 DEF Extends
      <4> QED
        BY <4>1 DEF DataTypes
    <3> QED
      BY <1>8, <3>1, <3>2, <3>3
  <2>3. \A i \in 1..Len(s_todo') : s_todo'[i] \in DataTypes =>
            \/ SuccessBefore(Len(s2c) + 1)
            \/ \E j \in 1..Len(s_todo') :
                   j < i /\ s_todo'[j] = "USERAUTH_SUCCESS"
    BY <1>3, <2>2
  <2> QED
    BY <1>1, <1>2, <2>1, <2>3, Success_Same
<1>9. c2s[1].type # "CHANNEL_DATA"
  <2>1. Asked(c2s[1].type)
    BY <1>1, Asked_Cut
  <2> QED
    BY <1>1, <2>1 DEF SessionInv, AuthInv
<1>10. CASE \/ ServerNewkeys /\ UNCHANGED s_todo
            \/ UNCHANGED <<s2c, server>>
  BY <1>4, <1>10 DEF ServerNewkeys
<1> QED
  BY <1>5, <1>6, <1>7, <1>8, <1>9, <1>10, ServerReceives_Todo

LEMMA SuccessInv_Step ==
  ASSUME SessionInv, [Next]_vars
  PROVE  SuccessInv'
<1> SUFFICES ASSUME Live', ~authenticated' PROVE SuccessInv'
  BY DEF SuccessInv
<1>1. Live
  BY ErrorStays
<1>2. CASE Call \/ incoming_rekey \/ UNCHANGED vars
  <2>1. /\ UNCHANGED <<s2c, s_todo, s_phase, authenticated>>
        /\ session_state = "INITIAL_KEX" => session_state' = "INITIAL_KEX"
    BY <1>2
    DEF Call, Keep, ssh_connect, connect_fails, import_fails,
        ssh_userauth_request_service, ssh_userauth_publickey, auth_fails,
        auth_succeeds, channel_write_begins, channel_write_unblocked,
        channel_write, channel_write_returns, channel_read,
        channel_read_fails, ssh_disconnect, incoming_rekey
  <2>2. \A i \in 1..Len(s_todo) : s_todo[i] \in DataTypes =>
            \/ SuccessBefore(Len(s2c) + 1)
            \/ \E j \in 1..Len(s_todo) :
                   j < i /\ s_todo[j] = "USERAUTH_SUCCESS"
    BY <1>1, <2>1 DEF SessionInv, SuccessInv
  <2> QED
    BY <1>1, <2>1, <2>2, Success_Same
<1>3. CASE ssh_packet_socket_callback
  BY <1>3, SuccessInv_Callback
<1>4. CASE connect_timeout \/ ConnectionLost
  BY <1>4 DEF connect_timeout, ConnectionLost, Error, Live
<1>5. CASE ServerReceives
  BY <1>5, ServerReceives_Effect, SuccessInv_ServerReceives DEF Client
<1>6. CASE ServerSends
  <2>1. /\ Cut(s_todo, s_todo') /\ Added(s2c, s2c', s_todo[1], s_out)
        /\ s_phase' = IF s_todo[1] = "USERAUTH_SUCCESS" THEN "work"
                      ELSE s_phase
        /\ UNCHANGED <<Client, session_state, authenticated>>
        /\ s_todo[1] \in TodoTypes
    BY <1>6, ServerSends_Effect DEF Client
  <2>2. \A i \in 1..Len(s_todo) : s_todo[i] \in DataTypes =>
            \/ SuccessBefore(Len(s2c) + 1)
            \/ \E j \in 1..Len(s_todo) :
                   j < i /\ s_todo[j] = "USERAUTH_SUCCESS"
    BY <1>1, <2>1 DEF SessionInv, SuccessInv
  <2>3. /\ Len(s_todo) \in Nat /\ Len(s_todo) >= 1
        /\ Len(s_todo') = Len(s_todo) - 1
        /\ \A i \in 1..Len(s_todo') : s_todo'[i] = s_todo[i + 1]
    BY <2>1 DEF Cut
  <2>4. s_todo[1] \in DataTypes => SuccessBefore(Len(s2c) + 1)
    BY <2>2, <2>3
  <2>5. s_todo[1] # "KEXINIT"
    BY <2>1 DEF TodoTypes, AuthTypes, AnswerTypes, DataTypes
  <2>6. \A i \in 1..Len(s_todo') : s_todo'[i] \in DataTypes =>
            \/ SuccessBefore(Len(s2c) + 1)
            \/ s_todo[1] = "USERAUTH_SUCCESS"
            \/ \E j \in 1..Len(s_todo') :
                   j < i /\ s_todo'[j] = "USERAUTH_SUCCESS"
    <3> SUFFICES ASSUME NEW i \in 1..Len(s_todo'), s_todo'[i] \in DataTypes,
                        ~SuccessBefore(Len(s2c) + 1),
                        s_todo[1] # "USERAUTH_SUCCESS"
                 PROVE  \E j \in 1..Len(s_todo') :
                            j < i /\ s_todo'[j] = "USERAUTH_SUCCESS"
      OBVIOUS
    <3>1. i + 1 \in 1..Len(s_todo) /\ s_todo[i + 1] \in DataTypes
      BY <2>3
    <3>2. PICK j \in 1..Len(s_todo) :
              j < i + 1 /\ s_todo[j] = "USERAUTH_SUCCESS"
      BY <2>2, <3>1
    <3>3. /\ j - 1 \in 1..Len(s_todo') /\ j - 1 < i
          /\ s_todo'[j - 1] = s_todo[(j - 1) + 1] /\ (j - 1) + 1 = j
      BY <2>3, <3>2
    <3> QED
      BY <3>2, <3>3
  <2> QED
    BY <1>1, <2>1, <2>4, <2>5, <2>6, Success_Added
<1>7. CASE ServerRekeys \/ ServerDisconnects
  <2>1. PICK t \in {"KEXINIT", "DISCONNECT"} :
            /\ SSend(<<t>>) /\ UNCHANGED <<s_todo, Client>>
            /\ t = "KEXINIT" => s_phase = "work"
            /\ s_phase' = "work" => s_phase = "work"
    BY <1>7 DEF ServerRekeys, ServerDisconnects
  <2>2. Added(s2c, s2c', t, s_out)
    BY <2>1, SSend_Sent DEF ServerTypes
  <2>3. UNCHANGED <<session_state, authenticated>>
    BY <2>1 DEF Client
  <2>4. t = "KEXINIT" => SuccessBefore(Len(s2c) + 1)
    BY <1>1, <2>1, <2>3 DEF SessionInv, SuccessInv
  <2>5. t \notin DataTypes
    BY DEF DataTypes
  <2>6. \A i \in 1..Len(s_todo') : s_todo'[i] \in DataTypes =>
            \/ SuccessBefore(Len(s2c) + 1)
            \/ \E j \in 1..Len(s_todo') :
                   j < i /\ s_todo'[j] = "USERAUTH_SUCCESS"
    BY <1>1, <2>1, <2>3 DEF SessionInv, SuccessInv
  <2> QED
    BY <1>1, <2>1, <2>2, <2>3, <2>4, <2>5, <2>6, Success_Added
<1> QED
  BY <1>2, <1>3, <1>4, <1>5, <1>6, <1>7 DEF Next, Stopped

-----------------------------------------------------------------------------
(* Waiting *)

\* The client waits for NEWKEYS in the middle of an exchange.
LEMMA NewkeysDue_State ==
  ASSUME SessionInv, Live, NewkeysDue
  PROVE  session_state = "DH" /\ s2c[1].type = "NEWKEYS"
BY DEF SessionInv, TypeOK, StateInv, ServerKexInv, NewkeysDue, Live

\* Once authenticated, the session is in an exchange or AUTHENTICATED.
LEMMA Authenticated_State ==
  ASSUME SessionInv, Live, authenticated
  PROVE  /\ session_state \in {"DH", "AUTHENTICATED"}
         /\ pc \notin {"start", "connect", "service"}
         /\ dh_handshake_state # "FINISHED" /\ ~NewkeysDue =>
                client_kex /\ dh_handshake_state = "INIT_SENT"
BY DEF SessionInv, TypeOK, StateInv, NewkeysDue, Live

\* The client that has sent NEWKEYS waits for the server's.
LEMMA WaitInv_Step ==
  ASSUME SessionInv, [Next]_vars
  PROVE  WaitInv'
<1> SUFFICES ASSUME Live', authenticated', NewkeysDue' PROVE WaitInv'
  BY DEF WaitInv
<1>1. Live
  BY ErrorStays
<1>2. WaitInv /\ StateInv /\ TypeOK
  BY DEF SessionInv
<1>3. CASE ssh_packet_socket_callback
  <2>1. /\ Handle(s2c[1]) /\ UNCHANGED <<pc, len>>
        /\ burst > 0 \/ Waiting \/ Flushing
    BY <1>3, Callback
  <2>2. ~NewkeysDue
    <3> SUFFICES ASSUME NewkeysDue PROVE FALSE
      OBVIOUS
    <3>1. s2c[1].type = "NEWKEYS"
      BY <1>1, NewkeysDue_State
    <3>2. dh_handshake_state' = "FINISHED"
      BY <2>1, <3>1
      DEF Handle, ssh_packet_disconnect_callback,
          ssh_packet_ignore_callback, ssh_packet_kexinit,
          ssh_packet_client_dh_reply, ssh_packet_newkeys,
          ssh_packet_service_accept, ssh_packet_userauth_success,
          ssh_packet_userauth_failure, channel_rcv_change_window,
          channel_rcv_data
    <3> QED
      BY <3>2 DEF NewkeysDue
  <2>3. ssh_packet_client_dh_reply(s2c[1])
    BY <2>1, <2>2
    DEF Handle, ssh_packet_disconnect_callback,
        ssh_packet_ignore_callback, ssh_packet_kexinit,
        ssh_client_connection_callback, ssh_packet_newkeys,
        ssh_packet_service_accept, ssh_packet_userauth_success,
        ssh_packet_userauth_failure, channel_rcv_change_window,
        channel_rcv_data, ssh_packet_send, ssh_send_rekex, NewkeysDue
  <2>4. UNCHANGED <<session_state, authenticated, credit, buffered>>
    BY <2>3 DEF ssh_packet_client_dh_reply
  <2>5. Replied /\ Len(c2s) = 0
    BY <1>3, <2>3, ssh_packet_client_dh_reply_Kex
  <2>6. burst = 0 /\ c2s = <<>>
    <3>1. c2s \in Seq(ClientPackets)
      BY DEF SessionInv, QueueInv, ClientPackets
    <3> QED
      BY <1>1, <2>5, <3>1, EmptySeq DEF SessionInv, ServerKexInv
  <2>7. Waiting
    BY <2>1, <2>6 DEF Flushing
  <2>8. /\ pc \notin {"start", "connect", "service"}
        /\ auth_state = "SUCCESS"
    BY <1>1, <1>2, <2>4, Authenticated_State DEF StateInv
  <2>9. \/ pc = "unblock"
        \/ pc = "write" /\ len > 0 /\ credit = 0
        \/ pc = "read" /\ buffered = 0
    BY <1>2, <2>7, <2>8
    DEF Waiting, ssh_auth_response_termination,
        ssh_channel_waitwindow_termination, ssh_channel_read_termination,
        TypeOK
  <2> QED
    BY <2>1, <2>4, <2>9 DEF WaitInv
<1>4. ASSUME NewkeysDue, authenticated
      PROVE  /\ session_state = "DH"
             /\ \/ pc = "unblock"
                \/ pc = "write" /\ len > 0 /\ credit = 0
                \/ pc = "read" /\ buffered = 0
  BY <1>1, <1>2, <1>4, NewkeysDue_State DEF WaitInv
<1>5. CASE Call
  <2>1. CASE UNCHANGED dh_handshake_state
    <3>1. NewkeysDue
      BY <2>1 DEF NewkeysDue
    <3>2. authenticated
      BY <1>5
      DEF Call, ssh_connect, connect_fails, import_fails,
          ssh_userauth_request_service, ssh_userauth_publickey, auth_fails,
          auth_succeeds, channel_write_begins, channel_write_unblocked,
          channel_write, channel_write_returns, channel_read,
          channel_read_fails, ssh_disconnect
    <3>3. FALSE
      BY <1>4, <1>5, <3>1, <3>2
      DEF Call, Runs, ssh_connect, connect_fails, import_fails,
          ssh_userauth_request_service, ssh_userauth_publickey, auth_fails,
          auth_succeeds, channel_write_begins, channel_write_unblocked,
          ssh_waitsession_unblocked, channel_write, channel_write_returns,
          channel_read, channel_read_fails, ssh_disconnect
    <3> QED
      BY <3>3
  <2>2. UNCHANGED dh_handshake_state \/ dh_handshake_state' = "INIT_SENT"
    BY <1>5
    DEF Call, ssh_connect, connect_fails, import_fails,
        ssh_userauth_request_service, ssh_userauth_publickey, auth_fails,
        auth_succeeds, channel_write_begins, channel_write_unblocked,
        channel_write, channel_write_returns, channel_read,
        channel_read_fails, ssh_disconnect, ssh_packet_send, ssh_send_rekex
  <2> QED
    BY <2>1, <2>2 DEF NewkeysDue
<1>6. CASE incoming_rekey
  BY <1>6 DEF incoming_rekey, ssh_send_rekex, NewkeysDue
<1>7. CASE connect_timeout \/ ConnectionLost
  BY <1>7 DEF connect_timeout, ConnectionLost, Error, Live
<1>8. CASE \/ ServerReceives \/ ServerSends \/ ServerRekeys
           \/ ServerDisconnects \/ UNCHANGED vars
  <2>1. UNCHANGED Client
    BY <1>8
    DEF ServerReceives, ServerSends, ServerRekeys, ServerDisconnects, Client
  <2> QED
    BY <1>2, <2>1 DEF WaitInv, Client, NewkeysDue, Live
<1> QED
  BY <1>3, <1>5, <1>6, <1>7, <1>8 DEF Next, Stopped

\* Nothing is queued by a client that has sent NEWKEYS.
LEMMA QueueNotStranded_Step ==
  ASSUME SessionInv, [Next]_vars
  PROVE  QueueNotStranded'
<1> SUFFICES ASSUME Live', out_queue' # <<>>
             PROVE  client_kex' /\ dh_handshake_state' = "INIT_SENT"
  BY DEF QueueNotStranded, Live
<1>1. Live
  BY ErrorStays
<1>2. out_queue # <<>> => client_kex /\ dh_handshake_state = "INIT_SENT"
  BY <1>1 DEF SessionInv, QueueNotStranded, Live
<1>3. CASE UNCHANGED <<out_queue, client_kex, dh_handshake_state>>
  BY <1>2, <1>3
<1>4. ASSUME authenticated, ~NewkeysDue,
             \E t \in QueuedTypes : ssh_packet_send(t)
      PROVE  client_kex' /\ dh_handshake_state' = "INIT_SENT"
  <2>1. \/ Rekexed
        \/ Keeps /\ dh_handshake_state # "FINISHED"
        \/ Says("CHANNEL_DATA") /\ out_queue' = out_queue
        \/ Says("WINDOW_ADJUST") /\ out_queue' = out_queue
    BY <1>1, <1>4, ssh_packet_send_Effect DEF QueuedTypes
  <2>2. CASE Rekexed
    BY <2>2 DEF Rekexed
  <2>3. CASE Keeps /\ dh_handshake_state # "FINISHED"
    BY <1>1, <1>4, <2>3, Authenticated_State DEF Keeps
  <2>4. CASE (Says("CHANNEL_DATA") \/ Says("WINDOW_ADJUST"))
             /\ out_queue' = out_queue
    <3>1. UNCHANGED <<client_kex, dh_handshake_state, out_queue>>
      BY <2>4 DEF Says
    <3> QED
      BY <1>3, <3>1
  <2> QED
    BY <2>1, <2>2, <2>3, <2>4
<1>5. CASE Call
  <2>1. CASE channel_write \/ channel_read
    <3>1. /\ pc \in {"write", "read"}
          /\ pc = "write" => credit > 0
          /\ pc = "read" => buffered > 0
      BY <2>1 DEF channel_write, channel_read, Runs
    <3>2. authenticated
      BY <3>1 DEF SessionInv, StateInv
    <3>3. ~NewkeysDue
      BY <1>1, <3>1, <3>2 DEF SessionInv, WaitInv, TypeOK
    <3>4. \/ \E t \in QueuedTypes : ssh_packet_send(t)
          \/ UNCHANGED <<out_queue, client_kex, dh_handshake_state>>
      BY <2>1 DEF channel_write, channel_read, QueuedTypes
    <3> QED
      BY <1>3, <1>4, <3>2, <3>3, <3>4
  <2>2. CASE ssh_connect
    <3>1. dh_handshake_state = "INIT"
      BY <2>2 DEF ssh_connect, Runs, SessionInv, StateInv
    <3>2. UNCHANGED out_queue
      BY <2>2 DEF ssh_connect
    <3> QED
      BY <1>2, <3>1, <3>2
  <2>3. CASE ~channel_write /\ ~channel_read /\ ~ssh_connect
    BY <1>3, <1>5, <2>3
    DEF Call, connect_fails, import_fails,
        ssh_userauth_request_service, ssh_userauth_publickey, auth_fails,
        auth_succeeds, channel_write_begins, channel_write_unblocked,
        channel_write_returns, channel_read_fails, ssh_disconnect
  <2> QED
    BY <2>1, <2>2, <2>3
<1>6. CASE ssh_packet_socket_callback
  <2>1. Handle(s2c[1]) /\ ssh_packet_incoming_filter(s2c[1].type)
    BY <1>6, Callback
  <2>2. CASE ssh_packet_kexinit(s2c[1])
    BY <2>2 DEF ssh_packet_kexinit, ssh_client_connection_callback
  <2>3. CASE ssh_packet_client_dh_reply(s2c[1])
    BY <2>3 DEF ssh_packet_client_dh_reply, send_newkeys
  <2>4. CASE ssh_packet_newkeys(s2c[1])
    <3>1. dh_handshake_state = "NEWKEYS_SENT" /\ UNCHANGED out_queue
      BY <2>1, <2>4
      DEF ssh_packet_newkeys, ssh_packet_incoming_filter, filter_transport,
          filter_kex, filter_auth, filter_connection
    <3> QED
      BY <1>2, <3>1
  <2>5. CASE channel_rcv_data(s2c[1])
    <3>1. session_state = "AUTHENTICATED"
      BY <2>1, <2>5
      DEF channel_rcv_data, ssh_packet_incoming_filter, filter_transport,
          filter_kex, filter_auth, filter_connection
    <3>2. authenticated /\ ~NewkeysDue
      BY <1>1, <3>1, NewkeysDue_State DEF SessionInv, StateInv
    <3>3. \/ \E t \in QueuedTypes : ssh_packet_send(t)
          \/ UNCHANGED <<out_queue, client_kex, dh_handshake_state>>
      BY <2>5 DEF channel_rcv_data, QueuedTypes
    <3> QED
      BY <1>3, <1>4, <3>2, <3>3
  <2>6. CASE \/ ssh_packet_disconnect_callback(s2c[1])
             \/ ssh_packet_ignore_callback(s2c[1])
             \/ ssh_packet_service_accept(s2c[1])
             \/ ssh_packet_userauth_success(s2c[1])
             \/ ssh_packet_userauth_failure(s2c[1])
             \/ channel_rcv_change_window(s2c[1])
    BY <1>3, <2>6
    DEF ssh_packet_disconnect_callback, ssh_packet_ignore_callback,
        ssh_packet_service_accept, ssh_packet_userauth_success,
        ssh_packet_userauth_failure, channel_rcv_change_window
  <2> QED
    BY <2>1, <2>2, <2>3, <2>4, <2>5, <2>6 DEF Handle
<1>7. CASE incoming_rekey
  BY <1>7 DEF incoming_rekey, ssh_send_rekex
<1>8. CASE connect_timeout \/ ConnectionLost
  BY <1>8 DEF connect_timeout, ConnectionLost, Error, Live
<1>9. CASE \/ ServerReceives \/ ServerSends \/ ServerRekeys
           \/ ServerDisconnects \/ UNCHANGED vars
  BY <1>3, <1>9
  DEF ServerReceives, ServerSends, ServerRekeys, ServerDisconnects, Client
<1> QED
  BY <1>5, <1>6, <1>7, <1>8, <1>9 DEF Next, Stopped

\* Nobody refuses.
LEMMA NeverRefused_Step ==
  ASSUME SessionInv, [Next]_vars
  PROVE  NeverRefused'
<1>1. NeverRefused
  BY DEF SessionInv
<1>2. CASE UNCHANGED <<s_refused, cause>>
  BY <1>1, <1>2 DEF NeverRefused
<1>3. CASE Call \/ incoming_rekey \/ UNCHANGED vars
  BY <1>2, <1>3
  DEF Call, Keep, ssh_connect, connect_fails, import_fails,
      ssh_userauth_request_service, ssh_userauth_publickey, auth_fails,
      auth_succeeds, channel_write_begins, channel_write_unblocked,
      channel_write, channel_write_returns, channel_read, channel_read_fails,
      ssh_disconnect, incoming_rekey
<1>4. CASE connect_timeout \/ ConnectionLost
  BY <1>1, <1>4 DEF connect_timeout, ConnectionLost, Error, Keep, NeverRefused
<1>5. CASE ssh_packet_socket_callback
  <2>1. Handle(s2c[1]) /\ UNCHANGED s_refused
    BY <1>5, Callback
  <2>2. UNCHANGED cause \/ cause' = "disconnect"
    BY <2>1
    DEF Handle, ssh_packet_disconnect_callback, Error,
        ssh_packet_ignore_callback, ssh_packet_kexinit,
        ssh_packet_client_dh_reply, ssh_packet_newkeys,
        ssh_packet_service_accept, ssh_packet_userauth_success,
        ssh_packet_userauth_failure, channel_rcv_change_window,
        channel_rcv_data
  <2> QED
    BY <1>1, <2>1, <2>2 DEF NeverRefused
<1>6. CASE ServerReceives
  <2>1. /\ UNCHANGED Client
        /\ \/ ServerKexinit \/ ServerDh \/ ServerNewkeys \/ ServerService
           \/ ServerAuth \/ ServerData \/ UNCHANGED server
    BY <1>6, ServerReceives_Effect
  <2> QED
    BY <1>2, <2>1
    DEF ServerKexinit, ServerDh, ServerNewkeys, ServerService, ServerAuth,
        ServerData, Client
<1>7. CASE ServerSends \/ ServerRekeys \/ ServerDisconnects
  BY <1>2, <1>7 DEF ServerSends, ServerRekeys, ServerDisconnects, Client
<1> QED
  BY <1>3, <1>4, <1>5, <1>6, <1>7 DEF Next, Stopped

-----------------------------------------------------------------------------
(* The window *)

\* A queue of n packets that loses its first one.
LEMMA Count_Shifted ==
  ASSUME NEW n \in Nat, NEW D \in SUBSET (1..n), NEW E \in SUBSET (1..n + 1),
         \A i \in 1..n : i \in D <=> i + 1 \in E
  PROVE  /\ Cardinality(D) \in Nat /\ Cardinality(E) \in Nat
         /\ Cardinality(E) = IF 1 \in E THEN Cardinality(D) + 1
                             ELSE Cardinality(D)
<1>1. /\ IsFiniteSet(D) /\ IsFiniteSet(E)
      /\ Cardinality(D) \in Nat /\ Cardinality(E) \in Nat
  <2>1. IsFiniteSet(1..n) /\ IsFiniteSet(1..n + 1)
    BY FS_Interval
  <2>2. IsFiniteSet(D) /\ IsFiniteSet(E)
    BY <2>1, FS_Subset
  <2> QED
    BY <2>2, FS_CardinalityType
<1> DEFINE S == E \ {1}
           g == [i \in D |-> i + 1]
<1>2. g \in [D -> S]
  OBVIOUS
<1>3. \A i, j \in D : g[i] = g[j] => i = j
  OBVIOUS
<1>4. \A j \in S : \E i \in D : g[i] = j
  <2> TAKE j \in S
  <2>1. j - 1 \in 1..n /\ (j - 1) + 1 = j
    OBVIOUS
  <2>2. j - 1 \in D
    BY <2>1
  <2>3. g[j - 1] = j
    BY <2>1, <2>2
  <2> QED
    BY <2>2, <2>3
<1> HIDE DEF g
<1>5. g \in Injection(D, S)
  BY <1>2, <1>3, Fun_IsInj
<1>6. g \in Surjection(D, S)
  BY <1>2, <1>4 DEF Surjection
<1>7. ExistsBijection(D, S)
  BY <1>5, <1>6 DEF ExistsBijection, Bijection
<1>8. Cardinality(S) = Cardinality(D)
  BY <1>1, <1>7, FS_Bijection
<1>9. CASE 1 \in E
  <2>1. Cardinality(S) = Cardinality(E) - 1
    BY <1>1, <1>9, FS_RemoveElement
  <2> QED
    BY <1>1, <1>8, <1>9, <2>1
<1>10. CASE 1 \notin E
  <2>1. S = E
    BY <1>10
  <2> QED
    BY <1>1, <1>8, <1>10, <2>1
<1> QED
  BY <1>9, <1>10

\* A queue of n packets to which one that counts is added.
LEMMA Count_Added ==
  ASSUME NEW n \in Nat, NEW D \in SUBSET (1..n), NEW m \in Nat, m > n
  PROVE  /\ Cardinality(D) \in Nat
         /\ Cardinality(D \cup {m}) = Cardinality(D) + 1
<1>1. IsFiniteSet(1..n)
  BY FS_Interval
<1>2. IsFiniteSet(D)
  BY <1>1, FS_Subset
<1>3. m \notin D
  OBVIOUS
<1> QED
  BY <1>2, <1>3, FS_AddElement, FS_CardinalityType

\* Packets of a type that are under way.
LEMMA Sent_Cut ==
  ASSUME NEW q, NEW r, Cut(q, r), NEW t
  PROVE  /\ Sent(t, q) \in Nat /\ Sent(t, r) \in Nat
         /\ Sent(t, q) = IF q[1].type = t THEN Sent(t, r) + 1 ELSE Sent(t, r)
<1> DEFINE D == {i \in 1..Len(r) : r[i].type = t}
           E == {i \in 1..Len(q) : q[i].type = t}
<1>1. /\ Len(r) \in Nat /\ Len(q) = Len(r) + 1
      /\ \A i \in 1..Len(r) : r[i] = q[i + 1] /\ i + 1 \in 1..Len(q)
  BY DEF Cut
<1>2. /\ D \in SUBSET (1..Len(r)) /\ E \in SUBSET (1..Len(r) + 1)
      /\ \A i \in 1..Len(r) : i \in D <=> i + 1 \in E
      /\ 1 \in E <=> q[1].type = t
  BY <1>1
<1> HIDE DEF D, E
<1>3. /\ Cardinality(D) \in Nat /\ Cardinality(E) \in Nat
      /\ Cardinality(E) = IF 1 \in E THEN Cardinality(D) + 1
                          ELSE Cardinality(D)
  BY <1>1, <1>2, Count_Shifted
<1>4. Sent(t, r) = Cardinality(D) /\ Sent(t, q) = Cardinality(E)
  BY DEF Sent, D, E
<1> QED
  BY <1>2, <1>3, <1>4

LEMMA Sent_Added ==
  ASSUME NEW q, NEW r, NEW u, NEW k, Added(q, r, u, k), NEW t
  PROVE  /\ Sent(t, q) \in Nat
         /\ Sent(t, r) = IF u = t THEN Sent(t, q) + 1 ELSE Sent(t, q)
<1> DEFINE D == {i \in 1..Len(q) : q[i].type = t}
           E == {i \in 1..Len(r) : r[i].type = t}
<1>1. /\ Len(q) \in Nat /\ Len(r) = Len(q) + 1
      /\ \A i \in 1..Len(q) : r[i] = q[i] /\ i \in 1..Len(r)
      /\ r[Len(q) + 1].type = u
      /\ \A i \in 1..Len(r) : i \in 1..Len(q) \/ i = Len(q) + 1
      /\ Len(q) + 1 \in 1..Len(r)
  BY DEF Added
<1>2. D \in SUBSET (1..Len(q)) /\ Len(q) + 1 \in Nat /\ Len(q) + 1 > Len(q)
  BY <1>1
<1>3. /\ u = t => E = D \cup {Len(q) + 1}
      /\ u # t => E = D
  BY <1>1
<1>4. Sent(t, q) = Cardinality(D) /\ Sent(t, r) = Cardinality(E)
  BY DEF Sent
<1> HIDE DEF D, E
<1>5. /\ Cardinality(D) \in Nat
      /\ Cardinality(D \cup {Len(q) + 1}) = Cardinality(D) + 1
  BY <1>1, <1>2, Count_Added
<1> QED
  BY <1>3, <1>4, <1>5

\* Packets of a type that wait to be sent.
LEMMA Queued_Cut ==
  ASSUME NEW q, NEW r, Cut(q, r), NEW t
  PROVE  /\ Queued(t, q) \in Nat /\ Queued(t, r) \in Nat
         /\ Queued(t, q) = IF q[1] = t THEN Queued(t, r) + 1 ELSE Queued(t, r)
<1> DEFINE D == {i \in 1..Len(r) : r[i] = t}
           E == {i \in 1..Len(q) : q[i] = t}
<1>1. /\ Len(r) \in Nat /\ Len(q) = Len(r) + 1
      /\ \A i \in 1..Len(r) : r[i] = q[i + 1] /\ i + 1 \in 1..Len(q)
  BY DEF Cut
<1>2. /\ D \in SUBSET (1..Len(r)) /\ E \in SUBSET (1..Len(r) + 1)
      /\ \A i \in 1..Len(r) : i \in D <=> i + 1 \in E
      /\ 1 \in E <=> q[1] = t
  BY <1>1
<1> HIDE DEF D, E
<1>3. /\ Cardinality(D) \in Nat /\ Cardinality(E) \in Nat
      /\ Cardinality(E) = IF 1 \in E THEN Cardinality(D) + 1
                          ELSE Cardinality(D)
  BY <1>1, <1>2, Count_Shifted
<1>4. Queued(t, r) = Cardinality(D) /\ Queued(t, q) = Cardinality(E)
  BY DEF Queued, D, E
<1> QED
  BY <1>2, <1>3, <1>4

LEMMA Queued_Extends ==
  ASSUME NEW q, NEW r, NEW ts, Extends(q, r, ts), NEW t, Len(ts) >= 1,
         \A i \in 2..Len(ts) : ts[i] # t
  PROVE  /\ Queued(t, q) \in Nat
         /\ Queued(t, r) = IF ts[1] = t THEN Queued(t, q) + 1
                           ELSE Queued(t, q)
<1> DEFINE D == {i \in 1..Len(q) : q[i] = t}
           E == {i \in 1..Len(r) : r[i] = t}
<1>1. /\ Len(q) \in Nat /\ Len(ts) \in Nat /\ Len(r) = Len(q) + Len(ts)
      /\ \A i \in 1..Len(q) : r[i] = q[i] /\ i \in 1..Len(r)
      /\ \A i \in 1..Len(ts) : r[Len(q) + i] = ts[i]
  BY DEF Extends
<1>2. /\ r[Len(q) + 1] = ts[1] /\ Len(q) + 1 \in 1..Len(r)
  BY <1>1
<1>3. \A i \in 1..Len(r) :
        i \in 1..Len(q) \/ i = Len(q) + 1 \/ r[i] # t
  <2> SUFFICES ASSUME NEW i \in 1..Len(r), i > Len(q) + 1 PROVE r[i] # t
    BY <1>1
  <2>1. /\ i - Len(q) \in 2..Len(ts) /\ i - Len(q) \in 1..Len(ts)
        /\ Len(q) + (i - Len(q)) = i
    BY <1>1
  <2>2. r[i] = ts[i - Len(q)]
    BY <1>1, <2>1
  <2> QED
    BY <2>1, <2>2
<1>4. D \in SUBSET (1..Len(q)) /\ Len(q) + 1 \in Nat /\ Len(q) + 1 > Len(q)
  BY <1>1
<1>5. /\ ts[1] = t => E = D \cup {Len(q) + 1}
      /\ ts[1] # t => E = D
  BY <1>1, <1>2, <1>3
<1>6. Queued(t, q) = Cardinality(D) /\ Queued(t, r) = Cardinality(E)
  BY DEF Queued
<1> HIDE DEF D, E
<1>7. /\ Cardinality(D) \in Nat
      /\ Cardinality(D \cup {Len(q) + 1}) = Cardinality(D) + 1
  BY <1>1, <1>4, Count_Added
<1> QED
  BY <1>5, <1>6, <1>7

LEMMA None_Counted ==
  ASSUME NEW q, NEW t
  PROVE  /\ (\A i \in 1..Len(q) : q[i].type # t) => Sent(t, q) = 0
         /\ (\A i \in 1..Len(q) : q[i] # t) => Queued(t, q) = 0
<1>1. ASSUME \A i \in 1..Len(q) : q[i].type # t
      PROVE  Sent(t, q) = 0
  <2>1. {i \in 1..Len(q) : q[i].type = t} = {}
    BY <1>1
  <2> QED
    BY <2>1, FS_EmptySet DEF Sent
<1>2. ASSUME \A i \in 1..Len(q) : q[i] # t
      PROVE  Queued(t, q) = 0
  <2>1. {i \in 1..Len(q) : q[i] = t} = {}
    BY <1>2
  <2> QED
    BY <2>1, FS_EmptySet DEF Queued
<1> QED
  BY <1>1, <1>2

LEMMA Counted ==
  ASSUME NEW q, Len(q) \in Nat, NEW t
  PROVE  Sent(t, q) \in Nat /\ Queued(t, q) \in Nat
<1>1. IsFiniteSet(1..Len(q))
  BY FS_Interval
<1>2. /\ IsFiniteSet({i \in 1..Len(q) : q[i].type = t})
      /\ IsFiniteSet({i \in 1..Len(q) : q[i] = t})
  BY <1>1, FS_Subset
<1> QED
  BY <1>2, FS_CardinalityType DEF Sent, Queued

\* Data that the client has sent or holds back, and grants of the server.
Written == Sent("CHANNEL_DATA", c2s)
Held    == Queued("CHANNEL_DATA", out_queue)
Owed    == Queued("WINDOW_ADJUST", s_todo)
Granted == Sent("WINDOW_ADJUST", s2c)

LEMMA CreditCounts ==
  ASSUME SessionInv
  PROVE  /\ Written \in Nat /\ Held \in Nat /\ Owed \in Nat /\ Granted \in Nat
         /\ credit \in Nat /\ Window \in Nat
         /\ Live => credit + Written + Held + Owed + Granted <= Window
<1>1. /\ c2s \in Seq(ClientPackets) /\ s2c \in Seq(ServerPackets)
      /\ s_todo \in Seq(TodoTypes) /\ out_queue \in Seq(QueuedTypes)
  BY DEF SessionInv, QueueInv, ClientPackets, ServerPackets
<1>2. /\ Len(c2s) \in Nat /\ Len(s2c) \in Nat
      /\ Len(s_todo) \in Nat /\ Len(out_queue) \in Nat
  BY <1>1, LenProperties
<1>3. /\ Written \in Nat /\ Held \in Nat /\ Owed \in Nat /\ Granted \in Nat
  BY <1>2, Counted DEF Written, Held, Owed, Granted
<1>4. Window \in Nat /\ credit \in Nat
  BY SessionAssumption DEF SessionAssumption, SessionInv, TypeOK
<1>5. Live => credit + Written + Held + Owed + Granted <= Window
  BY DEF SessionInv, CreditInv, Written, Held, Owed, Granted
<1> QED
  BY <1>3, <1>4, <1>5

\* A packet of the client that takes nothing of the window.
LEMMA Written_Added ==
  ASSUME NEW t, NEW k, Added(c2s, c2s', t, k), t # "CHANNEL_DATA"
  PROVE  Written' = Written
BY Sent_Added DEF Written

\* ssh_packet_send: the packet is counted where it went.
LEMMA ssh_packet_send_Credit ==
  ASSUME SessionInv, Live, authenticated,
         NEW t \in QueuedTypes, ssh_packet_send(t)
  PROVE  Written' + Held' = IF t = "CHANNEL_DATA" THEN Written + Held + 1
                            ELSE Written + Held
<1>1. out_queue \in Seq(QueuedTypes) /\ Written \in Nat /\ Held \in Nat
  BY CreditCounts DEF SessionInv, QueueInv
<1>2. ASSUME out_queue' = Append(out_queue, t)
      PROVE  Held' = IF t = "CHANNEL_DATA" THEN Held + 1 ELSE Held
  <2>1. Extends(out_queue, out_queue', <<t>>)
    BY <1>1, <1>2, Append_Extends
  <2> QED
    BY <2>1, Queued_Extends DEF Held
<1>3. CASE Rekexed /\ out_queue' = Append(out_queue, t)
  <2>1. Written' = Written
    BY <1>3, Written_Added DEF Rekexed
  <2> QED
    BY <1>1, <1>2, <1>3, <2>1
<1>4. CASE Keeps /\ out_queue' = Append(out_queue, t)
  <2>1. Written' = Written
    BY <1>4 DEF Keeps, Written
  <2> QED
    BY <1>1, <1>2, <1>4, <2>1
<1>5. CASE Says(t) /\ out_queue' = out_queue
  <2>1. Held' = Held
    BY <1>5 DEF Held
  <2>2. Written' = IF t = "CHANNEL_DATA" THEN Written + 1 ELSE Written
    BY <1>5, Sent_Added DEF Says, Written
  <2> QED
    BY <1>1, <2>1, <2>2
<1> QED
  BY <1>3, <1>4, <1>5, ssh_packet_send_Effect

\* The calls of the thread.
LEMMA Credit_Call ==
  ASSUME SessionInv, Live, Call
  PROVE  /\ UNCHANGED <<s2c, s_todo>> /\ credit' \in Nat
         /\ credit' + (Written' + Held') = credit + (Written + Held)
<1>0. Written \in Nat /\ Held \in Nat /\ credit \in Nat
  BY CreditCounts
<1>1. UNCHANGED <<s2c, s_todo>>
  BY DEF Call, Keep, ssh_connect, connect_fails, import_fails,
        ssh_userauth_request_service, ssh_userauth_publickey, auth_fails,
        auth_succeeds, channel_write_begins, channel_write_unblocked,
        channel_write, channel_write_returns, channel_read,
        channel_read_fails, ssh_disconnect
<1>2. CASE \/ connect_fails \/ import_fails \/ auth_succeeds
           \/ channel_write_begins \/ channel_write_unblocked
           \/ channel_write_returns \/ channel_read_fails
  <2>1. UNCHANGED <<c2s, out_queue, credit>>
    BY <1>2
    DEF connect_fails, import_fails, auth_succeeds, channel_write_begins,
        channel_write_unblocked, channel_write_returns, channel_read_fails
  <2> QED
    BY <1>0, <1>1, <2>1 DEF Written, Held
<1>3. CASE \/ ssh_connect \/ ssh_userauth_request_service
           \/ ssh_userauth_publickey \/ auth_fails \/ ssh_disconnect
  <2>1. UNCHANGED <<out_queue, credit>>
    BY <1>3
    DEF ssh_connect, ssh_userauth_request_service, ssh_userauth_publickey,
        auth_fails, ssh_disconnect
  <2>2. PICK t \in {"KEXINIT", "SERVICE_REQUEST", "USERAUTH_REQUEST",
                    "DISCONNECT"} : packet_send2(<<t>>)
    BY <1>3
    DEF ssh_connect, ssh_userauth_request_service, ssh_userauth_publickey,
        auth_fails, ssh_disconnect
  <2>3. Added(c2s, c2s', t, out_key)
    BY <2>2, packet_send2_Sent DEF ClientTypes
  <2>4. Written' = Written
    BY <2>3, Written_Added
  <2> QED
    BY <1>0, <1>1, <2>1, <2>4 DEF Held
<1>4. CASE channel_write
  <2>1. /\ ssh_packet_send("CHANNEL_DATA") /\ credit > 0
        /\ credit' = credit - 1 /\ pc = "write"
    BY <1>4 DEF channel_write, Runs, write_credit
  <2>2. authenticated
    BY <2>1 DEF SessionInv, StateInv
  <2>3. Written' + Held' = Written + Held + 1
    BY <2>1, <2>2, ssh_packet_send_Credit DEF QueuedTypes
  <2> QED
    BY <1>0, <1>1, <2>1, <2>3
<1>5. CASE channel_read
  <2>1. /\ ssh_packet_send("WINDOW_ADJUST") \/ UNCHANGED <<c2s, out_queue>>
        /\ UNCHANGED credit /\ pc = "read"
    BY <1>5 DEF channel_read, Runs
  <2>2. authenticated
    BY <2>1 DEF SessionInv, StateInv
  <2>3. CASE UNCHANGED <<c2s, out_queue>>
    BY <1>0, <1>1, <2>1, <2>3 DEF Written, Held
  <2>4. CASE ssh_packet_send("WINDOW_ADJUST")
    <3>1. Written' + Held' = Written + Held
      BY <2>2, <2>4, ssh_packet_send_Credit DEF QueuedTypes
    <3> QED
      BY <1>0, <1>1, <2>1, <3>1
  <2> QED
    BY <2>1, <2>3, <2>4
<1> QED
  BY <1>2, <1>3, <1>4, <1>5 DEF Call

\* The packet handlers.
LEMMA Credit_Callback ==
  ASSUME SessionInv, Live', ssh_packet_socket_callback
  PROVE  /\ UNCHANGED s_todo /\ credit' \in Nat
         /\ (credit' + (Written' + Held')) + Granted'
                = (credit + (Written + Held)) + Granted
<1> DEFINE p == s2c[1]
<1>0. Written \in Nat /\ Held \in Nat /\ credit \in Nat /\ Granted \in Nat
  BY CreditCounts
<1>1. /\ Live /\ Cut(s2c, s2c') /\ Handle(p) /\ UNCHANGED s_todo
      /\ ssh_packet_incoming_filter(p.type)
  BY Callback
<1>2. /\ Granted' \in Nat
      /\ Granted = IF p.type = "WINDOW_ADJUST" THEN Granted' + 1 ELSE Granted'
  BY <1>1, Sent_Cut DEF Granted
<1>3. CASE channel_rcv_change_window(p)
  <2>1. /\ p.type = "WINDOW_ADJUST" /\ credit' = credit + 1
        /\ UNCHANGED <<c2s, out_queue>>
    BY <1>3 DEF channel_rcv_change_window
  <2>2. Written' = Written /\ Held' = Held
    BY <2>1 DEF Written, Held
  <2> QED
    BY <1>0, <1>1, <1>2, <2>1, <2>2
<1>4. CASE /\ p.type # "WINDOW_ADJUST" /\ UNCHANGED credit
           /\ Written' + Held' = Written + Held
  BY <1>0, <1>1, <1>2, <1>4
<1>5. CASE \/ ssh_packet_ignore_callback(p) \/ ssh_packet_newkeys(p)
           \/ ssh_packet_service_accept(p) \/ ssh_packet_userauth_success(p)
           \/ ssh_packet_userauth_failure(p)
  <2>1. p.type # "WINDOW_ADJUST" /\ UNCHANGED <<c2s, out_queue, credit>>
    BY <1>5
    DEF ssh_packet_ignore_callback, ssh_packet_newkeys,
        ssh_packet_service_accept, ssh_packet_userauth_success,
        ssh_packet_userauth_failure
  <2>2. Written' + Held' = Written + Held
    BY <2>1 DEF Written, Held
  <2> QED
    BY <1>4, <2>1, <2>2
<1>6. CASE ssh_packet_kexinit(p)
  <2>1. p.type # "WINDOW_ADJUST" /\ UNCHANGED <<out_queue, credit>>
    BY <1>6 DEF ssh_packet_kexinit
  <2>2. Written' = Written
    <3>1. CASE client_kex
      <4>1. packet_send2(<<"KEXDH_INIT">>)
        BY <1>6, <3>1 DEF ssh_packet_kexinit, ssh_client_connection_callback
      <4>2. Added(c2s, c2s', "KEXDH_INIT", out_key)
        BY <1>1, <4>1, packet_send2_Sent DEF ClientTypes
      <4> QED
        BY <4>2, Written_Added
    <3>2. CASE ~client_kex
      <4>1. c2s' = c2s \o Packets(<<"KEXINIT", "KEXDH_INIT">>, out_key)
        BY <1>1, <1>6, <3>2
        DEF ssh_packet_kexinit, ssh_client_connection_callback, packet_send2,
            Live
      <4>2. /\ c2s \in Seq(ClientPackets)
            /\ [type |-> "KEXINIT", key |-> out_key] \in ClientPackets
            /\ [type |-> "KEXDH_INIT", key |-> out_key] \in ClientPackets
        BY DEF SessionInv, QueueInv, TypeOK, ClientPackets, ClientTypes
      <4>3. /\ Len(c2s) \in Nat /\ Len(c2s') = Len(c2s) + 2
            /\ \A i \in 1..Len(c2s) : c2s'[i] = c2s[i]
            /\ c2s'[Len(c2s) + 1].type = "KEXINIT"
            /\ c2s'[Len(c2s) + 2].type = "KEXDH_INIT"
        BY <4>1, <4>2, TwoPackets_Sent
      <4>4. {i \in 1..Len(c2s') : c2s'[i].type = "CHANNEL_DATA"}
                = {i \in 1..Len(c2s) : c2s[i].type = "CHANNEL_DATA"}
        <5>1. \A i \in 1..Len(c2s') : \/ i \in 1..Len(c2s)
                                      \/ c2s'[i].type # "CHANNEL_DATA"
          BY <4>3
        <5>2. \A i \in 1..Len(c2s) : i \in 1..Len(c2s')
          BY <4>3
        <5> QED
          BY <4>3, <5>1, <5>2
      <4> QED
        BY <4>4 DEF Written, Sent
    <3> QED
      BY <3>1, <3>2
  <2>3. Written' + Held' = Written + Held
    BY <2>1, <2>2 DEF Held
  <2> QED
    BY <1>4, <2>1, <2>3
<1>7. CASE ssh_packet_client_dh_reply(p)
  <2>1. /\ p.type # "WINDOW_ADJUST" /\ UNCHANGED credit /\ out_queue' = <<>>
    BY <1>7 DEF ssh_packet_client_dh_reply, send_newkeys
  <2>2. /\ Len(c2s) = 0
        /\ Len(out_queue) \in Nat /\ Len(c2s') = Len(out_queue) + 1
        /\ c2s'[1].type = "NEWKEYS"
        /\ \A i \in 1..Len(out_queue) : c2s'[i + 1].type = out_queue[i]
    BY <1>7, ssh_packet_client_dh_reply_Kex
  <2>3. Written = 0 /\ Held' = 0
    <3>1. \A i \in 1..Len(c2s) : c2s[i].type # "CHANNEL_DATA"
      BY <2>2
    <3>2. \A i \in 1..Len(out_queue') : out_queue'[i] # "CHANNEL_DATA"
      BY <2>1
    <3> QED
      BY <3>1, <3>2, None_Counted DEF Written, Held
  <2>4. Written' = Held
    <3> DEFINE D == {i \in 1..Len(out_queue) : out_queue[i] = "CHANNEL_DATA"}
               E == {i \in 1..Len(c2s') : c2s'[i].type = "CHANNEL_DATA"}
    <3>1. /\ D \in SUBSET (1..Len(out_queue))
          /\ E \in SUBSET (1..Len(out_queue) + 1)
          /\ \A i \in 1..Len(out_queue) : i \in D <=> i + 1 \in E
          /\ 1 \notin E
      BY <2>2
    <3>2. Held = Cardinality(D) /\ Written' = Cardinality(E)
      BY DEF Held, Written, Queued, Sent
    <3>3. PICK n \in Nat : n = Len(out_queue)
      BY <2>2
    <3> HIDE DEF D, E
    <3>4. /\ D \in SUBSET (1..n) /\ E \in SUBSET (1..n + 1)
          /\ \A i \in 1..n : i \in D <=> i + 1 \in E
      BY <3>1, <3>3
    <3>5. Cardinality(E) = IF 1 \in E THEN Cardinality(D) + 1
                           ELSE Cardinality(D)
      BY <3>4, Count_Shifted
    <3> QED
      BY <3>1, <3>2, <3>5
  <2>5. Written' + Held' = Written + Held
    BY <1>0, <2>3, <2>4
  <2> QED
    BY <1>4, <2>1, <2>5
<1>8. CASE channel_rcv_data(p)
  <2>1. /\ p.type # "WINDOW_ADJUST" /\ UNCHANGED credit
        /\ ssh_packet_send("WINDOW_ADJUST") \/ UNCHANGED <<c2s, out_queue>>
    BY <1>8 DEF channel_rcv_data
  <2>2. session_state = "AUTHENTICATED"
    BY <1>1, <1>8
    DEF channel_rcv_data, ssh_packet_incoming_filter, filter_transport,
        filter_kex, filter_auth, filter_connection
  <2>3. authenticated
    BY <1>1, <2>2 DEF SessionInv, StateInv
  <2>4. Written' + Held' = Written + Held
    <3>1. CASE UNCHANGED <<c2s, out_queue>>
      BY <3>1 DEF Written, Held
    <3>2. CASE ssh_packet_send("WINDOW_ADJUST")
      BY <1>1, <2>3, <3>2, ssh_packet_send_Credit DEF QueuedTypes
    <3> QED
      BY <2>1, <3>1, <3>2
  <2> QED
    BY <1>4, <2>1, <2>4
<1>9. ~ssh_packet_disconnect_callback(p)
  BY DEF ssh_packet_disconnect_callback, Error, Live
<1> QED
  BY <1>1, <1>3, <1>5, <1>6, <1>7, <1>8, <1>9 DEF Handle

\* What the server takes it owes, and what it owes it grants.
LEMMA Credit_ServerReceives ==
  ASSUME SessionInv, ServerReceives
  PROVE  /\ UNCHANGED <<credit, out_queue>>
         /\ Written' \in Nat /\ Owed' \in Nat /\ Granted' \in Nat
         /\ (Written' + Owed') + Granted' <= (Written + Owed) + Granted
<1>0. Written \in Nat /\ Owed \in Nat /\ Granted \in Nat
  BY CreditCounts
<1>1. /\ Live /\ Cut(c2s, c2s') /\ UNCHANGED Client
  BY ServerReceives_Effect
<1>2. UNCHANGED <<credit, out_queue>>
  BY <1>1 DEF Client
<1>3. /\ Written' \in Nat
      /\ Written = IF c2s[1].type = "CHANNEL_DATA" THEN Written' + 1
                   ELSE Written'
  BY <1>1, Sent_Cut DEF Written
<1>4. CASE Owed' = Owed /\ Granted' = Granted
  BY <1>0, <1>2, <1>3, <1>4
<1>5. CASE c2s[1].type = "KEXINIT" /\ ServerKexinit /\ UNCHANGED s_todo
  <2>1. UNCHANGED s2c \/ SSend(<<"KEXINIT">>)
    BY <1>5 DEF ServerKexinit
  <2>2. CASE UNCHANGED s2c
    BY <1>4, <1>5, <2>2 DEF Owed, Granted
  <2>3. CASE SSend(<<"KEXINIT">>)
    <3>1. Added(s2c, s2c', "KEXINIT", s_out)
      BY <2>3, SSend_Sent DEF ServerTypes
    <3>2. Granted' = Granted
      BY <3>1, Sent_Added DEF Granted
    <3> QED
      BY <1>4, <1>5, <3>2 DEF Owed
  <2> QED
    BY <2>1, <2>2, <2>3
<1>6. CASE c2s[1].type = "KEXDH_INIT" /\ ServerDh
  <2>1. /\ Len(s2c') = 2 /\ s2c'[1].type = "KEXDH_REPLY"
        /\ s2c'[2].type = "NEWKEYS"
    BY <1>6, ServerDh_Kex
  <2>2. \A i \in 1..Len(s2c') : s2c'[i].type # "WINDOW_ADJUST"
    BY <2>1
  <2>3. Granted' = 0
    BY <2>2, None_Counted DEF Granted
  <2>4. s_todo' = <<"EXT_INFO">> \/ s_todo' = s_todo
    BY <1>6 DEF ServerDh
  <2>5. Owed' = 0 \/ Owed' = Owed
    <3>1. CASE s_todo' = <<"EXT_INFO">>
      <4>1. \A i \in 1..Len(s_todo') : s_todo'[i] # "WINDOW_ADJUST"
        BY <3>1
      <4> QED
        BY <4>1, None_Counted DEF Owed
    <3>2. CASE s_todo' = s_todo
      BY <3>2 DEF Owed
    <3> QED
      BY <2>4, <3>1, <3>2
  <2> QED
    BY <1>0, <1>2, <1>3, <1>6, <2>3, <2>5
<1>7. CASE /\ c2s[1].type = "SERVICE_REQUEST" /\ ServerService
           /\ Extends(s_todo, s_todo', <<"SERVICE_ACCEPT">>)
  <2>1. Owed' = Owed
    BY <1>7, Queued_Extends DEF Owed
  <2>2. Granted' = Granted
    BY <1>7 DEF ServerService, Granted
  <2> QED
    BY <1>4, <2>1, <2>2
<1>8. CASE /\ c2s[1].type = "USERAUTH_REQUEST" /\ ServerAuth
           /\ \/ Extends(s_todo, s_todo',
                         <<"USERAUTH_BANNER", "USERAUTH_SUCCESS">>)
              \/ Extends(s_todo, s_todo',
                         <<"USERAUTH_SUCCESS", "GLOBAL_REQUEST">>)
              \/ Extends(s_todo, s_todo', <<"USERAUTH_FAILURE">>)
  <2>1. Owed' = Owed
    <3>1. CASE Extends(s_todo, s_todo',
                       <<"USERAUTH_BANNER", "USERAUTH_SUCCESS">>)
      BY <3>1, Queued_Extends DEF Owed
    <3>2. CASE Extends(s_todo, s_todo',
                       <<"USERAUTH_SUCCESS", "GLOBAL_REQUEST">>)
      BY <3>2, Queued_Extends DEF Owed
    <3>3. CASE Extends(s_todo, s_todo', <<"USERAUTH_FAILURE">>)
      BY <3>3, Queued_Extends DEF Owed
    <3> QED
      BY <1>8, <3>1, <3>2, <3>3
  <2>2. Granted' = Granted
    BY <1>8 DEF ServerAuth, Granted
  <2> QED
    BY <1>4, <2>1, <2>2
<1>9. CASE /\ c2s[1].type = "CHANNEL_DATA" /\ ServerData
           /\ \/ Extends(s_todo, s_todo', <<"WINDOW_ADJUST", "CHANNEL_DATA">>)
              \/ Extends(s_todo, s_todo', <<"WINDOW_ADJUST">>)
  <2>1. Owed' = Owed + 1
    <3>1. CASE Extends(s_todo, s_todo', <<"WINDOW_ADJUST", "CHANNEL_DATA">>)
      BY <3>1, Queued_Extends DEF Owed
    <3>2. CASE Extends(s_todo, s_todo', <<"WINDOW_ADJUST">>)
      BY <3>2, Queued_Extends DEF Owed
    <3> QED
      BY <1>9, <3>1, <3>2
  <2>2. Granted' = Granted
    BY <1>9 DEF ServerData, Granted
  <2>3. Written = Written' + 1
    BY <1>3, <1>9
  <2>4. PICK w \in Nat, o \in Nat, g \in Nat :
            w = Written' /\ o = Owed /\ g = Granted
    BY <1>0, <1>3
  <2>5. Owed' = o + 1 /\ Granted' = g /\ Written = w + 1
    BY <2>1, <2>2, <2>3, <2>4
  <2>a. w \in Nat /\ o \in Nat /\ g \in Nat
    BY <2>4
  <2>6. (w + (o + 1)) + g <= ((w + 1) + o) + g
    BY <2>a
  <2>7. o + 1 \in Nat
    BY <2>a
  <2>8. (Written' + Owed') + Granted' <= (Written + Owed) + Granted
    BY <2>4, <2>5, <2>6
  <2> QED
    BY <1>2, <1>3, <2>4, <2>5, <2>7, <2>8
<1>10. CASE \/ ServerNewkeys /\ UNCHANGED s_todo
            \/ UNCHANGED <<s2c, server>>
  BY <1>4, <1>10 DEF ServerNewkeys, Owed, Granted
<1> QED
  BY <1>5, <1>6, <1>7, <1>8, <1>9, <1>10, ServerReceives_Todo

\* The client never has more of the window than the server granted.
LEMMA CreditInv_Step ==
  ASSUME SessionInv, [Next]_vars
  PROVE  CreditInv' /\ credit' \in 0..Window
<1>0. /\ Written \in Nat /\ Held \in Nat /\ Owed \in Nat /\ Granted \in Nat
      /\ credit \in Nat /\ Window \in Nat
      /\ Live => credit + Written + Held + Owed + Granted <= Window
  BY CreditCounts
<1>1. /\ Written' \in Nat /\ Held' \in Nat /\ Owed' \in Nat /\ Granted' \in Nat
  <2>1. /\ c2s' \in Seq(ClientPackets) /\ s2c' \in Seq(ServerPackets)
        /\ s_todo' \in Seq(TodoTypes) /\ out_queue' \in Seq(QueuedTypes)
    BY QueueInv_Step DEF QueueInv, ClientPackets, ServerPackets
  <2>2. /\ Len(c2s') \in Nat /\ Len(s2c') \in Nat
        /\ Len(s_todo') \in Nat /\ Len(out_queue') \in Nat
    BY <2>1, LenProperties
  <2> QED
    BY <2>2, Counted DEF Written, Held, Owed, Granted
<1>2. CASE ~Live'
  <2>1. UNCHANGED credit
    <3>1. CASE Live
      <4>1. ssh_packet_disconnect_callback(s2c[1])
            \/ connect_timeout \/ ConnectionLost
        <5>1. CASE ssh_packet_socket_callback
          <6>1. Handle(s2c[1])
            BY <5>1, Callback
          <6> QED
            BY <1>2, <3>1, <6>1
            DEF Handle, ssh_packet_ignore_callback, ssh_packet_kexinit,
                ssh_client_connection_callback,
                ssh_packet_client_dh_reply, ssh_packet_newkeys,
                ssh_packet_service_accept, ssh_packet_userauth_success,
                ssh_packet_userauth_failure, channel_rcv_change_window,
                channel_rcv_data, Live
        <5>2. ~Call /\ ~incoming_rekey /\ ~UNCHANGED vars
          BY <1>2, <3>1
          DEF Call, ssh_connect, connect_fails, import_fails,
              ssh_userauth_request_service, ssh_userauth_publickey,
              auth_fails, auth_succeeds, channel_write_begins,
              channel_write_unblocked, channel_write, channel_write_returns,
              channel_read, channel_read_fails, ssh_disconnect,
              incoming_rekey, Live
        <5>3. ~ServerReceives /\ ~ServerSends /\ ~ServerRekeys
              /\ ~ServerDisconnects
          BY <1>2, <3>1
          DEF ServerReceives, ServerSends, ServerRekeys, ServerDisconnects,
              Client, Live
        <5> QED
          BY <5>1, <5>2, <5>3 DEF Next, Stopped
      <4> QED
        BY <4>1
        DEF ssh_packet_disconnect_callback, connect_timeout, ConnectionLost
    <3>2. CASE ~Live
      BY <3>2
      DEF Next, Call, ssh_connect, connect_fails, import_fails,
          ssh_userauth_request_service, ssh_userauth_publickey,
          auth_fails, auth_succeeds, channel_write_begins,
          channel_write_unblocked, channel_write, channel_write_returns,
          channel_read, channel_read_fails, ssh_disconnect,
          ssh_packet_socket_callback, incoming_rekey, connect_timeout,
          ConnectionLost, ServerReceives, ServerSends, ServerRekeys,
          ServerDisconnects, Stopped, Client, Live
    <3> QED
      BY <3>1, <3>2
  <2> QED
    BY <1>2, <2>1 DEF CreditInv, SessionInv, TypeOK
<1>3. CASE Live'
  <2>0. Live
    BY <1>3, ErrorStays
  <2>a. PICK w \in Nat, h \in Nat, o \in Nat, g \in Nat :
            w = Written' /\ h = Held' /\ o = Owed' /\ g = Granted'
    BY <1>1
  <2>b. PICK W \in Nat, w0 \in Nat, h0 \in Nat, o0 \in Nat, g0 \in Nat,
             c0 \in Nat :
            /\ W = Window /\ c0 = credit
            /\ w0 = Written /\ h0 = Held /\ o0 = Owed /\ g0 = Granted
    BY <1>0
  <2>c. c0 + w0 + h0 + o0 + g0 <= W
    BY <1>0, <2>0, <2>b
  <2>d. /\ w \in Nat /\ h \in Nat /\ o \in Nat /\ g \in Nat /\ W \in Nat
        /\ w0 \in Nat /\ h0 \in Nat /\ o0 \in Nat /\ g0 \in Nat /\ c0 \in Nat
    BY <2>a, <2>b
  <2>1. SUFFICES ASSUME TRUE
                 PROVE  \E c \in Nat : c = credit' /\ c + w + h + o + g <= W
    <3>1. ASSUME NEW c \in Nat, c = credit', c + w + h + o + g <= W
          PROVE  CreditInv' /\ c \in 0..W
      BY <2>a, <2>b, <3>1 DEF CreditInv, Written, Held, Owed, Granted
    <3> QED
      BY <2>b, <3>1
  <2>2. CASE Call
    <3>1. Owed' = Owed /\ Granted' = Granted
      BY <2>0, <2>2, Credit_Call DEF Owed, Granted
    <3>2. /\ credit' \in Nat
          /\ credit' + (Written' + Held') = credit + (Written + Held)
      BY <2>0, <2>2, Credit_Call
    <3>3. PICK c \in Nat : c = credit'
      BY <3>2
    <3>4. /\ c \in Nat /\ c + (w + h) = c0 + (w0 + h0)
          /\ o = o0 /\ g = g0
      BY <2>a, <2>b, <3>1, <3>2, <3>3
    <3>5. c + w + h + o + g <= W
      BY <2>c, <2>d, <3>4
    <3> QED
      BY <3>3, <3>5
  <2>3. CASE ssh_packet_socket_callback
    <3>1. Owed' = Owed
      BY <1>3, <2>3, Credit_Callback DEF Owed
    <3>2. /\ credit' \in Nat
          /\ (credit' + (Written' + Held')) + Granted'
                = (credit + (Written + Held)) + Granted
      BY <1>3, <2>3, Credit_Callback
    <3>3. PICK c \in Nat : c = credit'
      BY <3>2
    <3>4. /\ c \in Nat /\ o = o0
          /\ (c + (w + h)) + g = (c0 + (w0 + h0)) + g0
      BY <2>a, <2>b, <3>1, <3>2, <3>3
    <3>5. c + w + h + o + g <= W
      BY <2>c, <2>d, <3>4
    <3> QED
      BY <3>3, <3>5
  <2>4. CASE incoming_rekey
    <3>1. Rekexed /\ UNCHANGED <<s2c, out_queue, credit, s_todo>>
      BY <2>0, <2>4, ssh_send_rekex_Effect DEF incoming_rekey
    <3>2. Written' = Written
      BY <3>1, Written_Added DEF Rekexed
    <3>3. Held' = Held /\ Owed' = Owed /\ Granted' = Granted
      BY <3>1 DEF Held, Owed, Granted
    <3>4. w = w0 /\ h = h0 /\ o = o0 /\ g = g0 /\ c0 = credit'
      BY <2>a, <2>b, <3>1, <3>2, <3>3
    <3> QED
      BY <2>c, <3>4
  <2>5. CASE connect_timeout \/ ConnectionLost
    BY <1>3, <2>5 DEF connect_timeout, ConnectionLost, Error, Live
  <2>6. CASE ServerReceives
    <3>1. /\ UNCHANGED <<credit, out_queue>>
          /\ (Written' + Owed') + Granted' <= (Written + Owed) + Granted
      BY <2>6, Credit_ServerReceives
    <3>2. Held' = Held
      BY <3>1 DEF Held
    <3>3. h = h0 /\ (w + o) + g <= (w0 + o0) + g0
      BY <2>a, <2>b, <3>1, <3>2
    <3>4. c0 + w + h + o + g <= W
      BY <2>c, <2>d, <3>3
    <3> QED
      BY <2>b, <3>1, <3>4
  <2>7. CASE ServerSends
    <3>1. /\ Cut(s_todo, s_todo') /\ Added(s2c, s2c', s_todo[1], s_out)
          /\ UNCHANGED <<c2s, out_queue, credit>>
      BY <2>7, ServerSends_Effect DEF Client
    <3>2. Owed = IF s_todo[1] = "WINDOW_ADJUST" THEN Owed' + 1 ELSE Owed'
      BY <3>1, Queued_Cut DEF Owed
    <3>3. Granted' = IF s_todo[1] = "WINDOW_ADJUST" THEN Granted + 1
                     ELSE Granted
      BY <3>1, Sent_Added DEF Granted
    <3>4. Written' = Written /\ Held' = Held
      BY <3>1 DEF Written, Held
    <3>5. o + g = o0 + g0
      BY <2>a, <2>b, <3>2, <3>3
    <3>6. w = w0 /\ h = h0
      BY <2>a, <2>b, <3>4
    <3>7. c0 + w + h + o + g <= W
      BY <2>c, <2>d, <3>5, <3>6
    <3> QED
      BY <2>b, <3>1, <3>7
  <2>8. CASE ServerRekeys \/ ServerDisconnects
    <3>1. PICK t \in {"KEXINIT", "DISCONNECT"} :
              /\ SSend(<<t>>)
              /\ UNCHANGED <<c2s, out_queue, credit, s_todo>>
      BY <2>8 DEF ServerRekeys, ServerDisconnects, Client
    <3>2. Added(s2c, s2c', t, s_out)
      BY <3>1, SSend_Sent DEF ServerTypes
    <3>3. Granted' = Granted
      BY <3>2, Sent_Added DEF Granted
    <3>4. Written' = Written /\ Held' = Held /\ Owed' = Owed
      BY <3>1 DEF Written, Held, Owed
    <3>5. w = w0 /\ h = h0 /\ o = o0 /\ g = g0 /\ c0 = credit'
      BY <2>a, <2>b, <3>1, <3>3, <3>4
    <3> QED
      BY <2>c, <3>5
  <2>9. CASE UNCHANGED vars
    <3>1. /\ Written' = Written /\ Held' = Held /\ Owed' = Owed
          /\ Granted' = Granted /\ credit' = credit
      BY <2>9 DEF Written, Held, Owed, Granted
    <3>2. w = w0 /\ h = h0 /\ o = o0 /\ g = g0 /\ c0 = credit'
      BY <2>a, <2>b, <3>1
    <3> QED
      BY <2>c, <3>2
  <2> QED
    BY <2>2, <2>3, <2>4, <2>5, <2>6, <2>7, <2>8, <2>9 DEF Next, Stopped
<1> QED
  BY <1>2, <1>3

-----------------------------------------------------------------------------
(* Types *)

\* A read of the socket brought no more packets than are under way.
LEMMA burst_Step ==
  ASSUME SessionInv, [Next]_vars
  PROVE  burst' \in 0..Len(s2c')
<1>0. burst \in 0..Len(s2c) /\ s2c \in Seq(ServerPackets) /\ Len(s2c) \in Nat
  BY LenProperties DEF SessionInv, TypeOK, QueueInv, ServerPackets
<1>1. CASE UNCHANGED <<s2c, burst>>
  BY <1>0, <1>1
<1>2. ASSUME NEW t, NEW k, Added(s2c, s2c', t, k), UNCHANGED burst
      PROVE  burst' \in 0..Len(s2c')
  BY <1>0, <1>2 DEF Added
<1>3. CASE Call \/ incoming_rekey \/ connect_timeout
  <2>1. UNCHANGED <<s2c, burst>>
    BY <1>3
    DEF Call, ssh_connect, connect_fails, import_fails,
        ssh_userauth_request_service, ssh_userauth_publickey,
        auth_fails, auth_succeeds, channel_write_begins,
        channel_write_unblocked, channel_write, channel_write_returns,
        channel_read, channel_read_fails, ssh_disconnect, incoming_rekey,
        connect_timeout, Keep
  <2> QED
    BY <1>1, <2>1
<1>4. CASE ssh_packet_socket_callback
  BY <1>4, Callback
<1>5. CASE ConnectionLost
  <2>1. s2c' = <<>> /\ burst' = 0
    BY <1>5 DEF ConnectionLost
  <2> QED
    BY <2>1
<1>6. CASE ServerReceives
  <2>1. UNCHANGED burst
    BY <1>6, ServerReceives_Effect DEF Client
  <2>2. CASE UNCHANGED s2c
    BY <1>1, <2>1, <2>2
  <2>3. CASE SSend(<<"KEXINIT">>)
    <3>1. Added(s2c, s2c', "KEXINIT", s_out)
      BY <2>3, SSend_Sent DEF ServerTypes
    <3> QED
      BY <1>2, <2>1, <3>1
  <2>4. CASE c2s[1].type = "KEXDH_INIT" /\ ServerDh
    <3>1. s2c = <<>> /\ Len(s2c') = 2
      BY <1>6, <2>4, ServerDh_Kex
    <3>2. burst = 0
      BY <1>0, <3>1
    <3> QED
      BY <2>1, <3>1, <3>2
  <2> QED
    BY <1>6, <2>2, <2>3, <2>4, ServerReceives_Effect
    DEF ServerKexinit, ServerNewkeys, ServerService, ServerAuth, ServerData
<1>7. CASE ServerSends
  <2>1. Added(s2c, s2c', s_todo[1], s_out) /\ UNCHANGED burst
    BY <1>7, ServerSends_Effect DEF Client
  <2> QED
    BY <1>2, <2>1
<1>8. CASE ServerRekeys \/ ServerDisconnects
  <2>1. PICK t \in {"KEXINIT", "DISCONNECT"} : SSend(<<t>>)
    BY <1>8 DEF ServerRekeys, ServerDisconnects
  <2>2. Added(s2c, s2c', t, s_out)
    BY <2>1, SSend_Sent DEF ServerTypes
  <2>3. UNCHANGED burst
    BY <1>8 DEF ServerRekeys, ServerDisconnects, Client
  <2> QED
    BY <1>2, <2>2, <2>3
<1> QED
  BY <1>1, <1>3, <1>4, <1>5, <1>6, <1>7, <1>8 DEF Next, Stopped

SessionStates == {"NONE", "INITIAL_KEX", "DH", "AUTHENTICATING",
                  "AUTHENTICATED", "ERROR"}
DhStates      == {"INIT", "INIT_SENT", "NEWKEYS_SENT", "FINISHED"}

\* The states of a session and of its exchange.
LEMMA states_Step ==
  ASSUME SessionInv, [Next]_vars
  PROVE  /\ session_state' \in SessionStates
         /\ dh_handshake_state' \in DhStates
         /\ client_kex' \in BOOLEAN /\ authenticated' \in BOOLEAN
<1>0. /\ session_state \in SessionStates /\ dh_handshake_state \in DhStates
      /\ client_kex \in BOOLEAN /\ authenticated \in BOOLEAN
  BY DEF SessionInv, TypeOK, SessionStates, DhStates
<1>1. CASE UNCHANGED states
  BY <1>0, <1>1
<1>2. ASSUME NEW t, ssh_packet_send(t),
             UNCHANGED <<session_state, authenticated>>
      PROVE  /\ session_state' \in SessionStates
             /\ dh_handshake_state' \in DhStates
             /\ client_kex' \in BOOLEAN /\ authenticated' \in BOOLEAN
  BY <1>0, <1>2 DEF ssh_packet_send, ssh_send_rekex, DhStates
<1>3. CASE channel_write \/ channel_read
  <2>1. UNCHANGED <<session_state, authenticated>>
    BY <1>3 DEF channel_write, channel_read
  <2>2. \/ ssh_packet_send("CHANNEL_DATA") \/ ssh_packet_send("WINDOW_ADJUST")
        \/ UNCHANGED <<client_kex, dh_handshake_state>>
    BY <1>3 DEF channel_write, channel_read
  <2> QED
    BY <1>1, <1>2, <2>1, <2>2
<1>4. CASE Call /\ ~channel_write /\ ~channel_read
  <2>1. \/ UNCHANGED states
        \/ /\ session_state' = "INITIAL_KEX" /\ client_kex' = TRUE
           /\ UNCHANGED <<dh_handshake_state, authenticated>>
    BY <1>4
    DEF Call, ssh_connect, connect_fails, import_fails,
        ssh_userauth_request_service, ssh_userauth_publickey,
        auth_fails, auth_succeeds, channel_write_begins,
        channel_write_unblocked, channel_write_returns,
        channel_read_fails, ssh_disconnect
  <2> QED
    BY <1>0, <1>1, <2>1 DEF SessionStates
<1>5. CASE ssh_packet_socket_callback
  <2>1. Handle(s2c[1])
    BY <1>5, Callback
  <2>2. CASE channel_rcv_data(s2c[1])
    <3>1. UNCHANGED <<session_state, authenticated>>
      BY <2>2 DEF channel_rcv_data
    <3>2. \/ ssh_packet_send("WINDOW_ADJUST")
          \/ UNCHANGED <<client_kex, dh_handshake_state>>
      BY <2>2 DEF channel_rcv_data
    <3> QED
      BY <1>1, <1>2, <3>1, <3>2
  <2>3. CASE \/ ssh_packet_disconnect_callback(s2c[1])
             \/ ssh_packet_kexinit(s2c[1])
             \/ ssh_packet_client_dh_reply(s2c[1])
             \/ ssh_packet_newkeys(s2c[1])
             \/ ssh_packet_userauth_success(s2c[1])
    BY <1>0, <2>3
    DEF ssh_packet_disconnect_callback, ssh_packet_kexinit,
        ssh_client_connection_callback, ssh_packet_client_dh_reply,
        ssh_packet_newkeys, ssh_packet_userauth_success, Error,
        SessionStates, DhStates
  <2>4. CASE \/ ssh_packet_ignore_callback(s2c[1])
             \/ ssh_packet_service_accept(s2c[1])
             \/ ssh_packet_userauth_failure(s2c[1])
             \/ channel_rcv_change_window(s2c[1])
    BY <1>1, <2>4
    DEF ssh_packet_ignore_callback, ssh_packet_service_accept,
        ssh_packet_userauth_failure, channel_rcv_change_window
  <2> QED
    BY <2>1, <2>2, <2>3, <2>4 DEF Handle
<1>6. CASE incoming_rekey
  BY <1>0, <1>6 DEF incoming_rekey, ssh_send_rekex, DhStates
<1>7. CASE connect_timeout \/ ConnectionLost
  BY <1>0, <1>7 DEF connect_timeout, ConnectionLost, Error, SessionStates
<1>8. CASE ServerReceives \/ ServerSends \/ ServerRekeys \/ ServerDisconnects
  BY <1>1, <1>8
  DEF ServerReceives, ServerSends, ServerRekeys, ServerDisconnects, Client
<1> QED
  BY <1>1, <1>3, <1>4, <1>5, <1>6, <1>7, <1>8 DEF Next, Stopped

\* The counters.
LEMMA counters_Step ==
  ASSUME SessionInv, [Next]_vars
  PROVE  /\ out_key' \in Nat /\ in_key' \in Nat /\ rekeys' \in Nat
         /\ len' \in Nat /\ buffered' \in Nat
         /\ s_in' \in Nat /\ s_out' \in Nat /\ s_refused' \in BOOLEAN
<1>0. /\ out_key \in Nat /\ in_key \in Nat /\ rekeys \in Nat
      /\ len \in Nat /\ buffered \in Nat
      /\ s_in \in Nat /\ s_out \in Nat /\ s_refused \in BOOLEAN
  BY DEF SessionInv, TypeOK
<1>1. RequestParts \in Nat
  BY SessionAssumption
<1>2. \A t : ssh_packet_send(t) => rekeys' \in Nat
  BY <1>0 DEF ssh_packet_send, ssh_send_rekex
<1>3. CASE channel_write
  <2>1. /\ rekeys' \in Nat /\ len > 0 /\ len' = len - 1
        /\ UNCHANGED <<out_key, in_key, buffered, server>>
    BY <1>2, <1>3 DEF channel_write, Keep
  <2> QED
    BY <1>0, <2>1
<1>4. CASE channel_read
  <2>1. /\ rekeys' \in Nat /\ buffered > 0 /\ buffered' = buffered - 1
        /\ UNCHANGED <<out_key, in_key, len, server>>
    BY <1>0, <1>2, <1>4 DEF channel_read, Keep
  <2> QED
    BY <1>0, <2>1
<1>5. CASE Call /\ ~channel_write /\ ~channel_read
  <2>1. /\ UNCHANGED <<out_key, in_key, rekeys, buffered, server>>
        /\ len' = len \/ len' = 0 \/ len' = RequestParts
    BY <1>5
    DEF Call, ssh_connect, connect_fails, import_fails,
        ssh_userauth_request_service, ssh_userauth_publickey,
        auth_fails, auth_succeeds, channel_write_begins,
        channel_write_unblocked, channel_write_returns,
        channel_read_fails, ssh_disconnect, Keep
  <2> QED
    BY <1>0, <1>1, <2>1
<1>6. CASE ssh_packet_socket_callback
  <2>1. Handle(s2c[1]) /\ UNCHANGED <<len, server>>
    BY <1>6, Callback
  <2>2. /\ out_key' \in Nat /\ in_key' \in Nat /\ buffered' \in Nat
    BY <1>0, <2>1
    DEF Handle, ssh_packet_disconnect_callback, ssh_packet_ignore_callback,
        ssh_packet_kexinit, ssh_packet_client_dh_reply, send_newkeys,
        ssh_packet_newkeys, ssh_packet_service_accept,
        ssh_packet_userauth_success, ssh_packet_userauth_failure,
        channel_rcv_change_window, channel_rcv_data
  <2>3. rekeys' \in Nat
    BY <1>0, <1>2, <2>1
    DEF Handle, ssh_packet_disconnect_callback, ssh_packet_ignore_callback,
        ssh_packet_kexinit, ssh_packet_client_dh_reply,
        ssh_packet_newkeys, ssh_packet_service_accept,
        ssh_packet_userauth_success, ssh_packet_userauth_failure,
        channel_rcv_change_window, channel_rcv_data
  <2> QED
    BY <1>0, <2>1, <2>2, <2>3
<1>7. CASE incoming_rekey
  BY <1>0, <1>7 DEF incoming_rekey, ssh_send_rekex
<1>8. CASE connect_timeout \/ ConnectionLost
  BY <1>0, <1>8 DEF connect_timeout, ConnectionLost, Keep
<1>9. CASE ServerReceives
  <2>1. /\ UNCHANGED Client
        /\ \/ ServerKexinit \/ ServerDh \/ ServerNewkeys \/ ServerService
           \/ ServerAuth \/ ServerData \/ UNCHANGED <<s2c, server>>
    BY <1>9, ServerReceives_Effect
  <2>2. s_in' \in Nat /\ s_out' \in Nat /\ s_refused' \in BOOLEAN
    BY <1>0, <2>1
    DEF ServerKexinit, ServerDh, ServerNewkeys, ServerService,
        ServerAuth, ServerData
  <2> QED
    BY <1>0, <2>1, <2>2 DEF Client
<1>10. CASE ServerSends \/ ServerRekeys \/ ServerDisconnects
  <2>1. UNCHANGED <<Client, s_in, s_out, s_refused>>
    BY <1>10 DEF ServerSends, ServerRekeys, ServerDisconnects
  <2> QED
    BY <1>0, <2>1 DEF Client
<1>11. CASE UNCHANGED vars
  BY <1>0, <1>11
<1> QED
  BY <1>3, <1>4, <1>5, <1>6, <1>7, <1>8, <1>9, <1>10, <1>11 DEF Next, Stopped

LEMMA TypeOK_Step ==
  ASSUME SessionInv, [Next]_vars
  PROVE  TypeOK'
<1>1. credit' \in 0..Window /\ burst' \in 0..Len(s2c')
  BY CreditInv_Step, burst_Step
<1>2. handles' \subseteq {"session", "key"}
  <2>1. HandleInv'
    BY HandleInv_Step
  <2> QED
    BY <2>1 DEF HandleInv
<1>3. /\ session_state' \in SessionStates /\ dh_handshake_state' \in DhStates
      /\ client_kex' \in BOOLEAN /\ authenticated' \in BOOLEAN
  BY states_Step
<1>4. /\ {out_key', in_key', rekeys', len', buffered', s_in', s_out'}
            \subseteq Nat
      /\ s_refused' \in BOOLEAN
  BY counters_Step
<1> QED
  BY <1>1, <1>2, <1>3, <1>4 DEF TypeOK, SessionStates, DhStates

-----------------------------------------------------------------------------
(* The invariant *)

LEMMA SessionInv_Init == Init => SessionInv
<1> SUFFICES ASSUME Init PROVE SessionInv
  OBVIOUS
<1>1. /\ c2s = <<>> /\ s2c = <<>> /\ s_todo = <<>> /\ out_queue = <<>>
      /\ session_state = "NONE" /\ dh_handshake_state = "INIT"
      /\ client_kex = FALSE /\ authenticated = FALSE
      /\ service_state = "NONE" /\ auth_state = "NONE" /\ cause = "none"
      /\ s_newkeys = FALSE /\ s_kexinit = FALSE /\ c_kexinit = FALSE
      /\ pc = "start" /\ handles = {} /\ s_phase = "kex" /\ s_refused = FALSE
      /\ burst = 0 /\ in_key = 0 /\ s_in = 0 /\ s_out = 0 /\ out_key = 0
      /\ credit = Window
  BY DEF Init
<1>2. Len(c2s) = 0 /\ Len(s2c) = 0 /\ Len(s_todo) = 0 /\ Len(out_queue) = 0
  BY <1>1
<1>3. ~DhSent /\ ~NewkeysDue /\ ~Replied /\ ~NewkeysSent
  BY <1>1 DEF DhSent, NewkeysDue, Replied, NewkeysSent
<1>4. Window \in Nat
  BY SessionAssumption
<1>5. TypeOK
  <2>1. credit \in 0..Window /\ burst \in 0..Len(s2c)
    BY <1>1, <1>2, <1>4
  <2>2. {out_key, in_key, rekeys, len, buffered, s_in, s_out} \subseteq Nat
    BY DEF Init
  <2> QED
    BY <1>1, <2>1, <2>2 DEF TypeOK
<1>6. QueueInv
  BY <1>1 DEF QueueInv
<1>7. HandleInv /\ StateInv
  BY <1>1 DEF HandleInv, StateInv
<1>8. ServerKexInv /\ ClientKexInv
  BY <1>1, <1>2, <1>3 DEF ServerKexInv, ClientKexInv
<1>9. AuthInv
  BY <1>1, <1>2 DEF AuthInv, Asked, Once, Coming
<1>10. OrderInv /\ SuccessInv /\ WaitInv
  BY <1>1, <1>2, <1>3 DEF OrderInv, SuccessInv, WaitInv
<1>11. QueueNotStranded /\ NeverRefused
  BY <1>1 DEF QueueNotStranded, NeverRefused
<1>12. CreditInv
  <2>1. /\ Sent("CHANNEL_DATA", c2s) = 0
        /\ Queued("CHANNEL_DATA", out_queue) = 0
        /\ Queued("WINDOW_ADJUST", s_todo) = 0
        /\ Sent("WINDOW_ADJUST", s2c) = 0
    BY <1>2, None_Counted
  <2> QED
    BY <1>1, <1>4, <2>1 DEF CreditInv
<1> QED
  BY <1>5, <1>6, <1>7, <1>8, <1>9, <1>10, <1>11, <1>12 DEF SessionInv

LEMMA SessionInv_Step == SessionInv /\ [Next]_vars => SessionInv'
<1> SUFFICES ASSUME SessionInv, [Next]_vars PROVE SessionInv'
  OBVIOUS
<1>1. TypeOK' /\ QueueInv' /\ HandleInv' /\ StateInv'
  BY TypeOK_Step, QueueInv_Step, HandleInv_Step, StateInv_Step
<1>2. ServerKexInv' /\ ClientKexInv'
  BY Kex_Step
<1>3. AuthInv' /\ OrderInv' /\ SuccessInv'
  BY AuthInv_Step, OrderInv_Step, SuccessInv_Step
<1>4. WaitInv' /\ QueueNotStranded' /\ NeverRefused' /\ CreditInv'
  BY WaitInv_Step, QueueNotStranded_Step, NeverRefused_Step, CreditInv_Step
<1> QED
  BY <1>1, <1>2, <1>3, <1>4 DEF SessionInv

\* What both sides have agreed on is preserved by every packet that is sent
\* or handled, every request and every failure of the connection.
THEOREM SessionInvariance == Spec => []SessionInv
<1>1. Init => SessionInv
  BY SessionInv_Init
<1>2. SessionInv /\ [Next]_vars => SessionInv'
  BY SessionInv_Step
<1> QED
  BY <1>1, <1>2, PTL DEF Spec

\* The variables of session, thread and server keep their types; the credit
\* that channel_write counts down stays between 0 and the server's window.
THEOREM SessionTypes == Spec => []TypeOK
<1>1. SessionInv => TypeOK
  BY DEF SessionInv
<1> QED
  BY <1>1, SessionInvariance, PTL

\* ssh_packet_incoming_filter denies no packet of the server, none meets the
\* wrong keys, and the client sends nothing but exchange packets between its
\* KEXINIT and its NEWKEYS, whoever asks for new keys and however often.
THEOREM NobodyRefuses == Spec => []NeverRefused
<1>1. SessionInv => NeverRefused
  BY DEF SessionInv
<1> QED
  BY <1>1, SessionInvariance, PTL

\* What ssh_packet_send puts into out_queue, the NEWKEYS of the exchange in
\* progress takes out: nothing is queued after it was sent.
THEOREM NothingStranded == Spec => []QueueNotStranded
<1>1. SessionInv => QueueNotStranded
  BY DEF SessionInv
<1> QED
  BY <1>1, SessionInvariance, PTL

\* create_ssh_session and the thread free session and key on every way out.
THEOREM AllReleased == Spec => []HandlesReleased
<1>1. SessionInv => HandlesReleased
  BY DEF SessionInv, HandleInv, HandlesReleased
<1> QED
  BY <1>1, SessionInvariance, PTL
=============================================================================
