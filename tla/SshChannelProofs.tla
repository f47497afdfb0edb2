-------------------------- MODULE SshChannelProofs ---------------------------
(***************************************************************************)
(* Proofs about SshChannel, for all sizes of windows, packets, requests    *)
(* and answers, and any number of requests.  ChannelInv is preserved by    *)
(* every step of the client, of the server and of the network.             *)
(***************************************************************************)
EXTENDS SshChannel, SequenceTheorems, FiniteSetTheorems, FunctionTheorems,
        TLAPS

USE DEF net, ends, windows, client, server, chan, vars

-----------------------------------------------------------------------------
(* Counting the bytes on their way *)

\* What the elements of Bytes are.
LEMMA Bytes_Element ==
  ASSUME NEW type, NEW q, NEW x
  PROVE  x \in Bytes(type, q) <=>
           \E i \in DOMAIN q : /\ q[i].type = type
                               /\ \E k \in 1..q[i].n : x = <<i, k>>
<1> DEFINE I == {j \in DOMAIN q : q[j].type = type}
           P(i) == {i} \X (1..q[i].n)
<1>1. \A i : x \in P(i) <=> \E k \in 1..q[i].n : x = <<i, k>>
  OBVIOUS
<1> HIDE DEF P
<1>2. x \in UNION {P(i) : i \in I} <=> \E i \in I : x \in P(i)
  OBVIOUS
<1>3. x \in Bytes(type, q) <=> x \in UNION {P(i) : i \in I}
  BY DEF Bytes, P
<1> QED
  BY <1>1, <1>2, <1>3

\* The bytes of one packet.
LEMMA Packet_Bytes ==
  ASSUME NEW i, NEW n \in Nat
  PROVE  IsFiniteSet({i} \X (1..n)) /\ Cardinality({i} \X (1..n)) = n
<1>1. IsFiniteSet({i}) /\ Cardinality({i}) = 1
  BY FS_Singleton
<1>2. IsFiniteSet(1..n) /\ Cardinality(1..n) = n
  BY FS_Interval
<1>3. /\ IsFiniteSet({i} \X (1..n))
      /\ Cardinality({i} \X (1..n)) = Cardinality({i}) * Cardinality(1..n)
  BY <1>1, <1>2, FS_Product
<1> QED
  BY <1>1, <1>2, <1>3

\* Finitely many bytes are on their way.
LEMMA Bytes_Finite ==
  ASSUME NEW T, NEW q \in Seq([type : T, n : Nat]), NEW type
  PROVE  IsFiniteSet(Bytes(type, q)) /\ InFlight(type, q) \in Nat
<1> DEFINE I == {j \in DOMAIN q : q[j].type = type}
           f == [i \in I |-> {i} \X (1..q[i].n)]
<1>1. Len(q) \in Nat /\ DOMAIN q = 1..Len(q)
  BY LenProperties
<1>2. IsFiniteSet(DOMAIN q)
  BY <1>1, FS_Interval
<1>3. IsFiniteSet(I)
  BY <1>2, FS_Subset
<1>4. f \in Surjection(I, Range(f))
  <2>1. f \in [I -> Range(f)]
    BY DEF Range
  <2> HIDE DEF f, I
  <2> QED
    BY <2>1, Fun_RangeProperties
<1>5. IsFiniteSet(Range(f))
  BY <1>3, <1>4, FS_Surjection
<1>6. \A b \in Range(f) : IsFiniteSet(b)
  <2> SUFFICES ASSUME NEW i \in I
               PROVE  IsFiniteSet({i} \X (1..q[i].n))
    BY DEF Range
  <2>1. q[i] \in [type : T, n : Nat]
    BY <1>1, ElementOfSeq
  <2>2. q[i].n \in Nat
    BY <2>1
  <2> QED
    BY <2>2, Packet_Bytes
<1>7. Bytes(type, q) = UNION Range(f)
  BY DEF Bytes, Range
<1>8. IsFiniteSet(Bytes(type, q))
  BY <1>5, <1>6, <1>7, FS_UNION
<1> QED
  BY <1>8, FS_CardinalityType DEF InFlight

\* Nothing is on its way in an empty queue.
LEMMA InFlight_Empty ==
  ASSUME NEW type
  PROVE  InFlight(type, <<>>) = 0
<1>1. Bytes(type, <<>>) = {}
  BY DEF Bytes
<1> QED
  BY <1>1, FS_EmptySet DEF InFlight

\* What a packet p adds to the bytes of a type.
Adds(type, p) == IF p.type = type THEN p.n ELSE 0

\* A packet that is sent adds its bytes.
LEMMA InFlight_Append ==
  ASSUME NEW T, NEW q \in Seq([type : T, n : Nat]), NEW type,
         NEW p \in [type : T, n : Nat]
  PROVE  InFlight(type, Append(q, p)) = InFlight(type, q) + Adds(type, p)
<1> DEFINE m == Len(q) + 1
           r == Append(q, p)
           B == Bytes(type, q)
           N == {m} \X (1..p.n)
<1>1. /\ Len(q) \in Nat /\ DOMAIN q = 1..Len(q) /\ DOMAIN r = 1..m
      /\ r[m] = p /\ \A i \in 1..Len(q) : r[i] = q[i]
  BY LenProperties, AppendProperties
<1>2. IsFiniteSet(B) /\ Cardinality(B) \in Nat
  BY Bytes_Finite DEF InFlight
<1>3. IsFiniteSet(N) /\ Cardinality(N) = p.n /\ p.n \in Nat
  BY Packet_Bytes
<1>4. \A i \in DOMAIN r : i \in DOMAIN q \/ i = m
  BY <1>1
<1>5. DOMAIN q \subseteq DOMAIN r /\ m \in DOMAIN r /\ m \notin DOMAIN q
  BY <1>1
<1>6. \A i \in DOMAIN q : r[i] = q[i]
  BY <1>1
<1>7. CASE p.type = type
  <2>1. Bytes(type, r) = B \cup N
    <3> HIDE DEF m, r
    <3>1. ASSUME NEW x
          PROVE  x \in Bytes(type, r) <=> x \in B \cup N
      <4>1. ASSUME x \in Bytes(type, r)
            PROVE  x \in B \cup N
        <5>1. PICK i \in DOMAIN r : r[i].type = type
                                    /\ \E k \in 1..r[i].n : x = <<i, k>>
          BY <4>1, Bytes_Element
        <5>2. CASE i \in DOMAIN q
          BY <1>6, <5>1, <5>2, Bytes_Element
        <5>3. CASE i = m
          BY <1>1, <5>1, <5>3
        <5> QED
          BY <1>4, <5>2, <5>3
      <4>2. ASSUME x \in B
            PROVE  x \in Bytes(type, r)
        BY <1>5, <1>6, <4>2, Bytes_Element
      <4>3. ASSUME x \in N
            PROVE  x \in Bytes(type, r)
        <5>1. \E k \in 1..r[m].n : x = <<m, k>>
          BY <1>1, <4>3
        <5> QED
          BY <1>1, <1>5, <1>7, <5>1, Bytes_Element
      <4> QED
        BY <4>1, <4>2, <4>3
    <3> QED
      BY <3>1
  <2>2. B \cap N = {}
    <3> HIDE DEF m
    <3> QED
      BY <1>5, Bytes_Element
  <2>3. Cardinality(B \cup N)
          = Cardinality(B) + Cardinality(N) - Cardinality(B \cap N)
    BY <1>2, <1>3, FS_Union
  <2> HIDE DEF B, N, r
  <2>4. Cardinality(B \cap N) = 0
    BY <2>2, FS_EmptySet
  <2>5. Cardinality(B \cup N) = Cardinality(B) + Cardinality(N)
    BY <1>2, <1>3, <2>3, <2>4
  <2> QED
    BY <1>3, <1>7, <2>1, <2>5 DEF InFlight, Adds, B, r
<1>8. CASE p.type # type
  <2>1. Bytes(type, r) = B
    <3> HIDE DEF m, r
    <3>1. ASSUME NEW x
          PROVE  x \in Bytes(type, r) <=> x \in B
      <4>1. ASSUME NEW i \in DOMAIN r, r[i].type = type
            PROVE  i \in DOMAIN q
        BY <1>1, <1>4, <1>8, <4>1
      <4>2. ASSUME x \in Bytes(type, r)
            PROVE  x \in B
        BY <1>6, <4>1, <4>2, Bytes_Element
      <4>3. ASSUME x \in B
            PROVE  x \in Bytes(type, r)
        BY <1>5, <1>6, <4>3, Bytes_Element
      <4> QED
        BY <4>2, <4>3
    <3> QED
      BY <3>1
  <2> QED
    BY <1>2, <1>8, <2>1 DEF InFlight, Adds
<1> QED
  BY <1>7, <1>8

\* A packet that is taken removes its bytes.
LEMMA InFlight_Tail ==
  ASSUME NEW T, NEW q \in Seq([type : T, n : Nat]), NEW type, q # <<>>
  PROVE  /\ Head(q) \in [type : T, n : Nat]
         /\ Tail(q) \in Seq([type : T, n : Nat])
         /\ InFlight(type, q)
              = InFlight(type, Tail(q)) + Adds(type, Head(q))
<1> DEFINE t == Tail(q)
           p == q[1]
           B == Bytes(type, t)
           S == {<<x[1] + 1, x[2]>> : x \in B}
           N == IF p.type = type THEN {1} \X (1..p.n) ELSE {}
<1>1. /\ Head(q) = p /\ p \in [type : T, n : Nat]
      /\ t \in Seq([type : T, n : Nat])
      /\ Len(q) \in Nat /\ Len(q) >= 1 /\ Len(t) = Len(q) - 1
      /\ \A i \in 1..Len(t) : t[i] = q[i + 1]
  <2>1. Len(q) \in Nat /\ Len(q) >= 1
    BY LenProperties, EmptySeq
  <2>2. Head(q) = p
    OBVIOUS
  <2> QED
    BY <2>1, <2>2, HeadTailProperties
<1>2. DOMAIN q = 1..Len(q) /\ DOMAIN t = 1..Len(q) - 1
  BY <1>1, LenProperties
<1>3. IsFiniteSet(B) /\ Cardinality(B) \in Nat
  BY <1>1, Bytes_Finite DEF InFlight
<1> HIDE DEF t, p
<1>4. \A x \in B : x[1] \in 1..Len(q) - 1 /\ x = <<x[1], x[2]>>
  BY <1>2, Bytes_Element
<1>5. IsFiniteSet(S) /\ Cardinality(S) = Cardinality(B)
  <2> DEFINE g == [x \in B |-> <<x[1] + 1, x[2]>>]
  <2>1. g \in [B -> S]
    OBVIOUS
  <2>2. ASSUME NEW x \in B, NEW y \in B, g[x] = g[y]
        PROVE  x = y
    <3>1. x[1] + 1 = y[1] + 1 /\ x[2] = y[2]
      BY <2>2
    <3>2. x[1] = y[1]
      BY <1>1, <1>4, <3>1
    <3> QED
      BY <1>4, <3>1, <3>2
  <2>3. g \in Injection(B, S)
    BY <2>1, <2>2, Fun_IsInj
  <2>4. g \in Surjection(B, S)
    BY <2>1 DEF Surjection
  <2>5. ExistsBijection(B, S)
    BY <2>3, <2>4 DEF ExistsBijection, Bijection
  <2> QED
    BY <1>3, <2>5, FS_Bijection
<1>6. Bytes(type, q) = S \cup N
  <2>1. ASSUME NEW x \in Bytes(type, q)
        PROVE  x \in S \cup N
    <3>1. PICK i \in DOMAIN q : q[i].type = type
                                /\ \E k \in 1..q[i].n : x = <<i, k>>
      BY Bytes_Element
    <3>2. PICK k \in 1..q[i].n : x = <<i, k>>
      BY <3>1
    <3>3. CASE i = 1
      BY <3>1, <3>2, <3>3 DEF p
    <3>4. CASE i # 1
      <4>1. i - 1 \in DOMAIN t /\ t[i - 1] = q[i]
        BY <1>1, <1>2, <3>4
      <4>2. <<i - 1, k>> \in B
        BY <3>1, <3>2, <4>1, Bytes_Element
      <4>3. x = <<(<<i - 1, k>>)[1] + 1, (<<i - 1, k>>)[2]>>
        BY <1>2, <3>2
      <4> QED
        BY <4>2, <4>3
    <3> QED
      BY <3>3, <3>4
  <2>2. ASSUME NEW x \in S
        PROVE  x \in Bytes(type, q)
    <3>1. PICK y \in B : x = <<y[1] + 1, y[2]>>
      BY <2>2
    <3>2. PICK i \in DOMAIN t : t[i].type = type
                                /\ \E k \in 1..t[i].n : y = <<i, k>>
      BY Bytes_Element
    <3>3. PICK k \in 1..t[i].n : y = <<i, k>>
      BY <3>2
    <3>a. y[1] = i /\ y[2] = k
      BY <3>3
    <3>b. x = <<i + 1, k>>
      BY <3>1, <3>a
    <3>c. i \in 1..Len(t) /\ i \in 1..Len(q) - 1
      BY <1>1, <1>2
    <3>d. t[i] = q[i + 1]
      BY <1>1, <3>c
    <3>e. Len(q) \in Nat
      BY <1>1
    <3>f. i + 1 \in 1..Len(q)
      BY <3>c, <3>e
    <3>4. i + 1 \in DOMAIN q /\ t[i] = q[i + 1] /\ x = <<i + 1, k>>
      BY <1>2, <3>b, <3>d, <3>f
    <3> QED
      BY <3>2, <3>3, <3>4, Bytes_Element
  <2>3. ASSUME NEW x \in N
        PROVE  x \in Bytes(type, q)
    <3>1. p.type = type /\ 1 \in DOMAIN q /\ \E k \in 1..p.n : x = <<1, k>>
      BY <1>1, <1>2, <2>3
    <3> QED
      BY <3>1, Bytes_Element DEF p
  <2> QED
    BY <2>1, <2>2, <2>3
<1>7. /\ IsFiniteSet(N) /\ Cardinality(N) = Adds(type, p)
      /\ Adds(type, p) \in Nat
  <2>1. p.n \in Nat
    BY <1>1
  <2>2. CASE p.type = type
    BY <2>1, <2>2, Packet_Bytes DEF Adds
  <2>3. CASE p.type # type
    BY <2>3, FS_EmptySet DEF Adds
  <2> QED
    BY <2>2, <2>3
<1>8. S \cap N = {}
  <2> SUFFICES ASSUME NEW x \in S, x \in N
               PROVE  FALSE
    OBVIOUS
  <2>1. PICK y \in B : x = <<y[1] + 1, y[2]>>
    OBVIOUS
  <2>2. x[1] = 1
    OBVIOUS
  <2> QED
    BY <1>1, <1>4, <2>1, <2>2
<1>9. Cardinality(S \cup N)
        = Cardinality(S) + Cardinality(N) - Cardinality(S \cap N)
  BY <1>5, <1>7, FS_Union
<1> HIDE DEF S, N, B
<1>10. Cardinality(S \cap N) = 0
  BY <1>8, FS_EmptySet
<1>11. Cardinality(S \cup N) = Cardinality(B) + Adds(type, p)
  BY <1>3, <1>5, <1>7, <1>9, <1>10
<1> QED
  BY <1>1, <1>6, <1>11 DEF InFlight, B, t

-----------------------------------------------------------------------------
(* Windows *)

CPacket == [type : ClientTypes, n : Nat]
SPacket == [type : ServerTypes, n : Nat]

\* The window was w; it is grown, and the server is told by how much.
Regrown(w) ==
    /\ local_window' \in Nat
    /\ \/ c2s' = c2s /\ (session = "ok" => local_window' = w)
       \/ /\ session = "ok"
          /\ \E k \in Nat : /\ c2s' = Append(c2s, Packet("ADJUST", k))
                            /\ local_window' = w + k

\* grow_window tells the server what it grows the window by.
LEMMA Grow_Effect ==
  ASSUME NEW m \in Nat, NEW w \in Nat, grow_window(m, w, c2s)
  PROVE  Regrown(w)
<1> DEFINE g == Greater(m, WINDOWBASE)
<1>1. g \in Nat
  BY ChannelAssumption DEF ChannelAssumption, Greater
<1> HIDE DEF g
<1>2. CASE g <= w
  BY <1>2 DEF grow_window, Regrown, g
<1>3. CASE g > w
  <2>1. local_window' = g /\ c2s' = Sent(c2s, Packet("ADJUST", g - w))
    BY <1>1, <1>3 DEF grow_window, g
  <2>2. g - w \in Nat /\ g = w + (g - w)
    BY <1>1, <1>3
  <2> QED
    BY <1>1, <2>1, <2>2 DEF Regrown, Sent
<1> QED
  BY <1>1, <1>2, <1>3

\* Data that arrives takes its length from the window.
LEMMA Data_Effect ==
  ASSUME NEW p, p.n \in Nat, TypeOK, channel_rcv_data(p)
  PROVE  Regrown(Greater(local_window - p.n, 0))
<1> DEFINE w == Greater(local_window - p.n, 0)
<1>1. w \in Nat
  BY DEF TypeOK, Greater
<1> HIDE DEF w
<1>2. grow_window(0, w, c2s) => Regrown(w)
  BY <1>1, Grow_Effect
<1>3. grow_window(0, w, c2s) \/ (local_window' = w /\ UNCHANGED c2s)
  BY DEF channel_rcv_data, w
<1> QED
  BY <1>1, <1>2, <1>3 DEF Regrown, w

\* A call of ssh_channel_read makes the window large enough.
LEMMA Read_Begins_Effect ==
  ASSUME NEW n \in Nat, TypeOK, channel_read_begins(n)
  PROVE  Regrown(local_window)
<1>1. CASE n > buffered + local_window
  <2>1. n - buffered \in Nat
    BY <1>1 DEF TypeOK
  <2> QED
    BY <1>1, <2>1, Grow_Effect DEF channel_read_begins, TypeOK
<1>2. CASE ~(n > buffered + local_window)
  BY <1>2 DEF channel_read_begins, TypeOK, Regrown
<1> QED
  BY <1>1, <1>2

\* What was read is granted again.
LEMMA Read_Effect ==
  ASSUME TypeOK, channel_read
  PROVE  Regrown(local_window)
<1>1. CASE local_window < WINDOWLIMIT
  BY <1>1, Grow_Effect DEF channel_read, TypeOK
<1>2. CASE ~(local_window < WINDOWLIMIT)
  BY <1>2 DEF channel_read, TypeOK, Regrown
<1> QED
  BY <1>1, <1>2

\* A packet is handled: one of the handlers takes the first one.
LEMMA Handlers ==
  ASSUME NetInv, ssh_handle_packets
  PROVE  /\ session = "ok" /\ s2c # <<>> /\ freed = 0
         /\ Head(s2c) \in SPacket /\ Head(s2c) = s2c[1]
         /\ Len(s2c) \in Nat \ {0} /\ DOMAIN s2c = 1..Len(s2c)
         /\ s2c' = Tail(s2c) /\ s2c' \in Seq(SPacket)
         /\ Len(s2c') = Len(s2c) - 1 /\ DOMAIN s2c' = 1..Len(s2c) - 1
         /\ \A i \in 1..Len(s2c) - 1 : s2c'[i] = s2c[i + 1]
         /\ UNCHANGED <<session, client, server>>
<1>1. s2c \in Seq(SPacket) /\ s2c # <<>> /\ s2c' = Tail(s2c)
  BY DEF NetInv, ssh_handle_packets, SPacket
<1>2. Len(s2c) \in Nat \ {0} /\ DOMAIN s2c = 1..Len(s2c)
  BY <1>1, LenProperties, EmptySeq
<1>3. /\ Head(s2c) \in SPacket /\ s2c' \in Seq(SPacket)
      /\ Len(s2c') = Len(s2c) - 1
      /\ \A i \in 1..Len(s2c) - 1 : s2c'[i] = s2c[i + 1]
  BY <1>1, HeadTailProperties
<1>4. DOMAIN s2c' = 1..Len(s2c) - 1
  BY <1>3, LenProperties
<1>5. Head(s2c) = s2c[1]
  BY <1>1
<1> QED
  BY <1>1, <1>2, <1>3, <1>4, <1>5 DEF ssh_handle_packets

\* The server takes a packet: the first one.
LEMMA Receives ==
  ASSUME NetInv, ServerReceives
  PROVE  /\ session = "ok" /\ c2s # <<>>
         /\ Head(c2s) \in CPacket /\ Head(c2s) = c2s[1]
         /\ Len(c2s) \in Nat \ {0} /\ DOMAIN c2s = 1..Len(c2s)
         /\ c2s' = Tail(c2s) /\ c2s' \in Seq(CPacket)
         /\ Len(c2s') = Len(c2s) - 1 /\ DOMAIN c2s' = 1..Len(c2s) - 1
         /\ \A i \in 1..Len(c2s) - 1 : c2s'[i] = c2s[i + 1]
         /\ UNCHANGED <<burst, session, chan, client>>
<1>1. c2s \in Seq(CPacket) /\ c2s # <<>> /\ c2s' = Tail(c2s)
  BY DEF NetInv, ServerReceives, CPacket
<1>2. Len(c2s) \in Nat \ {0} /\ DOMAIN c2s = 1..Len(c2s)
  BY <1>1, LenProperties, EmptySeq
<1>3. /\ Head(c2s) \in CPacket /\ c2s' \in Seq(CPacket)
      /\ Len(c2s') = Len(c2s) - 1
      /\ \A i \in 1..Len(c2s) - 1 : c2s'[i] = c2s[i + 1]
  BY <1>1, HeadTailProperties
<1>4. DOMAIN c2s' = 1..Len(c2s) - 1
  BY <1>3, LenProperties
<1>5. Head(c2s) = c2s[1]
  BY <1>1
<1> QED
  BY <1>1, <1>2, <1>3, <1>4, <1>5 DEF ServerReceives

\* A packet is sent: it becomes the last one.
LEMMA Appended ==
  ASSUME NEW S, NEW q \in Seq(S), NEW p \in S
  PROVE  /\ Append(q, p) \in Seq(S) /\ Append(q, p) # <<>>
         /\ Len(q) \in Nat /\ DOMAIN q = 1..Len(q)
         /\ Len(Append(q, p)) = Len(q) + 1
         /\ DOMAIN Append(q, p) = 1..Len(q) + 1
         /\ \A i \in 1..Len(q) : Append(q, p)[i] = q[i]
         /\ Append(q, p)[Len(q) + 1] = p
BY AppendProperties, LenProperties

\* The packets that the two sides send are packets.
LEMMA Packet_Types ==
  ASSUME NEW n \in Nat
  PROVE  /\ \A t \in ClientTypes : Packet(t, n) \in CPacket
         /\ \A t \in ServerTypes : Packet(t, n) \in SPacket
         /\ \A t : Packet(t, n).type = t /\ Packet(t, n).n = n
BY DEF Packet, CPacket, SPacket

\* What is sent on a connection that is up is appended, and lost otherwise.
LEMMA Sent_Effect ==
  ASSUME NetInv, NEW t \in ClientTypes, NEW n \in Nat, Send(Packet(t, n))
  PROVE  /\ c2s' \in Seq(CPacket)
         /\ session # "ok" => c2s' = <<>>
         /\ session = "ok" => c2s' = Append(c2s, Packet(t, n))
<1>1. Packet(t, n) \in CPacket /\ c2s \in Seq(CPacket)
  BY Packet_Types DEF NetInv, CPacket
<1>2. Append(c2s, Packet(t, n)) \in Seq(CPacket)
  BY <1>1, AppendProperties
<1> QED
  BY <1>1, <1>2 DEF Send, Sent, NetInv

\* The same of the packet that grows the window.
LEMMA Regrown_Effect ==
  ASSUME NetInv, NEW w, Regrown(w)
  PROVE  c2s' \in Seq(CPacket) /\ (session # "ok" => c2s' = <<>>)
<1>1. c2s \in Seq(CPacket)
  BY DEF NetInv, CPacket
<1>2. ASSUME NEW k \in Nat
      PROVE  Append(c2s, Packet("ADJUST", k)) \in Seq(CPacket)
  BY <1>1, AppendProperties, Packet_Types DEF ClientTypes
<1> QED
  BY <1>1, <1>2 DEF Regrown, NetInv

\* The server sends on a connection that is up.
LEMMA SReply_Effect ==
  ASSUME NetInv, NEW t \in ServerTypes, NEW n \in Nat, SReply(Packet(t, n))
  PROVE  s2c' \in Seq(SPacket) /\ s2c' = Append(s2c, Packet(t, n))
<1>1. Packet(t, n) \in SPacket /\ s2c \in Seq(SPacket)
  BY Packet_Types DEF NetInv, SPacket
<1> QED
  BY <1>1, AppendProperties DEF SReply

-----------------------------------------------------------------------------
(* The queues hold packets, and nothing when the connection is down *)

\* A length that is written.
LEMMA Write_Length ==
  ASSUME TypeOK, channel_write
  PROVE  /\ write_length \in 1..len /\ write_length <= remote_window
         /\ write_length \in Nat
<1>1. {len, remote_window} \subseteq Nat /\ len > 0 /\ remote_window > 0
  BY DEF TypeOK, channel_write
<1>2. MaxPacket \in Nat /\ MaxPacket > 0
  BY ChannelAssumption DEF ChannelAssumption
<1> QED
  BY <1>1, <1>2 DEF write_length, Lesser

\* The last calls end the channel.
LEMMA Ends_Effect ==
  ASSUME NetInv, ssh_channel_close
  PROVE  /\ \/ UNCHANGED <<c2s, local_eof, flags, state>>
            \/ /\ session = "ok" /\ local_eof /\ local_eof'
               /\ state \in {"OPEN", "CLOSED"} /\ state' = "CLOSED"
               /\ flags' = flags \cup {"CLOSED_LOCAL"}
               /\ c2s' = Append(c2s, Packet("CLOSE", 0))
            \/ /\ session = "ok" /\ ~local_eof /\ local_eof'
               /\ state \in {"OPEN", "CLOSED"} /\ state' = "CLOSED"
               /\ flags' = flags \cup {"CLOSED_LOCAL"}
               /\ c2s' = Append(Append(c2s, Packet("EOF", 0)),
                                Packet("CLOSE", 0))
         /\ c2s' \in Seq(CPacket)
<1> DEFINE q == Append(c2s, Packet("EOF", 0))
           c == Packet("CLOSE", 0)
<1>1. /\ c2s \in Seq(CPacket) /\ c \in CPacket
      /\ Packet("EOF", 0) \in CPacket
  BY Packet_Types DEF NetInv, CPacket, ClientTypes
<1>2. q \in Seq(CPacket)
  BY <1>1, AppendProperties
<1> HIDE DEF q, c
<1>3. q \o <<c>> = Append(q, c) /\ c2s \o <<c>> = Append(c2s, c)
  BY <1>1, <1>2, AppendIsConcat
<1>4. Append(q, c) \in Seq(CPacket) /\ Append(c2s, c) \in Seq(CPacket)
  BY <1>1, <1>2, AppendProperties
<1>5. CASE send_close
  <2>1. /\ session = "ok" /\ state \in {"OPEN", "CLOSED"} /\ local_eof'
        /\ state' = "CLOSED" /\ flags' = flags \cup {"CLOSED_LOCAL"}
        /\ c2s' = (IF send_eof THEN q ELSE c2s) \o <<c>>
    BY <1>5 DEF ssh_channel_close, send_close, q, c
  <2> QED
    BY <1>3, <1>4, <2>1 DEF send_eof, q, c
<1>6. CASE ~send_close
  BY <1>1, <1>6 DEF ssh_channel_close
<1> QED
  BY <1>5, <1>6

\* The server closes the channel, with or without an end of file before it.
LEMMA Closes_Effect ==
  ASSUME NetInv, ServerCloses
  PROVE  /\ \/ s2c' = Append(s2c, Packet("CLOSE", 0))
            \/ s2c' = Append(Append(s2c, Packet("EOF", 0)),
                             Packet("CLOSE", 0))
         /\ s2c' \in Seq(SPacket)
<1> DEFINE e == Packet("EOF", 0)
           c == Packet("CLOSE", 0)
<1>1. s2c \in Seq(SPacket) /\ c \in SPacket /\ e \in SPacket
  BY Packet_Types DEF NetInv, SPacket, ServerTypes
<1>2. \/ s2c' = s2c \o <<e, c>>
      \/ s2c' = Append(s2c, c)
  BY DEF ServerCloses, SReply
<1> HIDE DEF e, c
<1>3. s2c \o <<e, c>> = Append(Append(s2c, e), c)
  <2>1. Append(s2c, e) \in Seq(SPacket)
    BY <1>1, AppendProperties
  <2>2. /\ Append(s2c, e) = s2c \o <<e>>
        /\ Append(Append(s2c, e), c) = Append(s2c, e) \o <<c>>
    BY <1>1, <2>1, AppendIsConcat
  <2>3. <<e>> \in Seq(SPacket) /\ <<c>> \in Seq(SPacket)
    BY <1>1
  <2>4. (s2c \o <<e>>) \o <<c>> = s2c \o (<<e>> \o <<c>>)
    BY <1>1, <2>3, ConcatAssociative
  <2>5. <<e>> \o <<c>> = <<e, c>>
    <3>1. <<e, c>> \in Seq(SPacket) /\ Len(<<e, c>>) = 2
      BY <1>1
    <3>2. /\ <<e>> \o <<c>> \in Seq(SPacket) /\ Len(<<e>> \o <<c>>) = 2
          /\ (<<e>> \o <<c>>)[1] = e /\ (<<e>> \o <<c>>)[2] = c
      BY <2>3, ConcatProperties
    <3>3. \A i \in 1..2 : i = 1 \/ i = 2
      OBVIOUS
    <3> DEFINE d == <<e>> \o <<c>>
    <3> HIDE DEF d
    <3>4. \A i \in 1..2 : d[i] = <<e, c>>[i]
      BY <3>2, <3>3 DEF d
    <3>5. d \in Seq(SPacket) /\ Len(d) = 2
      BY <3>2 DEF d
    <3>6. d = <<e, c>>
      BY <3>1, <3>4, <3>5, SeqEqual
    <3> QED
      BY <3>6 DEF d
  <2> QED
    BY <2>2, <2>4, <2>5
<1>4. /\ Append(s2c, c) \in Seq(SPacket)
      /\ Append(Append(s2c, e), c) \in Seq(SPacket)
  BY <1>1, AppendProperties
<1> QED
  BY <1>2, <1>3, <1>4 DEF e, c

\* Every step keeps NetInv.
LEMMA NetInv_Step ==
  ASSUME TypeOK, NetInv, Next
  PROVE  NetInv'
<1> USE DEF CPacket, SPacket
<1>0. c2s \in Seq(CPacket) /\ s2c \in Seq(SPacket)
  BY DEF NetInv
<1>e. <<>> \in Seq(CPacket) /\ <<>> \in Seq(SPacket)
  BY EmptySeq
<1> HIDE DEF CPacket, SPacket
<1>s. SUFFICES /\ c2s' \in Seq(CPacket) /\ s2c' \in Seq(SPacket)
               /\ session' # "ok" => c2s' = <<>> /\ s2c' = <<>> /\ burst' = 0
  BY DEF NetInv, CPacket, SPacket
<1>1. CASE ssh_handle_packets
  <2>1. s2c' \in Seq(SPacket) /\ session' = "ok" /\ Head(s2c) \in SPacket
    BY <1>1, Handlers
  <2>2. CASE channel_rcv_data(Head(s2c))
    <3>1. Regrown(Greater(local_window - Head(s2c).n, 0))
      BY <2>1, <2>2, Data_Effect DEF SPacket
    <3> QED
      BY <2>1, <3>1, Regrown_Effect
  <2>3. CASE UNCHANGED c2s
    BY <1>0, <2>1, <2>3
  <2> QED
    BY <1>1, <2>2, <2>3
    DEF ssh_handle_packets, ssh_packet_channel_open_conf,
        ssh_packet_channel_open_fail, ssh_packet_channel_success,
        channel_rcv_change_window, channel_rcv_eof, channel_rcv_close
<1>2. CASE channel_open
  BY <1>0, <1>2, Sent_Effect, ChannelAssumption
  DEF channel_open, ClientTypes, NetInv, ChannelAssumption
<1>3. CASE channel_request
  BY <1>0, <1>3, Sent_Effect DEF channel_request, ClientTypes, NetInv
<1>4. CASE channel_request_returns \/ channel_write_returns \/ channel_read_fails
           \/ ssh_channel_free \/ \E n \in ReplyLengths : channel_write_begins(n)
  BY <1>0, <1>4
  DEF channel_request_returns, channel_write_begins, channel_write_returns,
      channel_read_fails, ssh_channel_free, NetInv
<1>5. CASE channel_write
  <2>1. write_length \in Nat
    BY <1>5, Write_Length
  <2> QED
    BY <1>0, <1>5, <2>1, Sent_Effect DEF channel_write, ClientTypes, NetInv
<1>6. CASE \E n \in 1..rest : channel_read_begins(n)
  <2>1. PICK n \in 1..rest : channel_read_begins(n)
    BY <1>6
  <2>2. Regrown(local_window)
    BY <2>1, Read_Begins_Effect DEF TypeOK
  <2> QED
    BY <1>0, <2>1, <2>2, Regrown_Effect DEF channel_read_begins, NetInv
<1>7. CASE channel_read
  BY <1>0, <1>7, Read_Effect, Regrown_Effect DEF channel_read, NetInv
<1>8. CASE ssh_channel_send_eof
  BY <1>0, <1>8, Sent_Effect DEF ssh_channel_send_eof, ClientTypes, NetInv
<1>9. CASE ssh_channel_close
  BY <1>0, <1>9, Ends_Effect DEF ssh_channel_close, NetInv
<1>10. CASE ssh_disconnect \/ ConnectionLost
  BY <1>e, <1>10 DEF ssh_disconnect, ConnectionLost, Runs
<1>11. CASE ServerReceives
  <2>1. session' = "ok" /\ c2s' \in Seq(CPacket)
    BY <1>11, Receives
  <2>2. \/ UNCHANGED s2c
        \/ \E t \in ServerTypes, n \in Nat : SReply(Packet(t, n))
    BY <1>11, ChannelAssumption
    DEF ServerReceives, ServerTypes, ChannelAssumption
  <2> QED
    BY <1>0, <2>1, <2>2, SReply_Effect
<1>12. CASE ServerGrants \/ \E n \in 1..MaxPacket : ServerSends(n)
  <2>1. /\ session' = "ok" /\ UNCHANGED c2s
        /\ \E t \in ServerTypes, n \in Nat : SReply(Packet(t, n))
    BY <1>12, ChannelAssumption
    DEF ServerGrants, ServerSends, ServerOnly, ServerTypes,
        ChannelAssumption, TypeOK
  <2> QED
    BY <1>0, <2>1, SReply_Effect
<1>13. CASE ServerCloses
  BY <1>0, <1>13, Closes_Effect DEF ServerCloses, ServerOnly
<1>14. CASE Done
  BY <1>0, <1>14 DEF Done, NetInv
<1> QED
  BY <1>1, <1>2, <1>3, <1>4, <1>5, <1>6, <1>7, <1>8, <1>9, <1>10, <1>11,
     <1>12, <1>13, <1>14
  DEF Next, Call, ServerWorks

-----------------------------------------------------------------------------
(* The channel is freed once *)

\* Every step keeps PcInv.
LEMMA PcInv_Step ==
  ASSUME PcInv, Next
  PROVE  PcInv'
<1> USE DEF PcInv
<1>1. CASE ssh_handle_packets
  BY <1>1
  DEF ssh_handle_packets, ssh_packet_channel_open_conf,
      ssh_packet_channel_open_fail, ssh_packet_channel_success,
      channel_rcv_change_window, channel_rcv_data, channel_rcv_eof,
      channel_rcv_close
<1>2. CASE Call
  BY <1>2
  DEF Call, channel_open, channel_request, channel_request_returns,
      channel_write_begins, channel_write, channel_write_returns,
      channel_read_begins, channel_read_fails, channel_read,
      ssh_channel_send_eof, ssh_channel_close, ssh_channel_free,
      ssh_disconnect, Runs
<1>3. CASE ServerWorks \/ ServerCloses \/ ConnectionLost \/ Done
  BY <1>3
  DEF ServerWorks, ServerReceives, ServerGrants, ServerSends, ServerCloses,
      ServerOnly, ConnectionLost, Done
<1> QED
  BY <1>1, <1>2, <1>3 DEF Next

\* Every step keeps FreeInv: ssh_channel_free comes once, and neither the
\* server's CLOSE nor ssh_disconnect frees what was freed.
LEMMA FreeInv_Step ==
  ASSUME PcInv, FreeInv, Next
  PROVE  FreeInv'
<1> USE DEF FreeInv, FreedOnce
<1>1. CASE ssh_handle_packets
  <2>1. freed = 0 /\ UNCHANGED pc
    BY <1>1 DEF ssh_handle_packets
  <2>2. CASE channel_rcv_close(Head(s2c))
    BY <2>1, <2>2 DEF channel_rcv_close
  <2>3. CASE UNCHANGED freed /\ flags' \in {flags, flags \ {"NOT_BOUND"}}
    BY <2>1, <2>3
  <2> QED
    BY <1>1, <2>2, <2>3
    DEF ssh_handle_packets, ssh_packet_channel_open_conf,
        ssh_packet_channel_open_fail, ssh_packet_channel_success,
        channel_rcv_change_window, channel_rcv_data, channel_rcv_eof
<1>2. CASE ssh_channel_free
  BY <1>2 DEF ssh_channel_free, Runs, PcInv
<1>3. CASE ssh_disconnect
  BY <1>3 DEF ssh_disconnect, Runs, PcInv
<1>4. CASE ssh_channel_close
  BY <1>4 DEF ssh_channel_close, Runs
<1>5. CASE \/ channel_open \/ channel_request \/ channel_request_returns
           \/ channel_write \/ channel_write_returns
           \/ channel_read_fails \/ channel_read \/ ssh_channel_send_eof
           \/ \E n \in ReplyLengths : channel_write_begins(n)
           \/ \E n \in 1..rest : channel_read_begins(n)
  BY <1>5
  DEF channel_open, channel_request, channel_request_returns,
      channel_write_begins, channel_write, channel_write_returns,
      channel_read_begins, channel_read_fails, channel_read,
      ssh_channel_send_eof, Runs
<1>6. CASE ServerWorks \/ ServerCloses \/ ConnectionLost \/ Done
  BY <1>6
  DEF ServerWorks, ServerReceives, ServerGrants, ServerSends, ServerCloses,
      ServerOnly, ConnectionLost, Done
<1> QED
  BY <1>1, <1>2, <1>3, <1>4, <1>5, <1>6 DEF Next, Call

-----------------------------------------------------------------------------
(* Opening the channel *)

\* A packet of another type is sent, the first packet is taken, the queue is
\* emptied.
LEMMA NoneOf_Queue ==
  ASSUME NEW S, NEW q \in Seq(S), NEW types
  PROVE  /\ NoneOf(types, <<>>)
         /\ \A p \in S : NoneOf(types, Append(q, p)) <=>
                          (NoneOf(types, q) /\ p.type \notin types)
         /\ q # <<>> => (NoneOf(types, q) <=>
                           NoneOf(types, Tail(q)) /\ Head(q).type \notin types)
<1>1. NoneOf(types, <<>>)
  BY DEF NoneOf
<1>2. ASSUME NEW p \in S
      PROVE  NoneOf(types, Append(q, p)) <=>
               NoneOf(types, q) /\ p.type \notin types
  <2> DEFINE r == Append(q, p)
  <2>1. /\ DOMAIN q = 1..Len(q) /\ DOMAIN r = 1..Len(q) + 1
        /\ Len(q) \in Nat /\ r[Len(q) + 1] = p
        /\ \A i \in 1..Len(q) : r[i] = q[i]
    BY Appended
  <2> HIDE DEF r
  <2>2. \A i \in 1..Len(q) + 1 : i \in 1..Len(q) \/ i = Len(q) + 1
    BY <2>1
  <2>3. 1..Len(q) \subseteq 1..Len(q) + 1 /\ Len(q) + 1 \in 1..Len(q) + 1
    BY <2>1
  <2>4. NoneOf(types, r) <=> NoneOf(types, q) /\ p.type \notin types
    BY <2>1, <2>2, <2>3 DEF NoneOf
  <2> QED
    BY <2>4 DEF r
<1>3. ASSUME q # <<>>
      PROVE  NoneOf(types, q) <=>
               NoneOf(types, Tail(q)) /\ Head(q).type \notin types
  <2> DEFINE t == Tail(q)
  <2>1. /\ Len(q) \in Nat /\ Len(q) >= 1 /\ DOMAIN q = 1..Len(q)
        /\ t \in Seq(S) /\ Len(t) = Len(q) - 1 /\ Head(q) = q[1]
        /\ \A i \in 1..Len(t) : t[i] = q[i + 1]
    BY <1>3, LenProperties, EmptySeq, HeadTailProperties
  <2>2. DOMAIN t = 1..Len(q) - 1
    BY <2>1, LenProperties
  <2> HIDE DEF t
  <2>3. \A i \in 1..Len(q) : i = 1 \/ (i - 1 \in 1..Len(q) - 1
                                        /\ t[i - 1] = q[i])
    BY <2>1
  <2>4. \A i \in 1..Len(q) - 1 : i + 1 \in 1..Len(q) /\ t[i] = q[i + 1]
    BY <2>1
  <2>5. 1 \in 1..Len(q)
    BY <2>1
  <2>6. NoneOf(types, q) <=> NoneOf(types, t) /\ q[1].type \notin types
    BY <2>1, <2>2, <2>3, <2>4, <2>5 DEF NoneOf
  <2> QED
    BY <2>1, <2>6 DEF t
<1> QED
  BY <1>1, <1>2, <1>3

\* A window that is grown leaves the types of the other packets alone.
LEMMA NoneOf_Regrown ==
  ASSUME NetInv, NEW w, Regrown(w), NEW types, NoneOf(types, c2s),
         "ADJUST" \notin types
  PROVE  NoneOf(types, c2s')
<1>1. c2s \in Seq(CPacket)
  BY DEF NetInv, CPacket
<1>2. \A k \in Nat : /\ Packet("ADJUST", k) \in CPacket
                     /\ Packet("ADJUST", k).type = "ADJUST"
  BY Packet_Types DEF ClientTypes
<1>3. \A k \in Nat : NoneOf(types, Append(c2s, Packet("ADJUST", k)))
  BY <1>1, <1>2, NoneOf_Queue
<1> QED
  BY <1>3 DEF Regrown

\* The packets that open the channel are received once, in their order.
LEMMA Open_Received ==
  ASSUME NetInv, LinkInv, ServerReceives
  PROVE  \/ /\ Opening /\ s_state = "none" /\ s2c = <<>> /\ c2s' = <<>>
            /\ Head(c2s) = Packet("OPEN", InitialWindow)
         \/ /\ Requesting /\ Head(c2s) = Packet("REQUEST", 0) /\ c2s' = <<>>
         \/ /\ Established /\ Head(c2s).type \notin {"OPEN", "REQUEST"}
            /\ NoneOf({"OPEN", "REQUEST"}, c2s')
<1>1. session = "ok" /\ c2s # <<>> /\ c2s' = Tail(c2s) /\ c2s \in Seq(CPacket)
  BY Receives DEF NetInv, CPacket
<1>2. CASE Established
  BY <1>1, <1>2, NoneOf_Queue DEF Established
<1>3. CASE Opening
  <2>1. c2s = <<Packet("OPEN", InitialWindow)>> /\ s_state = "none"
        /\ s2c = <<>>
    BY <1>1, <1>3 DEF Opening
  <2> QED
    BY <1>1, <1>3, <2>1
<1>4. CASE Requesting
  <2>1. c2s = <<Packet("REQUEST", 0)>>
    BY <1>4 DEF Requesting
  <2> QED
    BY <1>1, <1>4, <2>1
<1> QED
  BY <1>1, <1>2, <1>3, <1>4 DEF LinkInv, Unopened, Opened

\* Every step keeps LinkInv.
LEMMA LinkInv_Step ==
  ASSUME TypeOK, NetInv, PcInv, LinkInv, Next
  PROVE  LinkInv'
<1>0. /\ c2s \in Seq(CPacket) /\ s2c \in Seq(SPacket)
      /\ <<>> \in Seq(CPacket) /\ <<>> \in Seq(SPacket)
  BY EmptySeq DEF NetInv, CPacket, SPacket
<1>s. SUFFICES ASSUME session' = "ok"
               PROVE  Unopened' \/ Opening' \/ Opened' \/ Requesting'
                        \/ Established'
  BY DEF LinkInv
<1>1. CASE ssh_handle_packets
  <2>1. /\ session = "ok" /\ s2c # <<>> /\ s2c' = Tail(s2c)
        /\ UNCHANGED <<client, server>>
    BY <1>1, Handlers
  <2>2. CASE Opening
    <3>1. CASE s2c = <<Packet("OPEN_FAIL", 0)>>
      <4>1. /\ Head(s2c).type = "OPEN_FAIL" /\ s2c' = <<>>
            /\ c2s = <<>> /\ s_state = "none" /\ pc = "open"
        BY <2>1, <2>2, <3>1 DEF Opening, Packet
      <4>2. state' = "OPEN_DENIED" /\ UNCHANGED c2s
        BY <1>1, <4>1
        DEF ssh_handle_packets, ssh_packet_channel_open_conf,
            ssh_packet_channel_open_fail, ssh_packet_channel_success,
            channel_rcv_change_window, channel_rcv_data, channel_rcv_eof,
            channel_rcv_close
      <4> QED
        BY <2>1, <4>1, <4>2 DEF Unopened
    <3>2. CASE s2c = <<Packet("OPEN_CONF", ServerWindow)>>
      <4>1. /\ Head(s2c).type = "OPEN_CONF" /\ s2c' = <<>>
            /\ c2s = <<>> /\ s_state = "open" /\ pc = "open"
        <5>1. Head(s2c) = Packet("OPEN_CONF", ServerWindow) /\ s2c' = <<>>
          BY <2>1, <3>2
        <5>2. Head(s2c).type = "OPEN_CONF"
          BY <5>1 DEF Packet
        <5>3. s2c # <<Packet("OPEN_FAIL", 0)>>
          BY <5>2 DEF Packet
        <5> QED
          BY <2>1, <2>2, <5>1, <5>2, <5>3 DEF Opening
      <4>2. state' = "OPEN" /\ UNCHANGED c2s
        BY <1>1, <4>1
        DEF ssh_handle_packets, ssh_packet_channel_open_conf,
            ssh_packet_channel_open_fail, ssh_packet_channel_success,
            channel_rcv_change_window, channel_rcv_data, channel_rcv_eof,
            channel_rcv_close
      <4> QED
        BY <2>1, <4>1, <4>2 DEF Opened
    <3> QED
      BY <2>1, <2>2, <3>1, <3>2 DEF Opening
  <2>3. CASE Established
    <3>1. /\ Head(s2c).type \notin {"OPEN_CONF", "OPEN_FAIL"}
          /\ NoneOf({"OPEN_CONF", "OPEN_FAIL"}, s2c')
      BY <1>0, <2>1, <2>3, NoneOf_Queue DEF Established
    <3>2. NoneOf({"OPEN", "REQUEST"}, c2s') /\ state' \in {"OPEN", "CLOSED"}
      <4>1. CASE channel_rcv_data(Head(s2c))
        <5>1. Regrown(Greater(local_window - Head(s2c).n, 0))
          BY <1>1, <4>1, Handlers, Data_Effect DEF SPacket
        <5> QED
          BY <2>3, <4>1, <5>1, NoneOf_Regrown
          DEF Established, channel_rcv_data
      <4>2. CASE UNCHANGED c2s /\ state' \in {state, "CLOSED"}
        BY <2>3, <4>2 DEF Established
      <4> QED
        BY <1>1, <3>1, <4>1, <4>2
        DEF ssh_handle_packets, ssh_packet_channel_open_conf,
            ssh_packet_channel_open_fail, ssh_packet_channel_success,
            channel_rcv_change_window, channel_rcv_eof, channel_rcv_close
    <3> QED
      BY <2>1, <2>3, <3>1, <3>2 DEF Established
  <2> QED
    BY <2>1, <2>2, <2>3 DEF LinkInv, Unopened, Opened, Requesting
<1>2. CASE channel_open
  <2>1. session = "ok" /\ pc = "new" /\ c2s = <<>> /\ s2c = <<>>
        /\ s_state = "none"
    BY <1>s, <1>2
    DEF channel_open, Runs, LinkInv, Unopened, Opening, Opened, Requesting,
        Established
  <2>2. c2s' = <<Packet("OPEN", InitialWindow)>>
    BY <1>2, <2>1 DEF channel_open, Send, Sent
  <2> QED
    BY <1>2, <2>1, <2>2 DEF channel_open, Opening
<1>3. CASE channel_request
  <2>1. session = "ok" /\ pc = "open" /\ state # "OPENING"
        /\ c2s = <<>> /\ s2c = <<>>
    BY <1>s, <1>3
    DEF channel_request, channel_open_termination, Runs, LinkInv, Unopened,
        Opening, Opened, Requesting, Established
  <2>2. CASE state = "OPEN"
    <3>1. s_state = "open"
      BY <2>1, <2>2
      DEF LinkInv, Unopened, Opening, Opened, Requesting, Established
    <3>2. c2s' = <<Packet("REQUEST", 0)>>
      BY <1>3, <2>1, <2>2 DEF channel_request, Send, Sent
    <3> QED
      BY <1>3, <2>1, <2>2, <3>1, <3>2 DEF channel_request, Requesting
  <2>3. CASE state # "OPEN"
    BY <1>3, <2>1, <2>3
    DEF channel_request, LinkInv, Unopened, Opening, Opened, Requesting,
        Established
  <2> QED
    BY <2>2, <2>3
<1>4. CASE channel_request_returns
  <2>1. Established
    BY <1>s, <1>4
    DEF channel_request_returns, channel_request_termination, Runs, LinkInv,
        Unopened, Opening, Opened, Requesting
  <2> QED
    BY <1>4, <2>1 DEF channel_request_returns, Established
<1>5. CASE \/ channel_write_returns \/ channel_read_fails
           \/ \E n \in ReplyLengths : channel_write_begins(n)
  <2>1. Established
    BY <1>s, <1>5
    DEF channel_write_returns, channel_read_fails, channel_write_begins,
        Runs, LinkInv, Unopened, Opening, Opened, Requesting
  <2> QED
    BY <1>5, <2>1
    DEF channel_write_returns, channel_read_fails, channel_write_begins,
        Established
<1>6. CASE channel_write
  <2>1. Established /\ session = "ok"
    BY <1>s, <1>6
    DEF channel_write, Runs, LinkInv, Unopened, Opening, Opened, Requesting
  <2>2. /\ c2s' = Append(c2s, Packet("DATA", write_length))
        /\ write_length \in Nat
    BY <1>6, <2>1, Write_Length DEF channel_write, Send, Sent
  <2>3. NoneOf({"OPEN", "REQUEST"}, c2s')
    <3>1. /\ Packet("DATA", write_length) \in CPacket
          /\ Packet("DATA", write_length).type = "DATA"
      BY <2>2, Packet_Types DEF ClientTypes
    <3> QED
      BY <1>0, <2>1, <2>2, <3>1, NoneOf_Queue DEF Established
  <2> QED
    BY <1>6, <2>1, <2>3 DEF channel_write, Established
<1>7. CASE channel_read \/ \E n \in 1..rest : channel_read_begins(n)
  <2>1. Established
    BY <1>s, <1>7
    DEF channel_read, channel_read_begins, Runs, LinkInv, Unopened, Opening,
        Opened, Requesting
  <2>2. Regrown(local_window)
    BY <1>7, Read_Effect, Read_Begins_Effect DEF TypeOK
  <2>3. NoneOf({"OPEN", "REQUEST"}, c2s')
    BY <2>1, <2>2, NoneOf_Regrown DEF Established
  <2>4. UNCHANGED <<s2c, state, s_state>>
        /\ pc' \in {"idle", "read", "read_begins"}
    BY <1>7 DEF channel_read, channel_read_begins
  <2> QED
    BY <2>1, <2>3, <2>4 DEF Established
<1>8. CASE ssh_channel_send_eof
  <2>1. /\ UNCHANGED <<s2c, state, s_state, session>> /\ pc' = "eof"
        /\ pc \in {"free", "idle"} /\ session = "ok"
    BY <1>s, <1>8 DEF ssh_channel_send_eof, Runs
  <2>2. CASE Unopened
    <3>1. UNCHANGED c2s
      BY <1>8, <2>2 DEF ssh_channel_send_eof, send_eof, Unopened
    <3> QED
      BY <2>1, <2>2, <3>1 DEF Unopened
  <2>3. CASE Established
    <3>1. /\ Packet("EOF", 0) \in CPacket /\ Packet("EOF", 0).type = "EOF"
      BY Packet_Types DEF ClientTypes
    <3>2. c2s' = c2s \/ c2s' = Append(c2s, Packet("EOF", 0))
      BY <1>8, <2>1 DEF ssh_channel_send_eof, Send, Sent
    <3>3. NoneOf({"OPEN", "REQUEST"}, Append(c2s, Packet("EOF", 0)))
      BY <1>0, <2>3, <3>1, NoneOf_Queue DEF Established
    <3>4. NoneOf({"OPEN", "REQUEST"}, c2s')
      BY <2>3, <3>2, <3>3 DEF Established
    <3> QED
      BY <2>1, <2>3, <3>4 DEF Established
  <2> QED
    BY <2>1, <2>2, <2>3 DEF LinkInv, Opening, Opened, Requesting
<1>9. CASE ssh_channel_close
  <2>1. /\ UNCHANGED <<s2c, s_state, session>> /\ pc' = "close"
        /\ pc = "eof" /\ session = "ok"
    BY <1>s, <1>9 DEF ssh_channel_close, Runs
  <2>2. CASE Unopened
    <3>1. UNCHANGED <<c2s, state>>
      BY <1>9, <2>2 DEF ssh_channel_close, send_close, Unopened
    <3> QED
      BY <2>1, <2>2, <3>1 DEF Unopened
  <2>3. CASE Established
    <3>1. /\ Packet("EOF", 0) \in CPacket /\ Packet("EOF", 0).type = "EOF"
          /\ Packet("CLOSE", 0) \in CPacket
          /\ Packet("CLOSE", 0).type = "CLOSE"
      BY Packet_Types DEF ClientTypes
    <3> DEFINE q == Append(c2s, Packet("EOF", 0))
    <3>2. q \in Seq(CPacket) /\ NoneOf({"OPEN", "REQUEST"}, q)
      BY <1>0, <2>3, <3>1, NoneOf_Queue, AppendProperties DEF Established
    <3>3. /\ c2s' \in {c2s, Append(c2s, Packet("CLOSE", 0)),
                       Append(q, Packet("CLOSE", 0))}
          /\ state' \in {state, "CLOSED"}
      BY <1>9, Ends_Effect
    <3> HIDE DEF q
    <3>4. NoneOf({"OPEN", "REQUEST"}, Append(c2s, Packet("CLOSE", 0)))
      BY <1>0, <2>3, <3>1, NoneOf_Queue DEF Established
    <3>5. NoneOf({"OPEN", "REQUEST"}, Append(q, Packet("CLOSE", 0)))
      BY <3>1, <3>2, NoneOf_Queue
    <3>6. NoneOf({"OPEN", "REQUEST"}, c2s')
      BY <2>3, <3>3, <3>4, <3>5 DEF Established
    <3> QED
      BY <2>1, <2>3, <3>3, <3>6 DEF Established
  <2> QED
    BY <2>1, <2>2, <2>3 DEF LinkInv, Opening, Opened, Requesting
<1>10. CASE ssh_channel_free
  BY <1>s, <1>10
  DEF ssh_channel_free, Runs, LinkInv, Unopened, Opening, Opened, Requesting,
      Established
<1>11. CASE ssh_disconnect \/ ConnectionLost
  BY <1>s, <1>11 DEF ssh_disconnect, ConnectionLost
<1>12. CASE ServerReceives
  <2>1. UNCHANGED <<chan, client>>
    BY <1>12, Receives
  <2>2. CASE /\ Opening /\ s_state = "none" /\ s2c = <<>> /\ c2s' = <<>>
             /\ Head(c2s) = Packet("OPEN", InitialWindow)
    <3>1. Head(c2s).type = "OPEN" /\ Head(c2s).n = InitialWindow
      BY <2>2 DEF Packet
    <3>2. \/ /\ s2c' = Append(s2c, Packet("OPEN_CONF", ServerWindow))
             /\ s_window' = ServerWindow /\ s_remote' = InitialWindow
             /\ s_state' = "open"
          \/ /\ s2c' = Append(s2c, Packet("OPEN_FAIL", 0))
             /\ UNCHANGED s_state
      BY <1>12, <3>1 DEF ServerReceives, SReply
    <3>3. \A p : Append(s2c, p) = <<p>>
      BY <2>2
    <3> QED
      BY <2>1, <2>2, <3>2, <3>3 DEF Opening
  <2>3. CASE Requesting /\ Head(c2s) = Packet("REQUEST", 0) /\ c2s' = <<>>
    <3>1. Head(c2s).type = "REQUEST"
      BY <2>3 DEF Packet
    <3>2. /\ s2c' \in {Append(s2c, Packet("SUCCESS", 0)),
                       Append(s2c, Packet("FAILURE", 0))}
          /\ s_state' \in {"open", "running"}
      BY <1>12, <2>3, <3>1 DEF ServerReceives, SReply, Requesting
    <3>3. /\ \A t \in {"SUCCESS", "FAILURE"} :
                 Packet(t, 0) \in SPacket /\ Packet(t, 0).type = t
          /\ NoneOf({"OPEN_CONF", "OPEN_FAIL"}, s2c) /\ s2c = <<>>
          /\ NoneOf({"OPEN", "REQUEST"}, c2s')
      BY <1>0, <2>3, Packet_Types, NoneOf_Queue DEF ServerTypes, Requesting
    <3>4. ASSUME NEW t \in {"SUCCESS", "FAILURE"}
          PROVE  NoneOf({"OPEN_CONF", "OPEN_FAIL"}, Append(s2c, Packet(t, 0)))
      <4>1. Packet(t, 0) \in SPacket
            /\ Packet(t, 0).type \notin {"OPEN_CONF", "OPEN_FAIL"}
        BY <3>3
      <4> QED
        BY <1>0, <3>3, <4>1, NoneOf_Queue
    <3>5. NoneOf({"OPEN_CONF", "OPEN_FAIL"}, s2c')
      BY <3>2, <3>4
    <3> QED
      BY <2>1, <2>3, <3>2, <3>3, <3>5 DEF Requesting, Established
  <2>4. CASE /\ Established /\ Head(c2s).type \notin {"OPEN", "REQUEST"}
             /\ NoneOf({"OPEN", "REQUEST"}, c2s')
    <3>1. /\ s2c' \in {s2c, Append(s2c, Packet("CLOSE", 0))}
          /\ s_state' \in {s_state, "closed"}
      BY <1>12, <2>4 DEF ServerReceives, SReply
    <3>2. Packet("CLOSE", 0) \in SPacket /\ Packet("CLOSE", 0).type = "CLOSE"
      BY Packet_Types DEF ServerTypes
    <3>3. NoneOf({"OPEN_CONF", "OPEN_FAIL"}, Append(s2c, Packet("CLOSE", 0)))
      BY <1>0, <2>4, <3>2, NoneOf_Queue DEF Established
    <3>4. NoneOf({"OPEN_CONF", "OPEN_FAIL"}, s2c')
      BY <2>4, <3>1, <3>3 DEF Established
    <3> QED
      BY <2>1, <2>4, <3>1, <3>4 DEF Established
  <2> QED
    BY <1>12, <2>2, <2>3, <2>4, Open_Received
<1>13. CASE ServerGrants \/ ServerCloses \/ \E n \in 1..MaxPacket : ServerSends(n)
  <2>1. /\ session = "ok" /\ s_state = "running"
        /\ s_state' \in {"running", "closed"}
        /\ UNCHANGED <<c2s, chan, client>>
    BY <1>13 DEF ServerGrants, ServerSends, ServerCloses, ServerOnly
  <2>2. Established
    BY <2>1 DEF LinkInv, Unopened, Opening, Opened, Requesting
  <2>3. NoneOf({"OPEN_CONF", "OPEN_FAIL"}, s2c')
    <3>1. \A t \in {"ADJUST", "DATA", "EOF", "CLOSE"}, n \in Nat :
              Packet(t, n) \in SPacket /\ Packet(t, n).type = t
      BY Packet_Types DEF ServerTypes
    <3>2. CASE ServerCloses
      <4> DEFINE q == Append(s2c, Packet("EOF", 0))
      <4>1. q \in Seq(SPacket) /\ NoneOf({"OPEN_CONF", "OPEN_FAIL"}, q)
        BY <1>0, <2>2, <3>1, NoneOf_Queue, AppendProperties DEF Established
      <4>2. s2c' \in {Append(s2c, Packet("CLOSE", 0)),
                      Append(q, Packet("CLOSE", 0))}
        BY <3>2, Closes_Effect
      <4> HIDE DEF q
      <4>3. /\ Packet("CLOSE", 0) \in SPacket
            /\ Packet("CLOSE", 0).type = "CLOSE"
        BY <3>1
      <4>4. NoneOf({"OPEN_CONF", "OPEN_FAIL"}, Append(s2c, Packet("CLOSE", 0)))
        BY <1>0, <2>2, <4>3, NoneOf_Queue DEF Established
      <4>5. NoneOf({"OPEN_CONF", "OPEN_FAIL"}, Append(q, Packet("CLOSE", 0)))
        BY <4>1, <4>3, NoneOf_Queue
      <4> QED
        BY <4>2, <4>4, <4>5
    <3>3. CASE ServerGrants \/ \E n \in 1..MaxPacket : ServerSends(n)
      <4>1. PICK t \in {"ADJUST", "DATA"}, n \in Nat :
                s2c' = Append(s2c, Packet(t, n))
        BY <3>3, ChannelAssumption
        DEF ServerGrants, ServerSends, SReply, TypeOK, ChannelAssumption
      <4> QED
        BY <1>0, <2>2, <3>1, <4>1, NoneOf_Queue DEF Established
    <3> QED
      BY <1>13, <3>2, <3>3
  <2> QED
    BY <2>1, <2>2, <2>3 DEF Established
<1>14. CASE Done
  BY <1>s, <1>14
  DEF Done, LinkInv, Unopened, Opening, Opened, Requesting, Established
<1> QED
  BY <1>1, <1>2, <1>3, <1>4, <1>5, <1>6, <1>7, <1>8, <1>9, <1>10, <1>11,
     <1>12, <1>13, <1>14
  DEF Next, Call, ServerWorks

-----------------------------------------------------------------------------
(* The server's close *)

\* The closing packet is the last one.
CloseLast(q) == \A i \in DOMAIN q : q[i].type = "CLOSE" => i = Len(q)

\* Before the server has closed the channel there is no CLOSE.
LEMMA Not_Closed ==
  ASSUME CloseInv, session = "ok", s_state # "closed"
  PROVE  NoneOf({"CLOSE"}, s2c) /\ "CLOSED_REMOTE" \notin flags
BY DEF CloseInv, NoneOf

\* A queue without a CLOSE, to which one is appended.
LEMMA Close_Appended ==
  ASSUME NEW S, NEW q \in Seq(S), NEW p \in S, NoneOf({"CLOSE"}, q)
  PROVE  CloseLast(Append(q, p))
<1> DEFINE r == Append(q, p)
<1>1. /\ DOMAIN q = 1..Len(q) /\ DOMAIN r = 1..Len(q) + 1
      /\ Len(q) \in Nat /\ Len(r) = Len(q) + 1
      /\ \A i \in 1..Len(q) : r[i] = q[i]
  BY Appended
<1> HIDE DEF r
<1>2. \A i \in 1..Len(q) + 1 : i \in 1..Len(q) \/ i = Len(q) + 1
  BY <1>1
<1>3. CloseLast(r)
  BY <1>1, <1>2 DEF NoneOf, CloseLast
<1> QED
  BY <1>3 DEF r

\* Every step keeps CloseInv.
LEMMA CloseInv_Step ==
  ASSUME TypeOK, NetInv, LinkInv, CloseInv, Next
  PROVE  CloseInv'
<1>0. c2s \in Seq(CPacket) /\ s2c \in Seq(SPacket)
  BY DEF NetInv, CPacket, SPacket
<1>1. CASE ssh_handle_packets
  <2>1. /\ session = "ok" /\ s2c # <<>> /\ session' = session
        /\ Len(s2c) \in Nat \ {0} /\ DOMAIN s2c = 1..Len(s2c)
        /\ Head(s2c) = s2c[1] /\ s2c' \in Seq(SPacket)
        /\ Len(s2c') = Len(s2c) - 1 /\ DOMAIN s2c' = 1..Len(s2c) - 1
        /\ \A i \in 1..Len(s2c) - 1 : s2c'[i] = s2c[i + 1]
        /\ UNCHANGED s_state
    BY <1>1, Handlers
  <2>2. /\ "CLOSED_REMOTE" \notin flags
        /\ state = "CLOSED" => "CLOSED_LOCAL" \in flags
    BY <2>1 DEF CloseInv
  <2>3. CASE channel_rcv_close(Head(s2c))
    <3>1. s2c[1].type = "CLOSE" /\ 1 \in DOMAIN s2c
      BY <2>1, <2>3 DEF channel_rcv_close
    <3>2. Len(s2c) = 1 /\ s_state = "closed"
      BY <2>1, <3>1 DEF CloseInv
    <3>3. Len(s2c') = 0 /\ DOMAIN s2c' = {}
      BY <2>1, <3>2
    <3>4. s2c' = <<>>
      BY <2>1, <3>3, EmptySeq
    <3>5. UNCHANGED buffered /\ (buffered > 0 => UNCHANGED state)
          /\ flags' = flags \cup {"CLOSED_REMOTE"}
      BY <2>3 DEF channel_rcv_close
    <3>6. buffered \in Nat
      BY DEF TypeOK
    <3>7. state' = "CLOSED" /\ "CLOSED_LOCAL" \notin flags' => buffered' = 0
      BY <2>2, <3>5, <3>6
    <3> QED
      BY <2>1, <3>2, <3>3, <3>4, <3>5, <3>7 DEF CloseInv
  <2>4. CASE /\ flags' \in {flags, flags \ {"NOT_BOUND"}}
             /\ state' = "CLOSED" => state = "CLOSED"
    <3>1. \A i \in DOMAIN s2c' : s2c'[i].type = "CLOSE" =>
              i = Len(s2c') /\ s_state' = "closed"
      <4> SUFFICES ASSUME NEW i \in 1..Len(s2c) - 1,
                          s2c[i + 1].type = "CLOSE"
                   PROVE  i = Len(s2c) - 1 /\ s_state = "closed"
        BY <2>1
      <4>1. i + 1 \in DOMAIN s2c
        BY <2>1
      <4>2. i + 1 = Len(s2c) /\ s_state = "closed"
        BY <2>1, <4>1 DEF CloseInv
      <4>3. i \in Int /\ Len(s2c) \in Int
        BY <2>1
      <4> QED
        BY <4>2, <4>3
    <3> QED
      BY <2>1, <2>2, <2>4, <3>1 DEF CloseInv
  <2> QED
    BY <1>1, <2>3, <2>4
    DEF ssh_handle_packets, ssh_packet_channel_open_conf,
        ssh_packet_channel_open_fail, ssh_packet_channel_success,
        channel_rcv_change_window, channel_rcv_data, channel_rcv_eof
<1>2. CASE \/ channel_open \/ channel_request \/ channel_request_returns
           \/ channel_write \/ channel_write_returns
           \/ channel_read_fails \/ ssh_channel_send_eof \/ ssh_channel_free
           \/ \E n \in ReplyLengths : channel_write_begins(n)
           \/ \E n \in 1..rest : channel_read_begins(n)
  <2>1. /\ UNCHANGED <<s2c, s_state, session, buffered>>
        /\ flags' \in {flags, flags \cup {"FREED_LOCAL"}}
        /\ state' \in {state, "OPENING"}
    BY <1>2
    DEF channel_open, channel_request, channel_request_returns,
        channel_write_begins, channel_write, channel_write_returns,
        channel_read_begins, channel_read_fails, ssh_channel_send_eof,
        ssh_channel_free
  <2> QED
    BY <2>1 DEF CloseInv
<1>3. CASE channel_read
  <2>1. UNCHANGED <<s2c, s_state, session, state, flags>> /\ state # "CLOSED"
    BY <1>3 DEF channel_read
  <2> QED
    BY <2>1 DEF CloseInv
<1>4. CASE ssh_channel_close
  <2>1. /\ UNCHANGED <<s2c, s_state, session, buffered>>
        /\ \/ UNCHANGED <<flags, state>>
           \/ flags' = flags \cup {"CLOSED_LOCAL"}
    BY <1>4 DEF ssh_channel_close
  <2> QED
    BY <2>1 DEF CloseInv
<1>5. CASE ssh_disconnect \/ ConnectionLost
  BY <1>5 DEF ssh_disconnect, ConnectionLost, CloseInv
<1>6. CASE ServerReceives
  <2>1. UNCHANGED <<session, chan>> /\ session = "ok"
    BY <1>6, Receives
  <2>2. CASE UNCHANGED <<s2c, s_state>>
    BY <2>1, <2>2 DEF CloseInv
  <2>4. CASE /\ s_state # "closed"
             /\ \E t \in ServerTypes \ {"CLOSE"}, n \in Nat :
                    s2c' = Append(s2c, Packet(t, n))
    <3>1. NoneOf({"CLOSE"}, s2c) /\ "CLOSED_REMOTE" \notin flags
      BY <2>1, <2>4, Not_Closed
    <3>2. PICK t \in ServerTypes \ {"CLOSE"}, n \in Nat :
                    s2c' = Append(s2c, Packet(t, n))
      BY <2>4
    <3>3. Packet(t, n) \in SPacket /\ Packet(t, n).type = t
      BY Packet_Types
    <3>4. NoneOf({"CLOSE"}, s2c')
      BY <1>0, <3>1, <3>2, <3>3, NoneOf_Queue
    <3> QED
      BY <2>1, <3>1, <3>4 DEF CloseInv, NoneOf
  <2>5. CASE /\ s_state # "closed" /\ s_state' = "closed"
             /\ s2c' = Append(s2c, Packet("CLOSE", 0))
    <3>1. NoneOf({"CLOSE"}, s2c) /\ "CLOSED_REMOTE" \notin flags
      BY <2>1, <2>5, Not_Closed
    <3>2. Packet("CLOSE", 0) \in SPacket
      BY Packet_Types DEF ServerTypes
    <3>3. CloseLast(s2c')
      BY <1>0, <2>5, <3>1, <3>2, Close_Appended
    <3> QED
      BY <2>1, <2>5, <3>1, <3>3 DEF CloseInv, CloseLast
  <2>6. Head(c2s).type \in {"OPEN", "REQUEST"} => s_state # "closed"
    BY <1>6, Open_Received DEF Requesting
  <2>7. ChannelAssumption
    BY ChannelAssumption
  <2>8. CASE Head(c2s).type = "OPEN"
    BY <1>6, <2>4, <2>6, <2>7, <2>8
    DEF ServerReceives, SReply, ServerTypes, ChannelAssumption
  <2>9. CASE Head(c2s).type = "REQUEST"
    BY <1>6, <2>4, <2>6, <2>9 DEF ServerReceives, SReply, ServerTypes
  <2> QED
    BY <1>6, <2>2, <2>5, <2>8, <2>9 DEF ServerReceives, SReply
<1>7. CASE ServerGrants \/ \E n \in 1..MaxPacket : ServerSends(n)
  <2>1. /\ UNCHANGED <<session, chan, s_state>>
        /\ session = "ok" /\ s_state = "running"
    BY <1>7 DEF ServerGrants, ServerSends, ServerOnly
  <2>2. PICK t \in {"ADJUST", "DATA"}, n \in Nat :
            s2c' = Append(s2c, Packet(t, n))
    BY <1>7, ChannelAssumption
    DEF ServerGrants, ServerSends, SReply, TypeOK, ChannelAssumption
  <2>3. NoneOf({"CLOSE"}, s2c) /\ "CLOSED_REMOTE" \notin flags
    BY <2>1, Not_Closed
  <2>4. Packet(t, n) \in SPacket /\ Packet(t, n).type = t
    BY Packet_Types DEF ServerTypes
  <2>5. NoneOf({"CLOSE"}, s2c')
    BY <1>0, <2>2, <2>3, <2>4, NoneOf_Queue
  <2> QED
    BY <2>1, <2>3, <2>5 DEF CloseInv, NoneOf
<1>8. CASE ServerCloses
  <2>1. /\ UNCHANGED <<session, chan>> /\ s_state' = "closed"
        /\ session = "ok" /\ s_state = "running"
    BY <1>8 DEF ServerCloses, ServerOnly
  <2>2. NoneOf({"CLOSE"}, s2c) /\ "CLOSED_REMOTE" \notin flags
    BY <2>1, Not_Closed
  <2> DEFINE q == Append(s2c, Packet("EOF", 0))
  <2>3. /\ Packet("CLOSE", 0) \in SPacket /\ Packet("EOF", 0) \in SPacket
        /\ Packet("EOF", 0).type = "EOF"
    BY Packet_Types DEF ServerTypes
  <2>4. q \in Seq(SPacket) /\ NoneOf({"CLOSE"}, q)
    BY <1>0, <2>2, <2>3, NoneOf_Queue, AppendProperties
  <2>5. s2c' \in {Append(s2c, Packet("CLOSE", 0)),
                  Append(q, Packet("CLOSE", 0))}
    BY <1>8, Closes_Effect
  <2> HIDE DEF q
  <2>6. /\ CloseLast(Append(s2c, Packet("CLOSE", 0)))
        /\ CloseLast(Append(q, Packet("CLOSE", 0)))
    BY <1>0, <2>2, <2>3, <2>4, Close_Appended
  <2>7. CloseLast(s2c')
    BY <2>5, <2>6
  <2> QED
    BY <2>1, <2>2, <2>7 DEF CloseInv, CloseLast
<1>9. CASE Done
  BY <1>9 DEF Done, CloseInv
<1> QED
  BY <1>1, <1>2, <1>3, <1>4, <1>5, <1>6, <1>7, <1>8, <1>9
  DEF Next, Call, ServerWorks

-----------------------------------------------------------------------------
(* The client's end of file and close *)

\* A step that ends nothing keeps EndInv.
LEMMA EndInv_Other ==
  ASSUME NetInv, EndInv, UNCHANGED <<local_eof, s_seen>>,
         "CLOSED_LOCAL" \in flags' <=> "CLOSED_LOCAL" \in flags,
         local_eof => pc' \in {"eof", "close", "freed", "done"},
         "CLOSED_LOCAL" \in flags => pc' \in {"close", "freed", "done"},
         session' = "ok" => session = "ok",
         \/ UNCHANGED c2s
         \/ \E p \in CPacket : /\ c2s' = Append(c2s, p)
                               /\ p.type \notin {"EOF", "CLOSE"}
         \/ c2s' = <<>> /\ session' # "ok"
  PROVE  EndInv'
<1>1. c2s \in Seq(CPacket)
  BY DEF NetInv, CPacket
<1>2. CASE UNCHANGED c2s
  BY <1>2 DEF EndInv
<1>3. CASE c2s' = <<>> /\ session' # "ok"
  <2>1. \A types : NoneOf(types, c2s')
    BY <1>3 DEF NoneOf
  <2> QED
    BY <1>3, <2>1 DEF EndInv
<1>4. ASSUME NEW p \in CPacket, c2s' = Append(c2s, p),
             p.type \notin {"EOF", "CLOSE"}
      PROVE  EndInv'
  <2>1. \A types : NoneOf(types, c2s') <=>
                     (NoneOf(types, c2s) /\ p.type \notin types)
    BY <1>1, <1>4, NoneOf_Queue
  <2>2. \A types \in {{"EOF", "CLOSE"}, {"CLOSE"}, {"EOF"}} :
            NoneOf(types, c2s') <=> NoneOf(types, c2s)
    BY <1>4, <2>1
  <2>3. /\ NoneOf({"EOF", "CLOSE"}, c2s') <=> NoneOf({"EOF", "CLOSE"}, c2s)
        /\ NoneOf({"CLOSE"}, c2s') <=> NoneOf({"CLOSE"}, c2s)
        /\ NoneOf({"EOF"}, c2s') <=> NoneOf({"EOF"}, c2s)
    BY <2>2
  <2> QED
    BY <2>3 DEF EndInv
<1> QED
  BY <1>2, <1>3, <1>4

\* Every step keeps EndInv.
LEMMA EndInv_Step ==
  ASSUME TypeOK, NetInv, PcInv, EndInv, Next
  PROVE  EndInv'
<1>0. c2s \in Seq(CPacket)
  BY DEF NetInv, CPacket
<1>a. \A k \in Nat : /\ Packet("ADJUST", k) \in CPacket
                     /\ Packet("ADJUST", k).type = "ADJUST"
  BY Packet_Types DEF ClientTypes
<1>r. ASSUME NEW w, Regrown(w)
      PROVE  \/ UNCHANGED c2s
             \/ \E p \in CPacket : /\ c2s' = Append(c2s, p)
                                   /\ p.type \notin {"EOF", "CLOSE"}
  BY <1>a, <1>r DEF Regrown
<1>1. CASE ssh_handle_packets
  <2>1. /\ session = "ok" /\ Head(s2c) \in SPacket
        /\ UNCHANGED <<session, client, server>>
    BY <1>1, Handlers
  <2>2. /\ UNCHANGED local_eof
        /\ flags' \in {flags, flags \ {"NOT_BOUND"},
                       flags \cup {"CLOSED_REMOTE"}}
        /\ channel_rcv_data(Head(s2c)) \/ UNCHANGED c2s
    BY <1>1
    DEF ssh_handle_packets, ssh_packet_channel_open_conf,
        ssh_packet_channel_open_fail, ssh_packet_channel_success,
        channel_rcv_change_window, channel_rcv_data, channel_rcv_eof,
        channel_rcv_close
  <2>3. \/ UNCHANGED c2s
        \/ \E p \in CPacket : /\ c2s' = Append(c2s, p)
                              /\ p.type \notin {"EOF", "CLOSE"}
    <3>1. CASE channel_rcv_data(Head(s2c))
      <4>1. Regrown(Greater(local_window - Head(s2c).n, 0))
        BY <2>1, <3>1, Data_Effect DEF SPacket
      <4> QED
        BY <1>r, <4>1
    <3> QED
      BY <2>2, <3>1
  <2>4. "CLOSED_LOCAL" \in flags' <=> "CLOSED_LOCAL" \in flags
    BY <2>2
  <2>5. /\ local_eof => pc' \in {"eof", "close", "freed", "done"}
        /\ "CLOSED_LOCAL" \in flags => pc' \in {"close", "freed", "done"}
    BY <2>1 DEF EndInv
  <2> QED
    BY <2>1, <2>2, <2>3, <2>4, <2>5, EndInv_Other
<1>2. CASE channel_open \/ channel_request \/ channel_write
  <2>1. /\ UNCHANGED <<local_eof, s_seen, flags, session>>
        /\ pc \in {"new", "open", "write"}
    BY <1>2 DEF channel_open, channel_request, channel_write, Runs
  <2>2. \/ UNCHANGED c2s
        \/ \E t \in {"OPEN", "REQUEST", "DATA"}, n \in Nat :
               c2s' = Append(c2s, Packet(t, n))
    <3>1. channel_write => write_length \in Nat
      BY Write_Length
    <3>2. InitialWindow \in Nat
      BY ChannelAssumption DEF ChannelAssumption
    <3> QED
      BY <1>2, <3>1, <3>2
      DEF channel_open, channel_request, channel_write, Send, Sent
  <2>3. \A t \in {"OPEN", "REQUEST", "DATA"}, n \in Nat :
            Packet(t, n) \in CPacket /\ Packet(t, n).type = t
    BY Packet_Types DEF ClientTypes
  <2>4. \/ UNCHANGED c2s
        \/ \E p \in CPacket : /\ c2s' = Append(c2s, p)
                              /\ p.type \notin {"EOF", "CLOSE"}
    BY <2>2, <2>3
  <2>5. ~local_eof /\ "CLOSED_LOCAL" \notin flags
    BY <2>1 DEF EndInv
  <2> QED
    BY <2>1, <2>4, <2>5, EndInv_Other
<1>3. CASE \/ channel_request_returns \/ channel_write_returns
           \/ channel_read_fails
           \/ \E n \in ReplyLengths : channel_write_begins(n)
  <2>1. /\ UNCHANGED <<local_eof, s_seen, flags, session, c2s>>
        /\ pc \in {"request", "write", "read", "idle"}
    BY <1>3
    DEF channel_request_returns, channel_write_returns, channel_read_fails,
        channel_write_begins, Runs
  <2>2. ~local_eof /\ "CLOSED_LOCAL" \notin flags
    BY <2>1 DEF EndInv
  <2> QED
    BY <2>1, <2>2, EndInv_Other
<1>4. CASE channel_read \/ \E n \in 1..rest : channel_read_begins(n)
  <2>1. /\ UNCHANGED <<local_eof, s_seen, flags, session>>
        /\ pc \in {"read", "read_begins"}
    BY <1>4 DEF channel_read, channel_read_begins, Runs
  <2>2. Regrown(local_window)
    BY <1>4, Read_Effect, Read_Begins_Effect DEF TypeOK
  <2>3. ~local_eof /\ "CLOSED_LOCAL" \notin flags
    BY <2>1 DEF EndInv
  <2> QED
    BY <1>r, <2>1, <2>2, <2>3, EndInv_Other
<1>5. CASE ssh_channel_send_eof
  <2>1. /\ UNCHANGED <<s_seen, flags, session>> /\ pc' = "eof"
        /\ pc \in {"free", "idle"}
    BY <1>5 DEF ssh_channel_send_eof, Runs
  <2>2. ~local_eof /\ "CLOSED_LOCAL" \notin flags
        /\ s_seen = "none" /\ NoneOf({"EOF", "CLOSE"}, c2s)
        /\ NoneOf({"CLOSE"}, c2s)
    BY <2>1 DEF EndInv
  <2>3. CASE UNCHANGED <<c2s, local_eof>>
    BY <2>1, <2>2, <2>3 DEF EndInv
  <2>4. CASE local_eof' = (session = "ok") /\ Send(Packet("EOF", 0))
    <3>1. CASE session = "ok"
      <4>1. /\ c2s' = Append(c2s, Packet("EOF", 0))
            /\ Packet("EOF", 0) \in CPacket /\ Packet("EOF", 0).type = "EOF"
        BY <2>4, <3>1, Packet_Types DEF Send, Sent, ClientTypes
      <4>2. /\ NoneOf({"CLOSE"}, c2s')
            /\ ~NoneOf({"EOF"}, c2s')
        BY <1>0, <2>2, <4>1, NoneOf_Queue
      <4> QED
        BY <2>1, <2>2, <2>4, <3>1, <4>2 DEF EndInv
    <3>2. CASE session # "ok"
      <4>1. UNCHANGED c2s /\ ~local_eof'
        BY <2>4, <3>2 DEF Send, Sent
      <4> QED
        BY <2>1, <2>2, <3>2, <4>1 DEF EndInv
    <3> QED
      BY <3>1, <3>2
  <2> QED
    BY <1>5, <2>3, <2>4 DEF ssh_channel_send_eof
<1>6. CASE ssh_channel_close
  <2>1. UNCHANGED <<s_seen, session>> /\ pc' = "close" /\ pc = "eof"
    BY <1>6 DEF ssh_channel_close, Runs
  <2>2. /\ "CLOSED_LOCAL" \notin flags /\ s_seen # "close"
        /\ NoneOf({"CLOSE"}, c2s)
    BY <2>1 DEF EndInv
  <2> DEFINE e == Packet("EOF", 0)
             c == Packet("CLOSE", 0)
  <2>3. /\ e \in CPacket /\ e.type = "EOF"
        /\ c \in CPacket /\ c.type = "CLOSE"
    BY Packet_Types DEF ClientTypes
  <2> HIDE DEF e, c
  <2>4. CASE UNCHANGED <<c2s, local_eof, flags>>
    BY <2>1, <2>2, <2>4 DEF EndInv
  <2>5. CASE /\ session = "ok" /\ local_eof /\ local_eof'
             /\ flags' = flags \cup {"CLOSED_LOCAL"}
             /\ c2s' = Append(c2s, c)
    <3>1. s_seen # "none" \/ ~NoneOf({"EOF"}, c2s)
      BY <2>5 DEF EndInv
    <3>2. NoneOf({"EOF"}, c2s') => NoneOf({"EOF"}, c2s)
      BY <1>0, <2>3, <2>5, NoneOf_Queue
    <3> QED
      BY <2>1, <2>5, <3>1, <3>2 DEF EndInv
  <2>6. CASE /\ session = "ok" /\ ~local_eof /\ local_eof'
             /\ flags' = flags \cup {"CLOSED_LOCAL"}
             /\ c2s' = Append(Append(c2s, e), c)
    <3> DEFINE q == Append(c2s, e)
    <3>1. q \in Seq(CPacket)
      BY <1>0, <2>3, AppendProperties
    <3>2. ~NoneOf({"EOF"}, q)
      BY <1>0, <2>3, NoneOf_Queue
    <3>3. c2s' = Append(q, c)
      BY <2>6
    <3> HIDE DEF q
    <3>4. ~NoneOf({"EOF"}, c2s')
      BY <2>3, <3>1, <3>2, <3>3, NoneOf_Queue
    <3> QED
      BY <2>1, <2>6, <3>4 DEF EndInv
  <2> QED
    BY <1>6, <2>4, <2>5, <2>6, Ends_Effect DEF e, c
<1>7. CASE ssh_channel_free
  <2>1. /\ UNCHANGED <<local_eof, s_seen, session, c2s>> /\ pc' = "freed"
        /\ flags' = flags \cup {"FREED_LOCAL"}
    BY <1>7 DEF ssh_channel_free
  <2>2. "CLOSED_LOCAL" \in flags' <=> "CLOSED_LOCAL" \in flags
    BY <2>1
  <2> QED
    BY <2>1, <2>2, EndInv_Other
<1>8. CASE ssh_disconnect \/ ConnectionLost
  <2>1. /\ UNCHANGED <<local_eof, s_seen, flags>> /\ pc' \in {pc, "done"}
        /\ c2s' = <<>> /\ session' # "ok"
    BY <1>8 DEF ssh_disconnect, ConnectionLost
  <2>2. /\ local_eof => pc' \in {"eof", "close", "freed", "done"}
        /\ "CLOSED_LOCAL" \in flags => pc' \in {"close", "freed", "done"}
    BY <2>1 DEF EndInv
  <2> QED
    BY <2>1, <2>2, EndInv_Other
<1>9. CASE ServerReceives
  <2>1. /\ session = "ok" /\ c2s # <<>> /\ c2s' = Tail(c2s)
        /\ UNCHANGED <<session, chan, client>>
    BY <1>9, Receives
  <2>2. \A types : NoneOf(types, c2s) <=>
            (NoneOf(types, c2s') /\ Head(c2s).type \notin types)
    BY <1>0, <2>1, NoneOf_Queue
  <2>3. CASE Head(c2s).type = "EOF"
    <3>1. s_seen' = "eof"
      BY <1>9, <2>3 DEF ServerReceives
    <3>2. ~NoneOf({"EOF", "CLOSE"}, c2s)
          /\ (NoneOf({"CLOSE"}, c2s) => NoneOf({"CLOSE"}, c2s'))
      BY <2>2, <2>3
    <3> QED
      BY <2>1, <3>1, <3>2 DEF EndInv
  <2>4. CASE Head(c2s).type = "CLOSE"
    <3>1. s_seen' = "close"
      BY <1>9, <2>4 DEF ServerReceives
    <3>2. ~NoneOf({"EOF", "CLOSE"}, c2s) /\ ~NoneOf({"CLOSE"}, c2s)
      BY <2>2, <2>4
    <3> QED
      BY <2>1, <3>1, <3>2 DEF EndInv
  <2>5. CASE Head(c2s).type \notin {"EOF", "CLOSE"}
    <3>1. UNCHANGED s_seen
      BY <1>9, <2>5 DEF ServerReceives
    <3>2. /\ NoneOf({"EOF", "CLOSE"}, c2s') <=> NoneOf({"EOF", "CLOSE"}, c2s)
          /\ NoneOf({"CLOSE"}, c2s') <=> NoneOf({"CLOSE"}, c2s)
          /\ NoneOf({"EOF"}, c2s') <=> NoneOf({"EOF"}, c2s)
      BY <2>2, <2>5
    <3> QED
      BY <2>1, <3>1, <3>2 DEF EndInv
  <2> QED
    BY <2>3, <2>4, <2>5
<1>10. CASE ServerGrants \/ ServerCloses
            \/ \E n \in 1..MaxPacket : ServerSends(n)
  BY <1>10
  DEF ServerGrants, ServerSends, ServerCloses, ServerOnly, EndInv
<1>11. CASE Done
  BY <1>11 DEF Done, EndInv
<1> QED
  BY <1>1, <1>2, <1>3, <1>4, <1>5, <1>6, <1>7, <1>8, <1>9, <1>10, <1>11
  DEF Next, Call, ServerWorks

-----------------------------------------------------------------------------
(* The order of what the client sends *)

\* OrderInv of a queue, and of what the server has seen before it.
Ordered(q, seen) ==
    \A i \in DOMAIN q :
        /\ q[i].type \in {"DATA", "EOF"} =>
               /\ seen = "none"
               /\ \A j \in 1..i - 1 : q[j].type \notin {"EOF", "CLOSE"}
        /\ q[i].type = "CLOSE" =>
               /\ seen = "eof" \/ \E j \in 1..i - 1 : q[j].type = "EOF"
               /\ seen # "close"
               /\ \A j \in 1..i - 1 : q[j].type # "CLOSE"

\* What may be appended: data and an end of file only before the end, a close
\* only once and after the end of file.
LEMMA Ordered_Append ==
  ASSUME NEW S, NEW q \in Seq(S), NEW p \in S, NEW seen, Ordered(q, seen),
         p.type \in {"DATA", "EOF"} =>
             seen = "none" /\ NoneOf({"EOF", "CLOSE"}, q),
         p.type = "CLOSE" =>
             /\ seen = "eof" \/ ~NoneOf({"EOF"}, q)
             /\ seen # "close" /\ NoneOf({"CLOSE"}, q)
  PROVE  Ordered(Append(q, p), seen)
<1> DEFINE r == Append(q, p)
           m == Len(q) + 1
<1>1. /\ DOMAIN q = 1..Len(q) /\ DOMAIN r = 1..m /\ Len(q) \in Nat
      /\ r[m] = p /\ \A i \in 1..Len(q) : r[i] = q[i]
  BY Appended
<1> HIDE DEF r
<1>2. ASSUME NEW i \in 1..Len(q)
      PROVE  /\ r[i] = q[i]
             /\ \A j \in 1..i - 1 : r[j] = q[j]
  <2>1. \A j \in 1..i - 1 : j \in 1..Len(q)
    BY <1>1
  <2> QED
    BY <1>1, <2>1
<1>3. \A j \in 1..m - 1 : r[j] = q[j]
  BY <1>1
<1>4. 1..m - 1 = DOMAIN q
  BY <1>1
<1>5. \A i \in 1..m : i \in 1..Len(q) \/ i = m
  BY <1>1
<1> HIDE DEF m
<1>6. ASSUME NEW i \in DOMAIN r
      PROVE  /\ r[i].type \in {"DATA", "EOF"} =>
                  /\ seen = "none"
                  /\ \A j \in 1..i - 1 : r[j].type \notin {"EOF", "CLOSE"}
             /\ r[i].type = "CLOSE" =>
                  /\ seen = "eof" \/ \E j \in 1..i - 1 : r[j].type = "EOF"
                  /\ seen # "close"
                  /\ \A j \in 1..i - 1 : r[j].type # "CLOSE"
  <2>1. CASE i \in 1..Len(q)
    BY <1>1, <1>2, <2>1 DEF Ordered
  <2>2. CASE i = m
    BY <1>1, <1>3, <1>4, <2>2 DEF NoneOf
  <2> QED
    BY <1>1, <1>5, <2>1, <2>2
<1>7. Ordered(r, seen)
  BY <1>6 DEF Ordered
<1> QED
  BY <1>7 DEF r

\* The server takes the first packet.
LEMMA Ordered_Tail ==
  ASSUME NEW S, NEW q \in Seq(S), q # <<>>, NEW seen, NEW now,
         seen \in {"none", "eof", "close"}, Ordered(q, seen),
         now = IF Head(q).type = "EOF" THEN "eof"
               ELSE IF Head(q).type = "CLOSE" THEN "close" ELSE seen
  PROVE  Ordered(Tail(q), now)
<1> DEFINE t == Tail(q)
<1>1. /\ Len(q) \in Nat /\ Len(q) >= 1 /\ DOMAIN q = 1..Len(q)
      /\ t \in Seq(S) /\ Len(t) = Len(q) - 1 /\ Head(q) = q[1]
      /\ \A i \in 1..Len(t) : t[i] = q[i + 1]
  BY LenProperties, EmptySeq, HeadTailProperties
<1>2. DOMAIN t = 1..Len(q) - 1
  BY <1>1, LenProperties
<1> HIDE DEF t
<1>3. 1 \in DOMAIN q /\ 1..1 - 1 = {}
  BY <1>1
<1>4. /\ q[1].type = "EOF" => seen = "none"
      /\ q[1].type = "CLOSE" => seen = "eof"
  BY <1>3 DEF Ordered
<1>5. ASSUME NEW i \in DOMAIN t
      PROVE  /\ t[i].type \in {"DATA", "EOF"} =>
                  /\ now = "none"
                  /\ \A j \in 1..i - 1 : t[j].type \notin {"EOF", "CLOSE"}
             /\ t[i].type = "CLOSE" =>
                  /\ now = "eof" \/ \E j \in 1..i - 1 : t[j].type = "EOF"
                  /\ now # "close"
                  /\ \A j \in 1..i - 1 : t[j].type # "CLOSE"
  <2> DEFINE k == i + 1
  <2>1. /\ k \in DOMAIN q /\ t[i] = q[k] /\ 1 \in 1..k - 1
        /\ \A j \in 1..i - 1 : j + 1 \in 1..k - 1 /\ t[j] = q[j + 1]
    BY <1>1, <1>2
  <2>2. \A j \in 1..k - 1 : j = 1 \/ (j - 1 \in 1..i - 1 /\ q[j] = t[j - 1])
    BY <1>1, <1>2
  <2> HIDE DEF k
  <2>3. /\ q[k].type \in {"DATA", "EOF"} =>
               /\ seen = "none"
               /\ \A j \in 1..k - 1 : q[j].type \notin {"EOF", "CLOSE"}
        /\ q[k].type = "CLOSE" =>
               /\ seen = "eof" \/ \E j \in 1..k - 1 : q[j].type = "EOF"
               /\ seen # "close"
               /\ \A j \in 1..k - 1 : q[j].type # "CLOSE"
    BY <2>1 DEF Ordered
  <2>4. ASSUME t[i].type \in {"DATA", "EOF"}
        PROVE  /\ now = "none"
               /\ \A j \in 1..i - 1 : t[j].type \notin {"EOF", "CLOSE"}
    <3>1. /\ seen = "none"
          /\ \A j \in 1..k - 1 : q[j].type \notin {"EOF", "CLOSE"}
      BY <2>1, <2>3, <2>4
    <3> QED
      BY <1>1, <2>1, <3>1
  <2>5. ASSUME t[i].type = "CLOSE"
        PROVE  /\ now = "eof" \/ \E j \in 1..i - 1 : t[j].type = "EOF"
               /\ now # "close"
               /\ \A j \in 1..i - 1 : t[j].type # "CLOSE"
    <3>1. /\ seen = "eof" \/ \E j \in 1..k - 1 : q[j].type = "EOF"
          /\ seen # "close"
          /\ \A j \in 1..k - 1 : q[j].type # "CLOSE"
      BY <2>1, <2>3, <2>5
    <3>2. now # "close" /\ (seen = "eof" => now = "eof")
      BY <1>1, <2>1, <3>1
    <3>3. \A j \in 1..i - 1 : t[j].type # "CLOSE"
      BY <2>1, <3>1
    <3>4. now = "eof" \/ \E j \in 1..i - 1 : t[j].type = "EOF"
      <4>1. CASE seen = "eof"
        BY <3>2, <4>1
      <4>2. ASSUME NEW j \in 1..k - 1, q[j].type = "EOF"
            PROVE  now = "eof" \/ \E l \in 1..i - 1 : t[l].type = "EOF"
        <5>1. CASE j = 1
          BY <1>1, <4>2, <5>1
        <5>2. CASE j - 1 \in 1..i - 1 /\ q[j] = t[j - 1]
          BY <4>2, <5>2
        <5> QED
          BY <2>2, <5>1, <5>2
      <4> QED
        BY <3>1, <4>1, <4>2
    <3> QED
      BY <3>2, <3>3, <3>4
  <2> QED
    BY <2>4, <2>5
<1>6. Ordered(t, now)
  BY <1>5 DEF Ordered
<1> QED
  BY <1>6 DEF t

\* Every step keeps OrderInv.
LEMMA OrderInv_Step ==
  ASSUME TypeOK, NetInv, PcInv, EndInv, OrderInv, Next
  PROVE  OrderInv'
<1>0. c2s \in Seq(CPacket) /\ Ordered(c2s, s_seen)
      /\ s_seen \in {"none", "eof", "close"}
  BY DEF NetInv, CPacket, OrderInv, Ordered, TypeOK
<1>s. SUFFICES Ordered(c2s', s_seen')
  BY DEF OrderInv, Ordered
<1>p. ASSUME NEW t \in {"OPEN", "REQUEST", "ADJUST"}, NEW n \in Nat
      PROVE  Ordered(Append(c2s, Packet(t, n)), s_seen)
  <2>1. Packet(t, n) \in CPacket /\ Packet(t, n).type = t
    BY Packet_Types DEF ClientTypes
  <2>2. t \notin {"DATA", "EOF", "CLOSE"}
    OBVIOUS
  <2> QED
    BY <1>0, <2>1, <2>2, Ordered_Append
<1>r. ASSUME NEW w, Regrown(w), UNCHANGED s_seen
      PROVE  Ordered(c2s', s_seen')
  BY <1>0, <1>p, <1>r DEF Regrown
<1>1. CASE ssh_handle_packets
  <2>1. Head(s2c) \in SPacket /\ UNCHANGED s_seen
    BY <1>1, Handlers
  <2>2. CASE channel_rcv_data(Head(s2c))
    <3>1. Regrown(Greater(local_window - Head(s2c).n, 0))
      BY <2>1, <2>2, Data_Effect DEF SPacket
    <3> QED
      BY <1>r, <2>1, <3>1
  <2>3. CASE UNCHANGED c2s
    BY <1>0, <2>1, <2>3
  <2> QED
    BY <1>1, <2>2, <2>3
    DEF ssh_handle_packets, ssh_packet_channel_open_conf,
        ssh_packet_channel_open_fail, ssh_packet_channel_success,
        channel_rcv_change_window, channel_rcv_eof, channel_rcv_close
<1>2. CASE channel_open \/ channel_request
  <2>1. InitialWindow \in Nat
    BY ChannelAssumption DEF ChannelAssumption
  <2>2. UNCHANGED s_seen /\ c2s' \in {c2s, Append(c2s, Packet("REQUEST", 0)),
                                  Append(c2s, Packet("OPEN", InitialWindow))}
    BY <1>2 DEF channel_open, channel_request, Send, Sent
  <2>3. /\ Ordered(Append(c2s, Packet("REQUEST", 0)), s_seen)
        /\ Ordered(Append(c2s, Packet("OPEN", InitialWindow)), s_seen)
    BY <1>p, <2>1
  <2> QED
    BY <1>0, <2>2, <2>3
<1>3. CASE \/ channel_request_returns \/ channel_write_returns
           \/ channel_read_fails \/ ssh_channel_free
           \/ \E n \in ReplyLengths : channel_write_begins(n)
  <2>1. UNCHANGED <<s_seen, c2s>>
    BY <1>3
    DEF channel_request_returns, channel_write_returns, channel_read_fails,
        ssh_channel_free, channel_write_begins
  <2> QED
    BY <1>0, <2>1
<1>4. CASE channel_write
  <2>1. pc = "write" /\ UNCHANGED s_seen
        /\ c2s' \in {c2s, Append(c2s, Packet("DATA", write_length))}
    BY <1>4 DEF channel_write, Runs, Send, Sent
  <2>2. s_seen = "none" /\ NoneOf({"EOF", "CLOSE"}, c2s)
    BY <2>1 DEF EndInv
  <2>3. /\ Packet("DATA", write_length) \in CPacket
        /\ Packet("DATA", write_length).type = "DATA"
    BY <1>4, Write_Length, Packet_Types DEF ClientTypes
  <2>4. Ordered(Append(c2s, Packet("DATA", write_length)), s_seen)
    BY <1>0, <2>2, <2>3, Ordered_Append
  <2> QED
    BY <1>0, <2>1, <2>4
<1>5. CASE channel_read \/ \E n \in 1..rest : channel_read_begins(n)
  <2>1. Regrown(local_window)
    BY <1>5, Read_Effect, Read_Begins_Effect DEF TypeOK
  <2>2. UNCHANGED s_seen
    BY <1>5 DEF channel_read, channel_read_begins
  <2> QED
    BY <1>r, <2>1, <2>2
<1> DEFINE e == Packet("EOF", 0)
           c == Packet("CLOSE", 0)
<1>e. /\ e \in CPacket /\ e.type = "EOF"
      /\ c \in CPacket /\ c.type = "CLOSE"
  BY Packet_Types DEF ClientTypes
<1>6. CASE ssh_channel_send_eof
  <2>1. /\ pc \in {"free", "idle"} /\ UNCHANGED s_seen
        /\ c2s' \in {c2s, Append(c2s, e)}
    BY <1>6 DEF ssh_channel_send_eof, Runs, Send, Sent
  <2>2. s_seen = "none" /\ NoneOf({"EOF", "CLOSE"}, c2s)
    BY <2>1 DEF EndInv
  <2> HIDE DEF e
  <2>3. Ordered(Append(c2s, e), s_seen)
    BY <1>0, <1>e, <2>2, Ordered_Append
  <2> QED
    BY <1>0, <2>1, <2>3
<1>7. CASE ssh_channel_close
  <2>1. pc = "eof" /\ UNCHANGED s_seen
    BY <1>7 DEF ssh_channel_close, Runs
  <2>2. s_seen # "close" /\ NoneOf({"CLOSE"}, c2s)
    BY <2>1 DEF EndInv
  <2>3. \/ UNCHANGED c2s
        \/ session = "ok" /\ local_eof /\ c2s' = Append(c2s, c)
        \/ ~local_eof /\ c2s' = Append(Append(c2s, e), c)
    BY <1>7, Ends_Effect
  <2> HIDE DEF e, c
  <2>4. CASE session = "ok" /\ local_eof /\ c2s' = Append(c2s, c)
    <3>1. s_seen = "eof" \/ ~NoneOf({"EOF"}, c2s)
      BY <1>0, <2>2, <2>4 DEF EndInv
    <3> QED
      BY <1>0, <1>e, <2>1, <2>2, <2>4, <3>1, Ordered_Append
  <2>5. CASE ~local_eof /\ c2s' = Append(Append(c2s, e), c)
    <3> DEFINE q == Append(c2s, e)
    <3>1. s_seen = "none" /\ NoneOf({"EOF", "CLOSE"}, c2s)
      BY <2>5 DEF EndInv
    <3>2. q \in Seq(CPacket) /\ NoneOf({"CLOSE"}, q) /\ ~NoneOf({"EOF"}, q)
      BY <1>0, <1>e, <2>2, AppendProperties, NoneOf_Queue
    <3>3. Ordered(q, s_seen)
      BY <1>0, <1>e, <3>1, Ordered_Append
    <3>4. c2s' = Append(q, c)
      BY <2>5
    <3> HIDE DEF q
    <3> QED
      BY <1>e, <2>1, <2>2, <3>2, <3>3, <3>4, Ordered_Append
  <2> QED
    BY <1>0, <2>1, <2>3, <2>4, <2>5
<1>8. CASE ssh_disconnect \/ ConnectionLost
  BY <1>8 DEF ssh_disconnect, ConnectionLost, Ordered
<1>9. CASE ServerReceives
  <2>1. c2s # <<>> /\ c2s' = Tail(c2s)
    BY <1>9, Receives
  <2>2. s_seen' = IF Head(c2s).type = "EOF" THEN "eof"
                  ELSE IF Head(c2s).type = "CLOSE" THEN "close" ELSE s_seen
    BY <1>9 DEF ServerReceives
  <2> QED
    BY <1>0, <2>1, <2>2, Ordered_Tail
<1>10. CASE \/ ServerGrants \/ ServerCloses \/ Done
            \/ \E n \in 1..MaxPacket : ServerSends(n)
  <2>1. UNCHANGED <<c2s, s_seen>>
    BY <1>10 DEF ServerGrants, ServerSends, ServerCloses, ServerOnly, Done
  <2> QED
    BY <1>0, <2>1
<1> QED
  BY <1>1, <1>2, <1>3, <1>4, <1>5, <1>6, <1>7, <1>8, <1>9, <1>10
  DEF Next, Call, ServerWorks

\* What OrderInv says packet by packet is OrderlyEnd.
LEMMA Order_Implies ==
  ASSUME OrderInv
  PROVE  OrderlyEnd
<1> DEFINE Ends(t) == \/ s_seen = "eof" /\ t = "EOF"
                      \/ s_seen = "close" /\ t \in {"EOF", "CLOSE"}
           Earlier(i) == {c2s[j].type : j \in 1..i - 1}
           Before(i) == Earlier(i) \union {t \in {"EOF", "CLOSE"} : Ends(t)}
<1>1. ASSUME NEW i \in DOMAIN c2s
      PROVE  /\ c2s[i].type \in {"DATA", "EOF"} =>
                   Before(i) \intersect {"EOF", "CLOSE"} = {}
             /\ c2s[i].type = "CLOSE" =>
                   "EOF" \in Before(i) /\ "CLOSE" \notin Before(i)
  BY DEF OrderInv
<1> QED
  BY <1>1 DEF OrderlyEnd

-----------------------------------------------------------------------------
(* What is on its way, step by step *)

\* What is on its way is counted.
LEMMA Flight_Type ==
  ASSUME NetInv, NEW type
  PROVE  InFlight(type, c2s) \in Nat /\ InFlight(type, s2c) \in Nat
BY Bytes_Finite DEF NetInv

\* The client sends a packet.
LEMMA Flight_Send ==
  ASSUME NetInv, NEW t \in ClientTypes, NEW n \in Nat, NEW type
  PROVE  InFlight(type, Append(c2s, Packet(t, n)))
           = InFlight(type, c2s) + (IF t = type THEN n ELSE 0)
<1>1. /\ Packet(t, n) \in CPacket /\ Packet(t, n).type = t
      /\ Packet(t, n).n = n /\ c2s \in Seq(CPacket)
  BY Packet_Types DEF NetInv, CPacket
<1> QED
  BY <1>1, InFlight_Append DEF Adds, CPacket

\* The server sends a packet.
LEMMA Flight_Reply ==
  ASSUME NetInv, NEW t \in ServerTypes, NEW n \in Nat, NEW type
  PROVE  InFlight(type, Append(s2c, Packet(t, n)))
           = InFlight(type, s2c) + (IF t = type THEN n ELSE 0)
<1>1. /\ Packet(t, n) \in SPacket /\ Packet(t, n).type = t
      /\ Packet(t, n).n = n /\ s2c \in Seq(SPacket)
  BY Packet_Types DEF NetInv, SPacket
<1> QED
  BY <1>1, InFlight_Append DEF Adds, SPacket

\* A window is grown: its growth is on its way to the server.
LEMMA Flight_Regrown ==
  ASSUME NetInv, NEW w \in Nat, Regrown(w)
  PROVE  /\ InFlight("DATA", c2s') = InFlight("DATA", c2s)
         /\ InFlight("ADJUST", c2s') \in Nat
         /\ session = "ok" =>
              local_window' + InFlight("ADJUST", c2s)
                = w + InFlight("ADJUST", c2s')
<1>1. InFlight("ADJUST", c2s) \in Nat /\ InFlight("DATA", c2s) \in Nat
  BY Flight_Type
<1>2. CASE c2s' = c2s /\ (session = "ok" => local_window' = w)
  BY <1>1, <1>2
<1>3. ASSUME NEW k \in Nat, c2s' = Append(c2s, Packet("ADJUST", k)),
             local_window' = w + k
      PROVE  /\ InFlight("DATA", c2s') = InFlight("DATA", c2s)
             /\ InFlight("ADJUST", c2s') \in Nat
             /\ local_window' + InFlight("ADJUST", c2s)
                  = w + InFlight("ADJUST", c2s')
  <2>1. /\ InFlight("DATA", c2s') = InFlight("DATA", c2s) + 0
        /\ InFlight("ADJUST", c2s') = InFlight("ADJUST", c2s) + k
    BY <1>3, Flight_Send DEF ClientTypes
  <2> QED
    BY <1>1, <1>3, <2>1
<1> QED
  BY <1>2, <1>3 DEF Regrown

\* The client handles a packet.
LEMMA Flight_Handle ==
  ASSUME TypeOK, NetInv, ssh_handle_packets
  PROVE  /\ \A type : /\ InFlight(type, s2c') \in Nat
                      /\ InFlight(type, s2c) = InFlight(type, s2c')
                             + Adds(type, Head(s2c))
                      /\ Adds(type, Head(s2c)) \in Nat
         /\ InFlight("DATA", c2s') = InFlight("DATA", c2s)
         /\ buffered' = buffered + Adds("DATA", Head(s2c))
         /\ Head(s2c).type = "DATA" =>
               local_window' + InFlight("ADJUST", c2s)
                 = Greater(local_window - Head(s2c).n, 0)
                     + InFlight("ADJUST", c2s')
         /\ Head(s2c).type # "DATA" => UNCHANGED <<local_window, c2s>>
         /\ local_window' \in Nat
<1>1. /\ session = "ok" /\ s2c # <<>> /\ Head(s2c) \in SPacket
      /\ s2c' = Tail(s2c) /\ s2c \in Seq(SPacket) /\ s2c' \in Seq(SPacket)
      /\ Head(s2c).n \in Nat
  BY Handlers DEF NetInv, SPacket
<1>2. ASSUME NEW type
      PROVE  /\ InFlight(type, s2c') \in Nat
             /\ InFlight(type, s2c) = InFlight(type, s2c')
                    + Adds(type, Head(s2c))
             /\ Adds(type, Head(s2c)) \in Nat
  <2>1. InFlight(type, s2c) = InFlight(type, s2c') + Adds(type, Head(s2c))
    BY <1>1, InFlight_Tail DEF SPacket
  <2>2. InFlight(type, s2c') \in Nat
    BY <1>1, Bytes_Finite DEF SPacket
  <2>3. Adds(type, Head(s2c)) \in Nat
    BY <1>1 DEF Adds
  <2> QED
    BY <2>1, <2>2, <2>3
<1>3. CASE channel_rcv_data(Head(s2c))
  <2> DEFINE w == Greater(local_window - Head(s2c).n, 0)
  <2>0. w \in Nat
    BY <1>1 DEF TypeOK, Greater
  <2>1. Regrown(w) /\ Head(s2c).type = "DATA"
        /\ buffered' = buffered + Head(s2c).n
    <3>1. Regrown(w)
      BY <1>1, <1>3, Data_Effect
    <3> QED
      BY <1>3, <3>1 DEF channel_rcv_data
  <2> HIDE DEF w
  <2>2. /\ InFlight("DATA", c2s') = InFlight("DATA", c2s)
        /\ local_window' + InFlight("ADJUST", c2s)
             = w + InFlight("ADJUST", c2s')
    BY <1>1, <2>0, <2>1, Flight_Regrown
  <2>3. local_window' \in Nat
    BY <2>1 DEF Regrown
  <2> QED
    BY <1>2, <2>1, <2>2, <2>3 DEF Adds, w
<1>4. CASE /\ Head(s2c).type # "DATA"
           /\ UNCHANGED <<c2s, local_window, buffered>>
  <2>1. buffered + 0 = buffered /\ local_window \in Nat
    BY DEF TypeOK
  <2> QED
    BY <1>2, <1>4, <2>1 DEF Adds
<1> QED
  BY <1>3, <1>4
  DEF ssh_handle_packets, ssh_packet_channel_open_conf,
      ssh_packet_channel_open_fail, ssh_packet_channel_success,
      channel_rcv_change_window, channel_rcv_eof, channel_rcv_close

\* The server takes a packet.
LEMMA Flight_Receive ==
  ASSUME NetInv, ServerReceives
  PROVE  /\ \A type : /\ InFlight(type, c2s') \in Nat
                      /\ InFlight(type, c2s) = InFlight(type, c2s')
                             + Adds(type, Head(c2s))
                      /\ Adds(type, Head(c2s)) \in Nat
         /\ \A type \in {"DATA", "ADJUST"} :
                InFlight(type, s2c') = InFlight(type, s2c)
<1>1. /\ session = "ok" /\ c2s # <<>> /\ Head(c2s) \in CPacket
      /\ c2s' = Tail(c2s) /\ c2s \in Seq(CPacket) /\ c2s' \in Seq(CPacket)
      /\ Head(c2s).n \in Nat
  BY Receives DEF NetInv, CPacket
<1>2. ASSUME NEW type
      PROVE  /\ InFlight(type, c2s') \in Nat
             /\ InFlight(type, c2s) = InFlight(type, c2s')
                    + Adds(type, Head(c2s))
             /\ Adds(type, Head(c2s)) \in Nat
  <2>1. InFlight(type, c2s) = InFlight(type, c2s') + Adds(type, Head(c2s))
    BY <1>1, InFlight_Tail DEF CPacket
  <2>2. InFlight(type, c2s') \in Nat
    BY <1>1, Bytes_Finite DEF CPacket
  <2>3. Adds(type, Head(c2s)) \in Nat
    BY <1>1 DEF Adds
  <2> QED
    BY <2>1, <2>2, <2>3
<1>3. \/ UNCHANGED s2c
      \/ \E t \in {"OPEN_CONF", "OPEN_FAIL", "SUCCESS", "FAILURE", "CLOSE"},
            n \in Nat : s2c' = Append(s2c, Packet(t, n))
  BY ChannelAssumption DEF ServerReceives, SReply, ChannelAssumption
<1>4. ASSUME NEW type \in {"DATA", "ADJUST"}
      PROVE  InFlight(type, s2c') = InFlight(type, s2c)
  <2>1. InFlight(type, s2c) \in Nat
    BY Flight_Type
  <2>2. ASSUME NEW t \in {"OPEN_CONF", "OPEN_FAIL", "SUCCESS", "FAILURE",
                          "CLOSE"},
               NEW n \in Nat
        PROVE  InFlight(type, Append(s2c, Packet(t, n)))
                 = InFlight(type, s2c)
    <3>1. t \in ServerTypes /\ t # type
      BY DEF ServerTypes
    <3> QED
      BY <2>1, <3>1, Flight_Reply
  <2>3. CASE UNCHANGED s2c
    BY <2>3
  <2>4. ASSUME NEW t \in {"OPEN_CONF", "OPEN_FAIL", "SUCCESS", "FAILURE",
                          "CLOSE"},
               NEW n \in Nat, s2c' = Append(s2c, Packet(t, n))
        PROVE  InFlight(type, s2c') = InFlight(type, s2c)
    <3> DEFINE q == Append(s2c, Packet(t, n))
    <3>1. InFlight(type, q) = InFlight(type, s2c) /\ s2c' = q
      BY <2>2, <2>4
    <3> HIDE DEF q
    <3> QED
      BY <3>1
  <2> QED
    BY <1>3, <2>3, <2>4
<1> QED
  BY <1>2, <1>4

\* The server grants, sends and closes.
LEMMA Flight_Server ==
  ASSUME TypeOK, NetInv
  PROVE  /\ ServerGrants =>
              /\ InFlight("DATA", s2c') = InFlight("DATA", s2c)
              /\ InFlight("ADJUST", s2c')
                   = InFlight("ADJUST", s2c) + (ServerWindow - s_window)
         /\ \A n \in 1..MaxPacket : ServerSends(n) =>
              /\ InFlight("DATA", s2c') = InFlight("DATA", s2c) + n
              /\ InFlight("ADJUST", s2c') = InFlight("ADJUST", s2c)
         /\ ServerCloses =>
              /\ InFlight("DATA", s2c') = InFlight("DATA", s2c)
              /\ InFlight("ADJUST", s2c') = InFlight("ADJUST", s2c)
<1>0. InFlight("DATA", s2c) \in Nat /\ InFlight("ADJUST", s2c) \in Nat
  BY Flight_Type
<1>1. ASSUME ServerGrants
      PROVE  /\ InFlight("DATA", s2c') = InFlight("DATA", s2c)
             /\ InFlight("ADJUST", s2c')
                  = InFlight("ADJUST", s2c) + (ServerWindow - s_window)
  <2> DEFINE k == ServerWindow - s_window
  <2>1. k \in Nat /\ s2c' = Append(s2c, Packet("ADJUST", k))
    BY <1>1, ChannelAssumption
    DEF ServerGrants, SReply, TypeOK, ChannelAssumption
  <2> HIDE DEF k
  <2>2. /\ InFlight("DATA", s2c') = InFlight("DATA", s2c) + 0
        /\ InFlight("ADJUST", s2c') = InFlight("ADJUST", s2c) + k
    BY <2>1, Flight_Reply DEF ServerTypes
  <2> QED
    BY <1>0, <2>2 DEF k
<1>2. ASSUME NEW n \in 1..MaxPacket, ServerSends(n)
      PROVE  /\ InFlight("DATA", s2c') = InFlight("DATA", s2c) + n
             /\ InFlight("ADJUST", s2c') = InFlight("ADJUST", s2c)
  <2>1. n \in Nat /\ s2c' = Append(s2c, Packet("DATA", n))
    BY <1>2, ChannelAssumption DEF ServerSends, SReply, ChannelAssumption
  <2>2. /\ InFlight("DATA", s2c') = InFlight("DATA", s2c) + n
        /\ InFlight("ADJUST", s2c') = InFlight("ADJUST", s2c) + 0
    BY <2>1, Flight_Reply DEF ServerTypes
  <2> QED
    BY <1>0, <2>2
<1>3. ASSUME ServerCloses, NEW type \in {"DATA", "ADJUST"}
      PROVE  InFlight(type, s2c') = InFlight(type, s2c)
  <2> DEFINE e == Packet("EOF", 0)
             c == Packet("CLOSE", 0)
             q == Append(s2c, e)
  <2>1. /\ e \in SPacket /\ c \in SPacket /\ s2c \in Seq(SPacket)
        /\ e.type = "EOF" /\ c.type = "CLOSE"
    BY Packet_Types DEF ServerTypes, NetInv, SPacket
  <2>2. s2c' \in {Append(s2c, c), Append(q, c)}
    BY <1>3, Closes_Effect
  <2> HIDE DEF e, c
  <2>3. q \in Seq(SPacket)
    BY <2>1, AppendProperties
  <2>4. InFlight(type, s2c) \in Nat
    BY <1>0
  <2>5. Adds(type, e) = 0 /\ Adds(type, c) = 0
    BY <2>1 DEF Adds
  <2>6. InFlight(type, q) = InFlight(type, s2c) + Adds(type, e)
    BY <2>1, InFlight_Append DEF SPacket
  <2>7. InFlight(type, Append(s2c, c)) = InFlight(type, s2c) + Adds(type, c)
    BY <2>1, InFlight_Append DEF SPacket
  <2> HIDE DEF q
  <2>8. InFlight(type, Append(q, c)) = InFlight(type, q) + Adds(type, c)
    BY <2>1, <2>3, InFlight_Append DEF SPacket
  <2> DEFINE a == Append(s2c, c)
             b == Append(q, c)
  <2>9. /\ s2c' \in {a, b} /\ InFlight(type, a) = InFlight(type, s2c) + 0
        /\ InFlight(type, b) = InFlight(type, s2c) + 0 + 0
    BY <2>2, <2>5, <2>6, <2>7, <2>8
  <2> HIDE DEF a, b
  <2> QED
    BY <2>4, <2>9
<1> QED
  BY <1>1, <1>2, <1>3

\* The client ends the channel.
LEMMA Flight_Ends ==
  ASSUME NetInv, ssh_channel_close \/ ssh_channel_send_eof,
         NEW type \in {"DATA", "ADJUST"}
  PROVE  InFlight(type, c2s') = InFlight(type, c2s)
<1> DEFINE e == Packet("EOF", 0)
           c == Packet("CLOSE", 0)
           q == Append(c2s, e)
<1>1. /\ e \in CPacket /\ c \in CPacket /\ c2s \in Seq(CPacket)
      /\ e.type = "EOF" /\ c.type = "CLOSE"
  BY Packet_Types DEF ClientTypes, NetInv, CPacket
<1>2. c2s' \in {c2s, q, Append(c2s, c), Append(q, c)}
  BY Ends_Effect DEF ssh_channel_send_eof, Send, Sent
<1> HIDE DEF e, c
<1>3. q \in Seq(CPacket)
  BY <1>1, AppendProperties
<1>4. InFlight(type, c2s) \in Nat
  BY Flight_Type
<1>5. Adds(type, e) = 0 /\ Adds(type, c) = 0
  BY <1>1 DEF Adds
<1>6. InFlight(type, q) = InFlight(type, c2s) + Adds(type, e)
  BY <1>1, InFlight_Append DEF CPacket
<1>7. InFlight(type, Append(c2s, c)) = InFlight(type, c2s) + Adds(type, c)
  BY <1>1, InFlight_Append DEF CPacket
<1> HIDE DEF q
<1>8. InFlight(type, Append(q, c)) = InFlight(type, q) + Adds(type, c)
  BY <1>1, <1>3, InFlight_Append DEF CPacket
<1> DEFINE a == Append(c2s, c)
           b == Append(q, c)
<1>9. /\ c2s' \in {c2s, q, a, b} /\ InFlight(type, q) = InFlight(type, c2s) + 0
      /\ InFlight(type, a) = InFlight(type, c2s) + 0
      /\ InFlight(type, b) = InFlight(type, c2s) + 0 + 0
  BY <1>2, <1>5, <1>6, <1>7, <1>8
<1> HIDE DEF a, b
<1> QED
  BY <1>4, <1>9

\* The client opens and requests, which moves no data, and writes.
LEMMA Flight_Call ==
  ASSUME TypeOK, NetInv
  PROVE  /\ channel_open \/ channel_request =>
              \A type \in {"DATA", "ADJUST"} :
                  InFlight(type, c2s') = InFlight(type, c2s)
         /\ channel_write =>
              /\ InFlight("ADJUST", c2s') = InFlight("ADJUST", c2s)
              /\ session = "ok" => InFlight("DATA", c2s')
                                     = InFlight("DATA", c2s) + write_length
              /\ session # "ok" => InFlight("DATA", c2s')
                                     = InFlight("DATA", c2s)
<1>0. InFlight("DATA", c2s) \in Nat /\ InFlight("ADJUST", c2s) \in Nat
  BY Flight_Type
<1>1. ASSUME channel_open \/ channel_request,
             NEW type \in {"DATA", "ADJUST"}
      PROVE  InFlight(type, c2s') = InFlight(type, c2s)
  <2>1. \/ UNCHANGED c2s
        \/ \E t \in {"OPEN", "REQUEST"}, n \in Nat :
               c2s' = Append(c2s, Packet(t, n))
    BY <1>1, ChannelAssumption
    DEF channel_open, channel_request, Send, Sent, ChannelAssumption
  <2>2. ASSUME NEW t \in {"OPEN", "REQUEST"}, NEW n \in Nat
        PROVE  InFlight(type, Append(c2s, Packet(t, n)))
                 = InFlight(type, c2s)
    <3>1. t \in ClientTypes /\ t # type
      BY DEF ClientTypes
    <3> QED
      BY <1>0, <3>1, Flight_Send
  <2>3. CASE UNCHANGED c2s
    BY <2>3
  <2>4. ASSUME NEW t \in {"OPEN", "REQUEST"}, NEW n \in Nat,
               c2s' = Append(c2s, Packet(t, n))
        PROVE  InFlight(type, c2s') = InFlight(type, c2s)
    <3> DEFINE q == Append(c2s, Packet(t, n))
    <3>1. InFlight(type, q) = InFlight(type, c2s) /\ c2s' = q
      BY <2>2, <2>4
    <3> HIDE DEF q
    <3> QED
      BY <3>1
  <2> QED
    BY <2>1, <2>3, <2>4
<1>2. ASSUME channel_write
      PROVE  /\ InFlight("ADJUST", c2s') = InFlight("ADJUST", c2s)
             /\ session = "ok" => InFlight("DATA", c2s')
                                    = InFlight("DATA", c2s) + write_length
             /\ session # "ok" => InFlight("DATA", c2s')
                                    = InFlight("DATA", c2s)
  <2>1. write_length \in Nat
    BY <1>2, Write_Length
  <2> DEFINE q == Append(c2s, Packet("DATA", write_length))
  <2>2. c2s' = IF session = "ok" THEN q ELSE c2s
    BY <1>2 DEF channel_write, Send, Sent
  <2>3. /\ InFlight("DATA", q) = InFlight("DATA", c2s) + write_length
        /\ InFlight("ADJUST", q) = InFlight("ADJUST", c2s) + 0
    BY <2>1, Flight_Send DEF ClientTypes
  <2> HIDE DEF q
  <2> QED
    BY <1>0, <2>2, <2>3
<1> QED
  BY <1>1, <1>2

-----------------------------------------------------------------------------
(* Requests and answers *)

\* What a count that does not exceed the length of a request wraps to.
LEMMA Wraps ==
  ASSUME NEW a \in Nat
  PROVE  /\ a % RequestLength \in Nat
         /\ a < RequestLength => a % RequestLength = a
         /\ a = RequestLength => a % RequestLength = 0
<1>1. RequestLength \in Nat /\ RequestLength > 0
  BY ChannelAssumption DEF ChannelAssumption
<1> QED
  BY <1>1

\* The counters of the model are natural numbers.
LEMMA Counters ==
  ASSUME TypeOK, NetInv
  PROVE  /\ s_got \in Nat /\ s_owe \in Nat /\ len \in Nat /\ rest \in Nat
         /\ buffered \in Nat /\ count \in Nat /\ local_window \in Nat
         /\ remote_window \in Nat /\ s_window \in Nat /\ s_remote \in Nat
         /\ InFlight("DATA", c2s) \in Nat /\ InFlight("DATA", s2c) \in Nat
         /\ InFlight("ADJUST", c2s) \in Nat /\ InFlight("ADJUST", s2c) \in Nat
         /\ RequestLength \in Nat /\ RequestLength > 0
BY Flight_Type, ChannelAssumption DEF TypeOK, ChannelAssumption

\* Every step keeps FlowInv.
LEMMA FlowInv_Step ==
  ASSUME TypeOK, NetInv, PcInv, FlowInv, Next
  PROVE  FlowInv'
<1> DEFINE D == InFlight("DATA", c2s)
           E == InFlight("DATA", s2c)
<1>0. /\ s_got \in Nat /\ s_owe \in Nat /\ len \in Nat /\ rest \in Nat
      /\ buffered \in Nat /\ count \in Nat /\ D \in Nat /\ E \in Nat
      /\ RequestLength \in Nat /\ RequestLength > 0
  BY Counters
<1>f. /\ pc \in {"new", "open", "request", "idle"} =>
             /\ s_got = 0 /\ D = 0 /\ len = 0
             /\ s_owe = 0 /\ E = 0 /\ buffered = 0
      /\ pc \in {"write", "read_begins", "read"} =>
             \/ /\ s_got + D + len <= RequestLength /\ s_got < RequestLength
                /\ s_owe = 0 /\ E = 0 /\ buffered = 0
                /\ pc = "write" /\ len > 0 => ~delayed_close
             \/ /\ s_got = 0 /\ D = 0 /\ len = 0
                /\ s_owe + E + buffered <= rest
  BY DEF FlowInv, Quiet, Asking, Answering
<1> DEFINE Goal ==
        /\ pc' \in {"new", "open", "request", "idle"} =>
             /\ s_got' = 0 /\ D' = 0 /\ len' = 0
             /\ s_owe' = 0 /\ E' = 0 /\ buffered' = 0
        /\ pc' \in {"write", "read_begins", "read"} =>
             \/ /\ s_got' + D' + len' <= RequestLength
                /\ s_got' < RequestLength
                /\ s_owe' = 0 /\ E' = 0 /\ buffered' = 0
                /\ pc' = "write" /\ len' > 0 => ~delayed_close'
             \/ /\ s_got' = 0 /\ D' = 0 /\ len' = 0
                /\ s_owe' + E' + buffered' <= rest'
<1>s. Goal <=> FlowInv'
  BY DEF FlowInv, Quiet, Asking, Answering
<1>1. ASSUME ssh_handle_packets
      PROVE  Goal
  <2>1. PICK n \in Nat, e \in Nat : /\ E' = e /\ E = e + n /\ D' = D
                                    /\ buffered' = buffered + n
    BY <1>1, Flight_Handle
  <2>2. UNCHANGED <<pc, len, rest, s_got, s_owe>>
    BY <1>1 DEF ssh_handle_packets
  <2>3. buffered = 0 => UNCHANGED delayed_close
    BY <1>1
    DEF ssh_handle_packets, ssh_packet_channel_open_conf,
        ssh_packet_channel_open_fail, ssh_packet_channel_success,
        channel_rcv_change_window, channel_rcv_data, channel_rcv_eof,
        channel_rcv_close
  <2> HIDE DEF D, E
  <2>4. CASE pc \in {"new", "open", "request", "idle"}
    <3>1. /\ s_got = 0 /\ D = 0 /\ len = 0
          /\ s_owe = 0 /\ E = 0 /\ buffered = 0
      BY <1>f, <2>4
    <3>2. n = 0 /\ E' = 0
      BY <2>1, <3>1
    <3>3. buffered' = 0
      BY <2>1, <3>1, <3>2
    <3> QED
      BY <2>1, <2>2, <2>4, <3>1, <3>2, <3>3
  <2>5. CASE /\ pc \in {"write", "read_begins", "read"}
             /\ s_got + D + len <= RequestLength /\ s_got < RequestLength
             /\ s_owe = 0 /\ E = 0 /\ buffered = 0
             /\ pc = "write" /\ len > 0 => ~delayed_close
    <3>1. n = 0 /\ E' = 0
      BY <2>1, <2>5
    <3>2. buffered' = 0
      BY <2>1, <2>5, <3>1
    <3>3. pc' = "write" /\ len' > 0 => ~delayed_close'
      BY <2>2, <2>3, <2>5
    <3>4. s_got' + D' + len' <= RequestLength /\ s_got' < RequestLength
      BY <2>1, <2>2, <2>5
    <3> QED
      BY <2>2, <2>5, <3>1, <3>2, <3>3, <3>4
  <2>6. CASE /\ pc \in {"write", "read_begins", "read"}
             /\ s_got = 0 /\ D = 0 /\ len = 0
             /\ s_owe + E + buffered <= rest
    <3>1. s_owe' + E' + buffered' <= rest'
      BY <1>0, <2>1, <2>2, <2>6
    <3> QED
      BY <2>1, <2>2, <2>6, <3>1
  <2> QED
    BY <1>f, <2>2, <2>4, <2>5, <2>6
<1>2. ASSUME channel_open \/ channel_request
      PROVE  Goal
  <2>1. D' = D /\ UNCHANGED <<s2c, s_got, len, s_owe, buffered>>
        /\ pc \in {"new", "open"} /\ pc' \in {"open", "request", "free"}
    BY <1>2, Flight_Call DEF channel_open, channel_request, Runs
  <2>2. E' = E
    BY <2>1
  <2> HIDE DEF D, E
  <2> QED
    BY <1>f, <2>1, <2>2
<1>3. ASSUME channel_request_returns
      PROVE  Goal
  <2>1. UNCHANGED <<c2s, s2c, s_got, len, s_owe, buffered>>
        /\ pc = "request" /\ pc' \in {"idle", "free"}
    BY <1>3 DEF channel_request_returns, Runs
  <2>2. E' = E /\ D' = D
    BY <2>1
  <2> HIDE DEF D, E
  <2> QED
    BY <1>f, <2>1, <2>2
<1>4. ASSUME NEW n \in ReplyLengths, channel_write_begins(n)
      PROVE  FlowInv'
  <2>1. UNCHANGED <<c2s, s2c, s_got, s_owe, buffered, delayed_close>>
        /\ pc = "idle"
        /\ \/ pc' = "free"
           \/ pc' = "write" /\ len' = RequestLength /\ ~delayed_close
    BY <1>4 DEF channel_write_begins, write_refused, Runs
  <2>2. E' = E /\ D' = D
    BY <2>1
  <2>3. /\ s_got = 0 /\ D = 0 /\ s_owe = 0 /\ E = 0 /\ buffered = 0
    BY <1>f, <2>1
  <2>4. CASE pc' = "free"
    BY <2>4 DEF FlowInv
  <2>5. CASE pc' = "write" /\ len' = RequestLength /\ ~delayed_close
    <3>1. Asking'
      <4> HIDE DEF D, E
      <4>1. /\ s_got' + D' + len' <= RequestLength /\ s_got' < RequestLength
            /\ s_owe' = 0 /\ E' = 0 /\ buffered' = 0 /\ ~delayed_close'
        BY <1>0, <2>1, <2>2, <2>3, <2>5
      <4> QED
        BY <4>1 DEF Asking, D, E
    <3> QED
      BY <2>5, <3>1 DEF FlowInv
  <2> QED
    BY <2>1, <2>4, <2>5
<1>5. ASSUME channel_write
      PROVE  Goal
  <2>1. /\ pc = "write" /\ len > 0 /\ UNCHANGED <<pc, s2c, s_got, s_owe,
                                                  buffered, delayed_close>>
        /\ len' = len - write_length
    BY <1>5 DEF channel_write, Runs
  <2>2. write_length \in 1..len
    BY <1>5, Write_Length
  <2>3. D' = D \/ D' = D + write_length
    BY <1>5, Flight_Call
  <2>4. E' = E
    BY <2>1
  <2> HIDE DEF D, E
  <2>5. /\ s_got + D + len <= RequestLength /\ s_got < RequestLength
        /\ s_owe = 0 /\ E = 0 /\ buffered = 0 /\ ~delayed_close
    BY <1>0, <1>f, <2>1
  <2> QED
    BY <1>0, <2>1, <2>2, <2>3, <2>4, <2>5
<1>6. ASSUME channel_write_returns
      PROVE  Goal
  <2>1. /\ pc = "write" /\ pc' = "read_begins" /\ len' = 0
        /\ UNCHANGED <<c2s, s2c, s_got, s_owe, rest, buffered>>
    BY <1>6 DEF channel_write_returns, Runs
  <2>2. E' = E /\ D' = D
    BY <2>1
  <2> HIDE DEF D, E
  <2> QED
    BY <1>0, <1>f, <2>1, <2>2
<1>7. ASSUME NEW n \in 1..rest, channel_read_begins(n)
      PROVE  FlowInv'
  <2>1. /\ pc = "read_begins" /\ pc' = "read"
        /\ UNCHANGED <<s2c, s_got, s_owe, len, rest, buffered>>
    BY <1>7 DEF channel_read_begins, Runs
  <2>2. D' = D
    BY <1>0, <1>7, Read_Begins_Effect, Flight_Regrown DEF TypeOK
  <2>3. E' = E
    BY <2>1
  <2> HIDE DEF D, E
  <2>4. \/ /\ s_got' + D' + len' <= RequestLength
           /\ s_got' < RequestLength
           /\ s_owe' = 0 /\ E' = 0 /\ buffered' = 0
        \/ /\ s_got' = 0 /\ D' = 0 /\ len' = 0
           /\ s_owe' + E' + buffered' <= rest'
    BY <1>f, <2>1, <2>2, <2>3
  <2> QED
    BY <2>1, <2>4 DEF FlowInv, Asking, Answering, D, E
<1>8. ASSUME channel_read
      PROVE  Goal
  <2> DEFINE n == Lesser(count, buffered)
  <2>1. /\ pc = "read" /\ buffered >= 1
        /\ UNCHANGED <<s2c, s_got, s_owe, len>>
        /\ buffered' = buffered - n /\ rest' = rest - n
        /\ pc' = IF rest = n THEN "idle" ELSE "read_begins"
    BY <1>8 DEF channel_read, Runs
  <2>2. D' = D
    BY <1>0, <1>8, Read_Effect, Flight_Regrown DEF TypeOK
  <2>3. E' = E
    BY <2>1
  <2>4. n \in Nat /\ n <= buffered
    BY <1>0 DEF Lesser
  <2> HIDE DEF D, E, n
  <2>5. /\ s_got = 0 /\ D = 0 /\ len = 0 /\ s_owe + E + buffered <= rest
    BY <1>0, <1>f, <2>1
  <2>6. CASE rest = n
    BY <1>0, <2>1, <2>2, <2>3, <2>4, <2>5, <2>6
  <2>7. CASE rest # n
    BY <1>0, <2>1, <2>2, <2>3, <2>4, <2>5, <2>7
  <2> QED
    BY <2>6, <2>7
<1>9. ASSUME \/ channel_read_fails \/ ssh_channel_send_eof
             \/ ssh_channel_close \/ ssh_channel_free \/ ssh_disconnect
      PROVE  Goal
  BY <1>9
  DEF channel_read_fails, ssh_channel_send_eof, ssh_channel_close,
      ssh_channel_free, ssh_disconnect
<1>10. ASSUME ServerReceives
      PROVE  Goal
  <2>1. UNCHANGED <<pc, len, rest, buffered, delayed_close>>
    BY <1>10, Receives
  <2>2. PICK n \in Nat, d \in Nat : /\ D' = d /\ D = d + n /\ E' = E
                                    /\ n = Adds("DATA", Head(c2s))
    BY <1>10, Flight_Receive
  <2>3. CASE Head(c2s).type # "DATA"
    <3>1. n = 0 /\ UNCHANGED <<s_got, s_owe>>
      BY <1>10, <2>2, <2>3 DEF ServerReceives, Adds
    <3> HIDE DEF D, E
    <3>2. D' = D
      BY <1>0, <2>2, <3>1
    <3>3. pc' = "write" /\ len' > 0 /\ ~delayed_close => ~delayed_close'
      BY <2>1
    <3>4. CASE pc \in {"new", "open", "request", "idle"}
      BY <1>f, <2>1, <2>2, <3>1, <3>2, <3>4
    <3>5. CASE pc \in {"write", "read_begins", "read"}
      BY <1>f, <2>1, <2>2, <3>1, <3>2, <3>3, <3>5
    <3> QED
      BY <2>1, <3>4, <3>5
  <2>4. CASE Head(c2s).type = "DATA"
    <3>1. /\ s_got' = (s_got + n) % RequestLength
          /\ s_owe' = IF s_got + n = RequestLength /\ s_state = "running"
                      THEN rest ELSE s_owe
      BY <1>10, <2>2, <2>4 DEF ServerReceives, Adds
    <3> HIDE DEF D, E
    <3>2. /\ s_got + n < RequestLength => s_got' = s_got + n
          /\ s_got + n = RequestLength => s_got' = 0
      BY <1>0, <2>2, <3>1, Wraps
    <3>3. CASE pc \in {"new", "open", "request", "idle"}
      <4>1. /\ s_got = 0 /\ D = 0 /\ len = 0
            /\ s_owe = 0 /\ E = 0 /\ buffered = 0
        BY <1>f, <3>3
      <4>2. n = 0 /\ D' = 0
        BY <2>2, <4>1
      <4>3. s_got' = 0 /\ s_owe' = 0
        <5>1. s_got + n = 0 /\ s_got + n # RequestLength
          BY <1>0, <4>1, <4>2
        <5> QED
          BY <1>0, <3>1, <3>2, <4>1, <5>1
      <4> QED
        BY <2>1, <2>2, <3>3, <4>1, <4>2, <4>3
    <3>4. CASE /\ pc \in {"write", "read_begins", "read"}
               /\ s_got + D + len <= RequestLength /\ s_got < RequestLength
               /\ s_owe = 0 /\ E = 0 /\ buffered = 0
               /\ pc = "write" /\ len > 0 => ~delayed_close
      <4>1. CASE s_got + n = RequestLength
        <5>1. s_got' = 0 /\ D' = 0 /\ len' = 0
          BY <1>0, <2>1, <2>2, <3>2, <3>4, <4>1
        <5>2. s_owe' \in {0, rest}
          BY <3>1, <3>4
        <5>3. s_owe' + E' + buffered' <= rest'
          <6>1. E' = 0 /\ buffered' = 0 /\ rest' = rest
            BY <2>1, <2>2, <3>4
          <6>2. rest + 0 + 0 <= rest /\ 0 + 0 + 0 <= rest
            BY <1>0
          <6> QED
            BY <5>2, <6>1, <6>2
        <5> QED
          BY <2>1, <3>4, <5>1, <5>3
      <4>2. CASE s_got + n # RequestLength
        <5>1. s_got' = s_got + n /\ s_got + n < RequestLength
          BY <1>0, <2>2, <3>2, <3>4, <4>2
        <5>2. s_owe' = 0
          BY <3>1, <3>4, <4>2
        <5>3. s_got' + D' + len' <= RequestLength
          BY <1>0, <2>1, <2>2, <3>4, <5>1
        <5>4. pc' = "write" /\ len' > 0 => ~delayed_close'
          BY <2>1, <3>4
        <5> QED
          BY <2>1, <2>2, <3>4, <5>1, <5>2, <5>3, <5>4
      <4> QED
        BY <4>1, <4>2
    <3>5. CASE /\ pc \in {"write", "read_begins", "read"}
               /\ s_got = 0 /\ D = 0 /\ len = 0
               /\ s_owe + E + buffered <= rest
      <4>1. n = 0 /\ D' = 0
        BY <2>2, <3>5
      <4>2. s_got + n = 0 /\ s_got + n # RequestLength
        BY <1>0, <3>5, <4>1
      <4>3. s_got' = 0 /\ s_owe' = s_owe
        BY <1>0, <3>1, <3>2, <3>5, <4>2
      <4>4. s_owe' + E' + buffered' <= rest'
        BY <2>1, <2>2, <3>5, <4>3
      <4> QED
        BY <2>1, <3>5, <4>1, <4>3, <4>4
    <3> QED
      BY <1>f, <2>1, <3>3, <3>4, <3>5
  <2> QED
    BY <2>3, <2>4
<1>11. ASSUME ServerGrants \/ ServerCloses
      PROVE  Goal
  <2>1. UNCHANGED <<c2s, pc, len, rest, buffered, delayed_close, s_got>>
        /\ s_owe' \in {s_owe, 0}
    BY <1>11 DEF ServerGrants, ServerCloses, ServerOnly
  <2>2. D' = D
    BY <2>1
  <2>3. E' = E
    BY <1>11, Flight_Server
  <2> HIDE DEF D, E
  <2>4. pc' = "write" /\ len' > 0 /\ ~delayed_close => ~delayed_close'
    BY <2>1
  <2>5. CASE pc \in {"new", "open", "request", "idle"}
    BY <1>f, <2>1, <2>2, <2>3, <2>5
  <2>6. CASE /\ pc \in {"write", "read_begins", "read"}
             /\ s_got + D + len <= RequestLength /\ s_got < RequestLength
             /\ s_owe = 0 /\ E = 0 /\ buffered = 0
             /\ pc = "write" /\ len > 0 => ~delayed_close
    BY <2>1, <2>2, <2>3, <2>4, <2>6
  <2>7. CASE /\ pc \in {"write", "read_begins", "read"}
             /\ s_got = 0 /\ D = 0 /\ len = 0
             /\ s_owe + E + buffered <= rest
    <3>1. s_owe' + E' + buffered' <= rest'
      <4>1. s_owe + E + buffered <= rest /\ 0 + E + buffered <= rest
        BY <1>0, <2>7
      <4> QED
        BY <2>1, <2>3, <4>1
    <3> QED
      BY <2>1, <2>2, <2>7, <3>1
  <2> QED
    BY <1>f, <2>1, <2>5, <2>6, <2>7
<1>12. ASSUME NEW n \in 1..MaxPacket, ServerSends(n)
       PROVE  FlowInv'
  <2>1. /\ UNCHANGED <<c2s, pc, len, rest, buffered, delayed_close, s_got>>
        /\ s_owe' = s_owe - n /\ n <= s_owe
    BY <1>0, <1>12 DEF ServerSends, ServerOnly, Lesser, TypeOK
  <2>2. D' = D
    BY <2>1
  <2>3. E' = E + n
    BY <1>12, Flight_Server
  <2>4. n \in Nat /\ n > 0
    BY ChannelAssumption DEF ChannelAssumption
  <2> HIDE DEF D, E
  <2>5. /\ pc \notin {"new", "open", "request", "idle"}
        /\ pc \in {"write", "read_begins", "read"} =>
              /\ s_got' = 0 /\ D' = 0 /\ len' = 0
              /\ s_owe' + E' + buffered' <= rest'
    BY <1>0, <1>f, <2>1, <2>2, <2>3, <2>4
  <2> QED
    BY <2>1, <2>5 DEF FlowInv, Answering, D, E
<1>13. ASSUME ConnectionLost
      PROVE  Goal
  <2>1. /\ c2s' = <<>> /\ s2c' = <<>>
        /\ UNCHANGED <<pc, len, rest, buffered, delayed_close, s_got, s_owe>>
    BY <1>13 DEF ConnectionLost
  <2>2. D' = 0 /\ E' = 0
    BY <2>1, InFlight_Empty
  <2> HIDE DEF D, E
  <2> QED
    BY <1>0, <1>f, <2>1, <2>2
<1>14. ASSUME Done
       PROVE  FlowInv'
  BY <1>14 DEF Done, FlowInv, Quiet, Asking, Answering
<1> HIDE DEF Goal
<1> QED
  BY <1>s, <1>1, <1>2, <1>3, <1>4, <1>5, <1>6, <1>7, <1>8, <1>9, <1>10,
     <1>11, <1>12, <1>13, <1>14
  DEF Next, Call, ServerWorks

-----------------------------------------------------------------------------
(* The windows *)

\* A packet that is handled on an established channel.
LEMMA Established_Handles ==
  ASSUME TypeOK, NetInv, Established, ssh_handle_packets
  PROVE  /\ remote_window' = remote_window + Adds("ADJUST", Head(s2c))
         /\ state' \in {state, "CLOSED"}
<1>1. Head(s2c).type \notin {"OPEN_CONF", "OPEN_FAIL"}
  <2>1. 1 \in DOMAIN s2c /\ Head(s2c) = s2c[1]
    BY Handlers
  <2> QED
    BY <2>1 DEF Established, NoneOf
<1>2. CASE channel_rcv_change_window(Head(s2c))
  BY <1>2 DEF channel_rcv_change_window, Adds
<1>3. CASE /\ Head(s2c).type # "ADJUST" /\ UNCHANGED remote_window
           /\ state' \in {state, "CLOSED"}
  <2>1. remote_window = remote_window + 0
    BY DEF TypeOK
  <2> QED
    BY <1>3, <2>1 DEF Adds
<1> QED
  BY <1>1, <1>2, <1>3
  DEF ssh_handle_packets, ssh_packet_channel_open_conf,
      ssh_packet_channel_open_fail, ssh_packet_channel_success,
      channel_rcv_data, channel_rcv_eof, channel_rcv_close

\* The packet that opens the channel leaves the queues empty.
LEMMA Opening_Handles ==
  ASSUME NetInv, Opening, ssh_handle_packets
  PROVE  /\ c2s' = <<>> /\ s2c' = <<>> /\ local_window' = InitialWindow
         /\ UNCHANGED <<s_window, s_remote>>
         /\ \/ state' = "OPEN_DENIED"
            \/ /\ s_window = ServerWindow /\ s_remote = InitialWindow
               /\ remote_window' = ServerWindow
<1>1. s2c # <<>> /\ s2c' = Tail(s2c) /\ UNCHANGED <<s_window, s_remote>>
  BY Handlers
<1>2. CASE s2c = <<Packet("OPEN_FAIL", 0)>> /\ c2s = <<>>
  <2>1. s2c' = <<>> /\ Head(s2c).type = "OPEN_FAIL"
    BY <1>1, <1>2 DEF Packet
  <2>2. ssh_packet_channel_open_fail(Head(s2c))
    BY <2>1
    DEF ssh_handle_packets, ssh_packet_channel_open_conf,
        ssh_packet_channel_open_fail, ssh_packet_channel_success,
        channel_rcv_change_window, channel_rcv_data, channel_rcv_eof,
        channel_rcv_close
  <2> QED
    BY <1>1, <1>2, <2>1, <2>2 DEF ssh_packet_channel_open_fail, Opening
<1>3. CASE /\ s2c = <<Packet("OPEN_CONF", ServerWindow)>> /\ c2s = <<>>
           /\ s_window = ServerWindow /\ s_remote = InitialWindow
  <2>1. /\ s2c' = <<>> /\ Head(s2c).type = "OPEN_CONF"
        /\ Head(s2c).n = ServerWindow
    BY <1>1, <1>3 DEF Packet
  <2>2. ssh_packet_channel_open_conf(Head(s2c))
    BY <2>1
    DEF ssh_handle_packets, ssh_packet_channel_open_conf,
        ssh_packet_channel_open_fail, ssh_packet_channel_success,
        channel_rcv_change_window, channel_rcv_data, channel_rcv_eof,
        channel_rcv_close
  <2> QED
    BY <1>1, <1>3, <2>1, <2>2 DEF ssh_packet_channel_open_conf, Opening
<1> QED
  BY <1>1, <1>2, <1>3 DEF Opening

\* Every step keeps WindowsAgree.
LEMMA WindowsAgree_Step ==
  ASSUME TypeOK, NetInv, LinkInv, WindowsAgree, Next
  PROVE  WindowsAgree'
<1> DEFINE A == InFlight("ADJUST", c2s)
           B == InFlight("ADJUST", s2c)
           D == InFlight("DATA", c2s)
           E == InFlight("DATA", s2c)
           Live == /\ session = "ok" /\ s_state # "none"
                   /\ state \in {"OPEN", "CLOSED"}
           Agree == /\ local_window = s_remote + A + E
                    /\ s_window = remote_window + B + D
<1>0. /\ local_window \in Nat /\ remote_window \in Nat /\ s_window \in Nat
      /\ s_remote \in Nat /\ A \in Nat /\ B \in Nat /\ D \in Nat /\ E \in Nat
      /\ len \in Nat /\ rest \in Nat
  BY Counters
<1>w. Live => Agree
  BY DEF WindowsAgree
<1>s. SUFFICES ASSUME Live' PROVE Agree'
  BY DEF WindowsAgree
<1>1. CASE ssh_handle_packets
  <2>1. session = "ok" /\ s2c # <<>> /\ s2c' = Tail(s2c)
        /\ UNCHANGED <<s_window, s_remote, s_state>> /\ Head(s2c).n \in Nat
    BY <1>1, Handlers DEF SPacket
  <2>2. CASE Opening
    <3>1. c2s' = <<>> /\ s2c' = <<>>
      BY <1>1, <2>2, Opening_Handles
    <3>2. A' = 0 /\ B' = 0 /\ D' = 0 /\ E' = 0
      BY <3>1, InFlight_Empty
    <3>3. /\ local_window' = InitialWindow /\ s_remote' = InitialWindow
          /\ s_window' = ServerWindow /\ remote_window' = ServerWindow
      BY <1>1, <1>s, <2>2, Opening_Handles
    <3>4. InitialWindow \in Nat /\ ServerWindow \in Nat
      BY ChannelAssumption DEF ChannelAssumption
    <3> HIDE DEF A, B, D, E
    <3> QED
      BY <3>2, <3>3, <3>4
  <2>3. CASE Established
    <3>1. Agree
      BY <1>w, <2>1, <2>3 DEF Established
    <3>2. PICK e \in Nat, m \in Nat :
               /\ E' = e /\ E = e + m /\ m = Adds("DATA", Head(s2c))
      BY <1>1, Flight_Handle
    <3>3. PICK b \in Nat, k \in Nat :
               /\ B' = b /\ B = b + k /\ k = Adds("ADJUST", Head(s2c))
      BY <1>1, Flight_Handle
    <3>4. D' = D /\ A' \in Nat
      <4>1. D' = D
        BY <1>1, Flight_Handle
      <4>2. NetInv'
        BY NetInv_Step
      <4>3. c2s' \in Seq([type : ClientTypes, n : Nat])
        BY <4>2 DEF NetInv
      <4>4. A' \in Nat
        BY <4>3, Bytes_Finite
      <4> QED
        BY <4>1, <4>4
    <3>5. remote_window' = remote_window + k
      BY <1>1, <2>3, <3>3, Established_Handles
    <3>6. s_window' = remote_window' + B' + D'
      <4> HIDE DEF A, B, D, E
      <4> QED
        BY <1>0, <2>1, <3>1, <3>3, <3>4, <3>5
    <3>7. CASE Head(s2c).type = "DATA"
      <4>1. m = Head(s2c).n
        BY <3>2, <3>7 DEF Adds
      <4>2. local_window' + A = Greater(local_window - m, 0) + A'
        BY <1>1, <3>7, <4>1, Flight_Handle
      <4>3. PICK a \in Nat, v \in Nat : a = A' /\ v = local_window'
        BY <1>1, <3>4, Flight_Handle
      <4> HIDE DEF A, B, D, E
      <4>4. Greater(local_window - m, 0) = local_window - m
        BY <1>0, <3>1, <3>2 DEF Greater
      <4>5. v + A = local_window - m + a
        BY <4>2, <4>3, <4>4
      <4>6. v = s_remote + a + e
        BY <1>0, <3>1, <3>2, <4>5
      <4> QED
        BY <2>1, <3>2, <3>6, <4>3, <4>6
    <3>8. CASE Head(s2c).type # "DATA"
      <4>1. m = 0
        BY <3>2, <3>8 DEF Adds
      <4>2. UNCHANGED <<local_window, c2s>>
        BY <1>1, <3>8, Flight_Handle
      <4>3. A' = A
        BY <4>2
      <4> HIDE DEF A, B, D, E
      <4>4. E' = E
        BY <3>2, <4>1
      <4> QED
        BY <2>1, <3>1, <3>6, <4>2, <4>3, <4>4
    <3> QED
      BY <3>7, <3>8
  <2> QED
    BY <2>1, <2>2, <2>3 DEF LinkInv, Unopened, Opened, Requesting
<1>2. CASE channel_open
  BY <1>2, <1>s DEF channel_open
<1>3. CASE channel_request
  <2>1. A' = A /\ D' = D
    BY <1>3, Flight_Call
  <2>2. /\ UNCHANGED <<s2c, session, state, local_window, remote_window>>
        /\ UNCHANGED <<s_window, s_remote, s_state>>
    BY <1>3 DEF channel_request
  <2>3. B' = B /\ E' = E
    BY <2>2
  <2> HIDE DEF A, B, D, E
  <2> QED
    BY <1>w, <1>s, <2>1, <2>2, <2>3
<1>4. CASE \/ channel_request_returns
           \/ \E n \in ReplyLengths : channel_write_begins(n)
           \/ channel_write_returns \/ channel_read_fails
           \/ ssh_channel_free \/ Done
  <2>1. /\ UNCHANGED <<c2s, s2c, session, state, local_window, remote_window>>
        /\ UNCHANGED <<s_window, s_remote, s_state>>
    BY <1>4
    DEF channel_request_returns, channel_write_begins, channel_write_returns,
        channel_read_fails, ssh_channel_free, Done
  <2>2. A' = A /\ B' = B /\ D' = D /\ E' = E
    BY <2>1
  <2> HIDE DEF A, B, D, E
  <2> QED
    BY <1>w, <1>s, <2>1, <2>2
<1>5. CASE channel_write
  <2>1. /\ UNCHANGED <<s2c, session, state, local_window>>
        /\ UNCHANGED <<s_window, s_remote, s_state>>
        /\ remote_window' = remote_window - write_length
    BY <1>5 DEF channel_write
  <2>2. A' = A /\ D' = D + write_length
    BY <1>5, <1>s, <2>1, Flight_Call
  <2>3. B' = B /\ E' = E
    BY <2>1
  <2>4. write_length \in Nat
    BY <1>5, Write_Length
  <2> HIDE DEF A, B, D, E
  <2> QED
    BY <1>0, <1>w, <1>s, <2>1, <2>2, <2>3, <2>4
<1>6. ASSUME NEW n \in Nat, channel_read_begins(n) \/ channel_read
      PROVE  Agree'
  <2>1. /\ UNCHANGED <<s2c, session, state, remote_window>>
        /\ UNCHANGED <<s_window, s_remote, s_state>>
    BY <1>6 DEF channel_read_begins, channel_read
  <2>3. Regrown(local_window)
    BY <1>6, Read_Begins_Effect, Read_Effect
  <2>4. /\ D' = D /\ A' \in Nat /\ local_window' \in Nat
        /\ local_window' + A = local_window + A'
    BY <1>0, <1>s, <2>1, <2>3, Flight_Regrown DEF Regrown
  <2>5. B' = B /\ E' = E
    BY <2>1
  <2>6. PICK a \in Nat, v \in Nat : a = A' /\ v = local_window'
    BY <2>4
  <2> HIDE DEF A, B, D, E
  <2>7. v + A = local_window + a /\ local_window = s_remote + A + E
    BY <1>w, <1>s, <2>1, <2>4, <2>6
  <2>8. v = s_remote + a + E
    BY <1>0, <2>7
  <2> QED
    BY <1>w, <1>s, <2>1, <2>4, <2>5, <2>6, <2>8
<1>7. CASE ssh_channel_send_eof \/ ssh_channel_close
  <2>1. A' = A /\ D' = D
    BY <1>7, Flight_Ends
  <2>2. /\ UNCHANGED <<s2c, session, local_window, remote_window>>
        /\ UNCHANGED <<s_window, s_remote, s_state>>
    BY <1>7 DEF ssh_channel_send_eof, ssh_channel_close
  <2>3. B' = B /\ E' = E
    BY <2>2
  <2>4. Live
    BY <1>7, <1>s, <2>2, Ends_Effect DEF ssh_channel_send_eof
  <2> HIDE DEF A, B, D, E
  <2> QED
    BY <1>w, <2>1, <2>2, <2>3, <2>4
<1>8. CASE ssh_disconnect \/ ConnectionLost
  BY <1>8, <1>s DEF ssh_disconnect, ConnectionLost
<1>9. CASE ServerReceives
  <2>1. UNCHANGED <<session, state, local_window, remote_window>>
    BY <1>9, Receives
  <2>2. PICK a \in Nat, k \in Nat :
             A' = a /\ A = a + k /\ k = Adds("ADJUST", Head(c2s))
    BY <1>9, Flight_Receive
  <2>3. PICK d \in Nat, m \in Nat :
             D' = d /\ D = d + m /\ m = Adds("DATA", Head(c2s))
    BY <1>9, Flight_Receive
  <2>4. B' = B /\ E' = E
    BY <1>9, Flight_Receive
  <2>5. s_state # "none" /\ Head(c2s).type # "OPEN"
    BY <1>9, <1>s, <2>1, Open_Received
    DEF Opening, Requesting, Established, Packet
  <2>6. Agree
    BY <1>w, <1>s, <2>1, <2>5
  <2>7. s_window' = s_window - m /\ s_remote' = s_remote + k
    <3>1. s_window - 0 = s_window /\ s_remote + 0 = s_remote
      BY <1>0
    <3> QED
      BY <1>9, <2>2, <2>3, <2>5, <3>1 DEF ServerReceives, Adds
  <2> HIDE DEF A, B, D, E
  <2> QED
    BY <1>0, <2>1, <2>2, <2>3, <2>4, <2>6, <2>7
<1>10. CASE ServerGrants
  <2>1. /\ UNCHANGED <<c2s, session, state, local_window, remote_window>>
        /\ UNCHANGED <<s_remote, s_state>> /\ s_window' = ServerWindow
    BY <1>10 DEF ServerGrants, ServerOnly
  <2>2. E' = E /\ B' = B + (ServerWindow - s_window)
    BY <1>10, Flight_Server
  <2>3. A' = A /\ D' = D
    BY <2>1
  <2>4. ServerWindow \in Nat
    BY ChannelAssumption DEF ChannelAssumption
  <2> HIDE DEF A, B, D, E
  <2> QED
    BY <1>0, <1>w, <1>s, <2>1, <2>2, <2>3, <2>4
<1>11. ASSUME NEW n \in 1..MaxPacket, ServerSends(n)
       PROVE  Agree'
  <2>1. /\ UNCHANGED <<c2s, session, state, local_window, remote_window>>
        /\ UNCHANGED <<s_window, s_state>> /\ s_remote' = s_remote - n
    BY <1>11 DEF ServerSends, ServerOnly
  <2>2. E' = E + n /\ B' = B
    BY <1>11, Flight_Server
  <2>3. A' = A /\ D' = D
    BY <2>1
  <2>4. n \in Nat
    BY ChannelAssumption DEF ChannelAssumption
  <2> HIDE DEF A, B, D, E
  <2> QED
    BY <1>0, <1>w, <1>s, <2>1, <2>2, <2>3, <2>4
<1>12. CASE ServerCloses
  <2>1. /\ UNCHANGED <<c2s, session, state, local_window, remote_window>>
        /\ UNCHANGED <<s_window, s_remote>> /\ s_state # "none"
    BY <1>12 DEF ServerCloses, ServerOnly
  <2>2. E' = E /\ B' = B
    BY <1>12, Flight_Server
  <2>3. A' = A /\ D' = D
    BY <2>1
  <2> HIDE DEF A, B, D, E
  <2> QED
    BY <1>w, <1>s, <2>1, <2>2, <2>3
<1>r. /\ channel_read => \E n \in Nat : channel_read_begins(n) \/ channel_read
      /\ \A n \in 1..rest : n \in Nat
  BY <1>0
<1> HIDE DEF Agree
<1> QED
  BY <1>1, <1>2, <1>3, <1>4, <1>5, <1>6, <1>7, <1>8, <1>9, <1>10, <1>11,
     <1>12, <1>r
  DEF Next, Call, ServerWorks

-----------------------------------------------------------------------------
(* Types *)

\* Every step keeps the states and the flags of TypeOK.
LEMMA States_Step ==
  ASSUME TypeOK, Next
  PROVE  /\ state' \in {"NOT_OPEN", "OPENING", "OPEN", "CLOSED",
                        "OPEN_DENIED"}
         /\ request_state' \in {"NONE", "PENDING", "ACCEPTED", "DENIED"}
         /\ session' \in {"ok", "error", "disconnected"}
         /\ flags' \subseteq {"NOT_BOUND", "CLOSED_REMOTE", "CLOSED_LOCAL",
                              "FREED_LOCAL"}
         /\ s_seen' \in {"none", "eof", "close"}
<1> USE DEF TypeOK
<1>1. CASE ssh_handle_packets
  BY <1>1
  DEF ssh_handle_packets, ssh_packet_channel_open_conf,
      ssh_packet_channel_open_fail, ssh_packet_channel_success,
      channel_rcv_change_window, channel_rcv_data, channel_rcv_eof,
      channel_rcv_close
<1>2. CASE Call
  <2>1. CASE \/ channel_open \/ channel_request \/ channel_request_returns
             \/ \E n \in ReplyLengths : channel_write_begins(n)
             \/ channel_write \/ channel_write_returns
    BY <2>1
    DEF channel_open, channel_request, channel_request_returns,
        channel_write_begins, channel_write, channel_write_returns
  <2>2. CASE \/ \E n \in 1..rest : channel_read_begins(n)
             \/ channel_read_fails \/ channel_read
    BY <2>2 DEF channel_read_begins, channel_read_fails, channel_read
  <2>3. CASE \/ ssh_channel_send_eof \/ ssh_channel_close
             \/ ssh_channel_free \/ ssh_disconnect
    BY <2>3
    DEF ssh_channel_send_eof, ssh_channel_close, ssh_channel_free,
        ssh_disconnect
  <2> QED
    BY <1>2, <2>1, <2>2, <2>3 DEF Call
<1>3. CASE ServerReceives
  BY <1>3 DEF ServerReceives
<1>4. CASE \/ ServerGrants \/ \E n \in 1..MaxPacket : ServerSends(n)
           \/ ServerCloses \/ ConnectionLost \/ Done
  BY <1>4
  DEF ServerGrants, ServerSends, ServerCloses, ServerOnly, ConnectionLost,
      Done
<1> QED
  BY <1>1, <1>2, <1>3, <1>4 DEF Next, ServerWorks

\* The current read of the socket has no more packets than are queued.
LEMMA Burst_Step ==
  ASSUME TypeOK, NetInv, Next
  PROVE  burst' \in 0..Len(s2c')
<1>0. Len(s2c) \in Nat /\ burst \in 0..Len(s2c) /\ s2c \in Seq(SPacket)
  BY LenProperties DEF NetInv, SPacket, TypeOK
<1>1. CASE ssh_handle_packets
  <2>1. Len(s2c') = Len(s2c) - 1 /\ Len(s2c) # 0
    BY <1>1, Handlers
  <2>2. (burst' = burst - 1 /\ burst > 0) \/ burst' \in 0..Len(s2c) - 1
    BY <1>1 DEF ssh_handle_packets
  <2> QED
    BY <1>0, <2>1, <2>2
<1>2. CASE UNCHANGED <<burst, s2c>>
  BY <1>0, <1>2
<1>3. CASE burst' = 0 /\ s2c' = <<>>
  <2>1. Len(<<>>) = 0
    OBVIOUS
  <2> QED
    BY <1>3, <2>1
<1>4. ASSUME UNCHANGED burst, NEW q \in Seq(SPacket), NEW p \in SPacket,
             s2c' = Append(q, p), Len(q) >= Len(s2c)
      PROVE  burst' \in 0..Len(s2c')
  <2> DEFINE r == Append(q, p)
  <2>1. Len(r) = Len(q) + 1 /\ s2c' = r /\ Len(q) \in Nat
    BY <1>4, Appended
  <2> HIDE DEF r
  <2> QED
    BY <1>0, <1>4, <2>1
<1>5. ASSUME UNCHANGED burst, NEW t \in ServerTypes, NEW n \in Nat,
             SReply(Packet(t, n))
      PROVE  burst' \in 0..Len(s2c')
  <2>1. Packet(t, n) \in SPacket
    BY Packet_Types
  <2>2. s2c' = Append(s2c, Packet(t, n)) /\ Len(s2c) >= Len(s2c)
    BY <1>0, <1>5 DEF SReply
  <2> QED
    BY <1>0, <1>4, <1>5, <2>1, <2>2
<1>6. CASE ServerReceives
  <2>1. UNCHANGED burst
    BY <1>6, Receives
  <2>2. \/ UNCHANGED s2c
        \/ \E t \in ServerTypes, n \in Nat : SReply(Packet(t, n))
    BY <1>6, ChannelAssumption
    DEF ServerReceives, ServerTypes, ChannelAssumption
  <2> QED
    BY <1>2, <1>5, <2>1, <2>2
<1>7. CASE ServerGrants \/ \E n \in 1..MaxPacket : ServerSends(n)
  <2>1. UNCHANGED burst
    BY <1>7 DEF ServerGrants, ServerSends, ServerOnly
  <2>2. \E t \in ServerTypes, n \in Nat : SReply(Packet(t, n))
    <3>1. CASE ServerGrants
      <4>1. ServerWindow - s_window \in Nat
        BY <3>1, ChannelAssumption DEF ServerGrants, TypeOK, ChannelAssumption
      <4> QED
        BY <3>1, <4>1 DEF ServerGrants, ServerTypes
    <3>2. CASE \E n \in 1..MaxPacket : ServerSends(n)
      BY <3>2, ChannelAssumption DEF ServerSends, ServerTypes, ChannelAssumption
    <3> QED
      BY <1>7, <3>1, <3>2
  <2> QED
    BY <1>5, <2>1, <2>2
<1>8. CASE ServerCloses
  <2> DEFINE e == Packet("EOF", 0)
             c == Packet("CLOSE", 0)
             q == Append(s2c, e)
  <2>1. UNCHANGED burst /\ s2c' \in {Append(s2c, c), Append(q, c)}
    BY <1>8, Closes_Effect DEF ServerCloses, ServerOnly
  <2>2. e \in SPacket /\ c \in SPacket
    BY Packet_Types DEF ServerTypes
  <2> HIDE DEF e, c
  <2>3. q \in Seq(SPacket) /\ Len(q) = Len(s2c) + 1
    BY <1>0, <2>2, Appended
  <2> HIDE DEF q
  <2>4. Len(q) >= Len(s2c) /\ Len(s2c) >= Len(s2c)
    BY <1>0, <2>3
  <2>5. CASE s2c' = Append(s2c, c)
    BY <1>0, <1>4, <2>1, <2>2, <2>4, <2>5
  <2>6. CASE s2c' = Append(q, c)
    BY <1>4, <2>1, <2>2, <2>3, <2>4, <2>6
  <2> QED
    BY <2>1, <2>5, <2>6
<1>9. CASE Call
  <2>1. CASE ssh_disconnect
    BY <1>3, <2>1 DEF ssh_disconnect, Runs
  <2>2. CASE ~ssh_disconnect
    <3>1. UNCHANGED <<burst, s2c>>
      BY <1>9, <2>2
      DEF Call, channel_open, channel_request, channel_request_returns,
          channel_write_begins, channel_write, channel_write_returns,
          channel_read_begins, channel_read_fails, channel_read,
          ssh_channel_send_eof, ssh_channel_close, ssh_channel_free
    <3> QED
      BY <1>2, <3>1
  <2> QED
    BY <2>1, <2>2
<1>10. CASE ConnectionLost
  BY <1>3, <1>10 DEF ConnectionLost
<1>11. CASE Done
  BY <1>2, <1>11 DEF Done
<1> QED
  BY <1>1, <1>6, <1>7, <1>8, <1>9, <1>10, <1>11 DEF Next, ServerWorks

\* Every step keeps the counters natural numbers: no more is taken from a
\* window or from an answer than is there.
LEMMA Counters_Step ==
  ASSUME TypeOK, NetInv, LinkInv, FlowInv, WindowsAgree, Next
  PROVE  /\ local_window' \in Nat /\ remote_window' \in Nat
         /\ buffered' \in Nat /\ len' \in Nat /\ rest' \in Nat
         /\ count' \in Nat /\ s_window' \in Nat /\ s_remote' \in Nat
         /\ s_got' \in Nat /\ s_owe' \in Nat
<1>0. /\ s_got \in Nat /\ s_owe \in Nat /\ len \in Nat /\ rest \in Nat
      /\ buffered \in Nat /\ count \in Nat /\ local_window \in Nat
      /\ remote_window \in Nat /\ s_window \in Nat /\ s_remote \in Nat
  BY Counters
<1>c. /\ InitialWindow \in Nat /\ ServerWindow \in Nat
      /\ RequestLength \in Nat /\ \A n \in ReplyLengths : n \in Nat
      /\ \A n \in 1..MaxPacket : n \in Nat
      /\ \A n \in 1..rest : n \in Nat
  BY <1>0, ChannelAssumption DEF ChannelAssumption
<1>1. CASE ssh_handle_packets
  <2>1. Head(s2c).n \in Nat
    BY <1>1, Handlers DEF SPacket
  <2>2. local_window' \in Nat
    BY <1>1, Flight_Handle
  <2>3. buffered' \in Nat
    BY <1>0, <1>1, Flight_Handle
  <2>4. remote_window' \in {remote_window, Head(s2c).n,
                            remote_window + Head(s2c).n}
    BY <1>1
    DEF ssh_handle_packets, ssh_packet_channel_open_conf,
        ssh_packet_channel_open_fail, ssh_packet_channel_success,
        channel_rcv_change_window, channel_rcv_data, channel_rcv_eof,
        channel_rcv_close
  <2>5. remote_window' \in Nat
    BY <1>0, <2>1, <2>4
  <2>6. UNCHANGED <<len, rest, count, s_window, s_remote, s_got, s_owe>>
    BY <1>1 DEF ssh_handle_packets
  <2> QED
    BY <1>0, <2>2, <2>3, <2>5, <2>6
<1>2. CASE channel_open \/ channel_request \/ channel_request_returns
  BY <1>0, <1>c, <1>2
  DEF channel_open, channel_request, channel_request_returns
<1>3. CASE (\E n \in ReplyLengths : channel_write_begins(n))
             \/ channel_write_returns
  BY <1>0, <1>c, <1>3 DEF channel_write_begins, channel_write_returns
<1>4. CASE channel_write
  <2>1. write_length \in 1..len /\ write_length <= remote_window
        /\ write_length \in Nat
    BY <1>4, Write_Length
  <2>2. /\ remote_window' = remote_window - write_length
        /\ len' = len - write_length
        /\ UNCHANGED <<local_window, buffered, rest, count>>
        /\ UNCHANGED <<s_window, s_remote, s_got, s_owe>>
    BY <1>4 DEF channel_write
  <2> HIDE DEF write_length
  <2> QED
    BY <1>0, <2>1, <2>2
<1>5. ASSUME NEW n \in 1..rest, channel_read_begins(n)
      PROVE  /\ local_window' \in Nat /\ count' \in Nat
             /\ UNCHANGED <<remote_window, buffered, len, rest>>
             /\ UNCHANGED <<s_window, s_remote, s_got, s_owe>>
  <2>1. n \in Nat
    BY <1>c
  <2>2. local_window' \in Nat
    BY <1>5, <2>1, Read_Begins_Effect DEF Regrown
  <2> QED
    BY <1>5, <2>1, <2>2 DEF channel_read_begins
<1>6. CASE channel_read
  <2> DEFINE n == Lesser(count, buffered)
  <2>1. n \in Nat /\ n <= buffered
    BY <1>0 DEF Lesser
  <2>2. buffered <= rest
    <3> DEFINE E == InFlight("DATA", s2c)
    <3>1. E \in Nat
      BY Counters
    <3>2. s_owe + E + buffered <= rest \/ buffered = 0
      BY <1>6 DEF channel_read, Runs, FlowInv, Asking, Answering
    <3> HIDE DEF E
    <3> QED
      BY <1>0, <3>1, <3>2
  <2>3. local_window' \in Nat
    BY <1>6, Read_Effect DEF Regrown
  <2>4. /\ buffered' = buffered - n /\ rest' = rest - n /\ count' = 0
        /\ UNCHANGED <<remote_window, len>>
        /\ UNCHANGED <<s_window, s_remote, s_got, s_owe>>
    BY <1>6 DEF channel_read
  <2> HIDE DEF n
  <2> QED
    BY <1>0, <2>1, <2>2, <2>3, <2>4
<1>7. CASE \/ channel_read_fails \/ ssh_channel_send_eof \/ ssh_channel_close
           \/ ssh_channel_free \/ ssh_disconnect \/ ConnectionLost \/ Done
  BY <1>0, <1>7
  DEF channel_read_fails, ssh_channel_send_eof, ssh_channel_close,
      ssh_channel_free, ssh_disconnect, ConnectionLost, Done
<1>8. CASE ServerReceives
  <2> DEFINE n == Head(c2s).n
  <2>1. /\ n \in Nat
        /\ UNCHANGED <<local_window, remote_window, buffered, len, rest>>
        /\ UNCHANGED count
    BY <1>8, Receives DEF CPacket
  <2>2. CASE Head(c2s).type = "DATA"
    <3>1. /\ s_window' = s_window - n /\ s_remote' = s_remote
          /\ s_got' = (s_got + n) % RequestLength
          /\ s_owe' \in {rest, s_owe}
      BY <1>8, <2>2 DEF ServerReceives
    <3>2. session = "ok" /\ Established
      BY <1>8, <2>2, Open_Received, Receives DEF Packet
    <3> DEFINE D == InFlight("DATA", c2s)
               B == InFlight("ADJUST", s2c)
    <3>3. s_window = remote_window + B + D
      BY <3>2 DEF WindowsAgree, Established
    <3>4. PICK d \in Nat : D = d + n
      BY <1>8, <2>2, Flight_Receive DEF Adds
    <3>5. B \in Nat
      BY Counters
    <3> HIDE DEF B, D, n
    <3>6. s_window - n \in Nat
      BY <1>0, <2>1, <3>3, <3>4, <3>5
    <3>7. s_got + n \in Nat
      BY <1>0, <2>1
    <3>8. (s_got + n) % RequestLength \in Nat
      BY <3>7, Wraps
    <3> QED
      BY <1>0, <2>1, <3>1, <3>6, <3>8
  <2>3. CASE Head(c2s).type # "DATA"
    <3>1. /\ s_window' \in {s_window, ServerWindow}
          /\ s_remote' \in {s_remote, n, s_remote + n}
          /\ UNCHANGED <<s_got, s_owe>>
      BY <1>8, <2>3 DEF ServerReceives
    <3> HIDE DEF n
    <3>2. s_remote' \in Nat
      BY <1>0, <2>1, <3>1
    <3> QED
      BY <1>0, <1>c, <2>1, <3>1, <3>2
  <2> QED
    BY <2>2, <2>3
<1>9. CASE ServerGrants \/ ServerCloses
  <2>1. /\ UNCHANGED <<local_window, remote_window, buffered, len, rest>>
        /\ UNCHANGED <<count, s_remote, s_got>>
        /\ s_window' \in {s_window, ServerWindow} /\ s_owe' \in {s_owe, 0}
    BY <1>9 DEF ServerGrants, ServerCloses, ServerOnly
  <2> QED
    BY <1>0, <1>c, <2>1
<1>10. ASSUME NEW n \in 1..MaxPacket, ServerSends(n)
       PROVE  /\ s_owe' \in Nat /\ s_remote' \in Nat
              /\ UNCHANGED <<local_window, remote_window, buffered, len>>
              /\ UNCHANGED <<rest, count, s_window, s_got>>
  BY <1>0, <1>c, <1>10 DEF ServerSends, ServerOnly, Lesser
<1>11. CASE \E n \in 1..rest : channel_read_begins(n)
  BY <1>0, <1>5, <1>11
<1>12. CASE \E n \in 1..MaxPacket : ServerSends(n)
  BY <1>0, <1>10, <1>12
<1> QED
  BY <1>1, <1>2, <1>3, <1>4, <1>6, <1>7, <1>8, <1>9, <1>11, <1>12
  DEF Next, Call, ServerWorks

\* Every step keeps TypeOK.
LEMMA TypeOK_Step ==
  ASSUME TypeOK, NetInv, LinkInv, FlowInv, WindowsAgree, Next
  PROVE  TypeOK'
<1>1. /\ {local_window', remote_window', buffered', len', rest', count'}
           \subseteq Nat
      /\ {s_window', s_remote', s_got', s_owe'} \subseteq Nat
  BY Counters_Step
<1> QED
  BY <1>1, States_Step, Burst_Step DEF TypeOK

-----------------------------------------------------------------------------
(* The theorems *)

\* The first state satisfies the invariant.
LEMMA ChannelInv_Init ==
  ASSUME Init
  PROVE  ChannelInv
<1> USE DEF Init
<1>1. InFlight("DATA", <<>>) = 0 /\ InFlight("ADJUST", <<>>) = 0
  BY InFlight_Empty
<1>2. Len(<<>>) = 0 /\ DOMAIN c2s = {} /\ DOMAIN s2c = {}
  OBVIOUS
<1>3. TypeOK
  BY <1>2 DEF TypeOK
<1>4. NetInv
  BY EmptySeq DEF NetInv
<1>5. PcInv /\ FreeInv
  BY DEF PcInv, FreeInv, FreedOnce
<1>6. LinkInv
  BY DEF LinkInv, Unopened
<1>7. CloseInv
  BY <1>2 DEF CloseInv
<1>8. EndInv
  BY <1>2 DEF EndInv, NoneOf
<1>9. OrderInv
  BY <1>2 DEF OrderInv
<1>10. FlowInv
  BY <1>1 DEF FlowInv, Quiet
<1>11. WindowsAgree
  BY DEF WindowsAgree
<1> QED
  BY <1>3, <1>4, <1>5, <1>6, <1>7, <1>8, <1>9, <1>10, <1>11 DEF ChannelInv

\* A step that changes nothing keeps the invariant.
LEMMA ChannelInv_Stutter ==
  ASSUME ChannelInv, UNCHANGED vars
  PROVE  ChannelInv'
<1>1. TypeOK' /\ NetInv' /\ PcInv' /\ FreeInv'
  BY DEF ChannelInv, TypeOK, NetInv, PcInv, FreeInv, FreedOnce
<1>2. LinkInv'
  BY DEF ChannelInv, LinkInv, Unopened, Opening, Opened, Requesting,
         Established, NoneOf
<1>3. CloseInv' /\ EndInv'
  BY DEF ChannelInv, CloseInv, EndInv, NoneOf
<1>4. OrderInv'
  BY DEF ChannelInv, OrderInv
<1>5. FlowInv' /\ WindowsAgree'
  BY DEF ChannelInv, FlowInv, Quiet, Asking, Answering, WindowsAgree
<1> QED
  BY <1>1, <1>2, <1>3, <1>4, <1>5 DEF ChannelInv

\* Every step keeps the invariant.
LEMMA ChannelInv_Step ==
  ASSUME ChannelInv, [Next]_vars
  PROVE  ChannelInv'
<1>1. CASE Next
  <2>1. /\ TypeOK /\ NetInv /\ PcInv /\ FreeInv /\ LinkInv /\ CloseInv
        /\ EndInv /\ OrderInv /\ FlowInv /\ WindowsAgree
    BY DEF ChannelInv
  <2>2. TypeOK'
    BY <1>1, <2>1, TypeOK_Step
  <2>3. NetInv'
    BY <1>1, <2>1, NetInv_Step
  <2>4. PcInv'
    BY <1>1, <2>1, PcInv_Step
  <2>5. FreeInv'
    BY <1>1, <2>1, FreeInv_Step
  <2>6. LinkInv'
    BY <1>1, <2>1, LinkInv_Step
  <2>7. CloseInv'
    BY <1>1, <2>1, CloseInv_Step
  <2>8. EndInv'
    BY <1>1, <2>1, EndInv_Step
  <2>9. OrderInv'
    BY <1>1, <2>1, OrderInv_Step
  <2>10. FlowInv'
    BY <1>1, <2>1, FlowInv_Step
  <2>11. WindowsAgree'
    BY <1>1, <2>1, WindowsAgree_Step
  <2> QED
    BY <2>2, <2>3, <2>4, <2>5, <2>6, <2>7, <2>8, <2>9, <2>10, <2>11
    DEF ChannelInv
<1>2. CASE UNCHANGED vars
  BY <1>2, ChannelInv_Stutter
<1> QED
  BY <1>1, <1>2

(***************************************************************************)
(* The invariant behind the theorems below: what the queues hold in each   *)
(* phase of the channel's life, who has ended what, and how the bytes of a *)
(* request and of its answer are divided between the two sides and the     *)
(* network.                                                                *)
(***************************************************************************)
THEOREM ChannelInvariance == Spec => []ChannelInv
<1>1. Init => ChannelInv
  BY ChannelInv_Init
<1>2. ChannelInv /\ [Next]_vars => ChannelInv'
  BY ChannelInv_Step
<1> QED
  BY <1>1, <1>2, PTL DEF Spec

\* The counters never become negative: no window and no answer is
\* overdrawn, although channels.c subtracts without a test in most places.
THEOREM ChannelTypes == Spec => []TypeOK
<1>1. ChannelInv => TypeOK
  BY DEF ChannelInv
<1> QED
  BY <1>1, ChannelInvariance, PTL

\* Both sides agree on both windows, whatever the sizes: ssh_channel_read,
\* grow_window and channel_rcv_data neither lose nor repeat a grant.
THEOREM WindowAgreement == Spec => []WindowsAgree
<1>1. ChannelInv => WindowsAgree
  BY DEF ChannelInv
<1> QED
  BY <1>1, ChannelInvariance, PTL

\* Nothing of an answer is left over for the next call of sftp_packet_read,
\* and no close is delayed while ssh_channel_write waits for the window.
THEOREM Alignment == Spec => []Aligned
<1>1. ChannelInv => Aligned
  <2> SUFFICES ASSUME ChannelInv PROVE Aligned
    OBVIOUS
  <2> DEFINE E == InFlight("DATA", s2c)
  <2>0. /\ FlowInv /\ len \in Nat /\ rest \in Nat /\ buffered \in Nat
        /\ s_owe \in Nat /\ E \in Nat
    BY Counters DEF ChannelInv
  <2>1. pc = "idle" => buffered = 0
    BY <2>0 DEF FlowInv, Quiet
  <2>2. pc = "write" /\ len > 0 => buffered = 0 /\ ~delayed_close
    BY <2>0 DEF FlowInv, Asking, Answering
  <2>3. pc \in {"read_begins", "read"} => buffered <= rest
    <3>1. pc \in {"read_begins", "read"} =>
             buffered = 0 \/ s_owe + E + buffered <= rest
      BY <2>0 DEF FlowInv, Asking, Answering
    <3> HIDE DEF E
    <3> QED
      BY <2>0, <3>1
  <2> QED
    BY <2>1, <2>2, <2>3 DEF Aligned
<1> QED
  BY <1>1, ChannelInvariance, PTL

\* ssh_channel_send_eof and ssh_channel_close end the channel in order: one
\* EOF, one CLOSE, and no data after them.
THEOREM Orderly == Spec => []OrderlyEnd
<1>1. ChannelInv => OrderlyEnd
  BY Order_Implies DEF ChannelInv
<1> QED
  BY <1>1, ChannelInvariance, PTL

\* The channel is freed once, by whichever of ssh_channel_free, the server's
\* CLOSE and ssh_disconnect comes last.
THEOREM FreedExactlyOnce == Spec => []FreedOnce
<1>1. ChannelInv => FreedOnce
  BY DEF ChannelInv, FreeInv
<1> QED
  BY <1>1, ChannelInvariance, PTL

\* A read fails on a live connection only when nothing is left to read.
LEMMA Read_Fails ==
  ASSUME ChannelInv, [Next]_vars
  PROVE  [pc = "read" /\ pc' = "free" /\ session = "ok" => buffered = 0]_vars
<1>1. SUFFICES ASSUME Next, pc = "read", pc' = "free", session = "ok"
               PROVE  buffered = 0
  OBVIOUS
<1>2. channel_read_fails
  BY <1>1
  DEF Next, Call, ServerWorks, ssh_handle_packets, channel_open,
      channel_request, channel_request_returns, channel_write_begins,
      channel_write, channel_write_returns, channel_read_begins,
      channel_read, ssh_channel_send_eof, ssh_channel_close,
      ssh_channel_free, ssh_disconnect, ServerReceives, ServerGrants,
      ServerSends, ServerCloses, ServerOnly, ConnectionLost, Done, Runs
<1>3. state = "CLOSED" \/ buffered = 0
  BY <1>1, <1>2 DEF channel_read_fails
<1>4. "CLOSED_LOCAL" \notin flags
  BY <1>1 DEF ChannelInv, EndInv
<1> QED
  BY <1>3, <1>4 DEF ChannelInv, CloseInv

\* An answer that arrived before the server's CLOSE is read: the delayed
\* close of channel_rcv_close drops nothing.
THEOREM NoAnswerDropped == Spec => AnswerNotDropped
<1>1. ChannelInv /\ [Next]_vars =>
        [pc = "read" /\ pc' = "free" /\ session = "ok" => buffered = 0]_vars
  BY Read_Fails
<1> QED
  BY <1>1, ChannelInvariance, PTL DEF Spec, AnswerNotDropped
=============================================================================
