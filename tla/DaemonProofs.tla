---------------------------- MODULE DaemonProofs ----------------------------
(***************************************************************************)
(* Proofs about Daemon.  A connection is routed by a table that was in     *)
(* force for it, whenever the table is reloaded; and, for packets that fit *)
(* in a datagram and in the read buffer, a Server-PEP dials what a         *)
(* connection asked for and a Session is given what its peer sent.         *)
(***************************************************************************)
EXTENDS Daemon, HeaderProofs, RouterProofs

(***************************************************************************)
(* Routing.                                                                *)
(***************************************************************************)

\* The destinations a table in force for c could send it to.
RoutesOf(c) == {Lookup(Table(r), dst[c]) : r \in inForce[c]}

\* Between accept and routing, the router that handleTCPConn would read, then the one it
\* has read, is one that counts as in force.
RouteInv ==
  /\ DOMAIN cpc = Conns /\ DOMAIN held = Conns /\ DOMAIN inForce = Conns /\ DOMAIN pep = Conns
  /\ \A c \in Conns :
       /\ cpc[c] = "new" => pep[c] = NoRoute
       /\ cpc[c] = "accepted" => router \in inForce[c]
       /\ cpc[c] = "routing" => held[c] \in inForce[c]
       /\ pep[c] # NoRoute => pep[c] \in RoutesOf(c)
       /\ cpc[c] = "noRoute" => NoRoute \in RoutesOf(c)

\* The steps that do not touch routing.
LEMMA RouteKept ==
  ASSUME RouteInv, UNCHANGED <<router, held, inForce, pep, dst>>,
         DOMAIN cpc' = Conns,
         \A c \in Conns : cpc'[c] = cpc[c] \/ cpc'[c] \in {"up", "failed"}
  PROVE  RouteInv'
<1>1. \A c : RoutesOf(c)' = RoutesOf(c)
  BY DEF RoutesOf
<1> QED
  BY <1>1 DEF RouteInv

\* Every step keeps RouteInv.
LEMMA RouteStep ==
  ASSUME RouteInv, [Next]_vars
  PROVE  RouteInv'
<1>1. CASE UNCHANGED vars
  BY <1>1, RouteKept DEF vars, mainVars, connVars, RouteInv
<1>2. CASE MainTake \/ MainLoad \/ SendHup \/ SendTerm \/ \E f \in Files : EditFile(f)
  <2>1. UNCHANGED <<router, cpc, held, inForce, pep, dst>>
    BY <1>2 DEF MainTake, MainLoad, SendHup, SendTerm, EditFile, connVars
  <2> QED
    BY <2>1, RouteKept DEF RouteInv
<1>3. CASE UpdateRouter
  <2>1. /\ UNCHANGED <<cpc, held, pep, dst>> /\ router' = newRouter
        /\ inForce' = [c \in Conns |-> IF cpc[c] = "accepted" THEN inForce[c] \cup {newRouter}
                                                            ELSE inForce[c]]
    BY <1>3 DEF UpdateRouter, connVars
  <2>2. \A c \in Conns : inForce[c] \subseteq inForce'[c]
    BY <2>1
  <2>3. \A c \in Conns : RoutesOf(c) \subseteq RoutesOf(c)'
    BY <2>1, <2>2 DEF RoutesOf
  <2> QED
    BY <2>1, <2>2, <2>3 DEF RouteInv
<1>4. ASSUME NEW c \in Conns, Accept(c)
      PROVE  RouteInv'
  <2>1. /\ UNCHANGED <<router, held, pep, dst>> /\ cpc[c] = "new"
        /\ cpc' = [cpc EXCEPT ![c] = "accepted"] /\ inForce' = [inForce EXCEPT ![c] = {router}]
    BY <1>4 DEF Accept, mainVars
  <2>2. \A e \in Conns : e # c => RoutesOf(e)' = RoutesOf(e)
    BY <2>1 DEF RoutesOf, RouteInv
  <2> QED
    BY <2>1, <2>2 DEF RouteInv
<1>5. ASSUME NEW c \in Conns, ReadRouter(c)
      PROVE  RouteInv'
  <2>1. /\ UNCHANGED <<router, inForce, pep, dst>> /\ cpc[c] = "accepted"
        /\ cpc' = [cpc EXCEPT ![c] = "routing"] /\ held' = [held EXCEPT ![c] = router]
    BY <1>5 DEF ReadRouter, mainVars
  <2>2. \A e : RoutesOf(e)' = RoutesOf(e)
    BY <2>1 DEF RoutesOf
  <2> QED
    BY <2>1, <2>2 DEF RouteInv
<1>6. ASSUME NEW c \in Conns, RouteConn(c)
      PROVE  RouteInv'
  <2> DEFINE server == Lookup(Table(held[c]), dst[c])
  <2>1. PICK ph \in {"noRoute", "failed", "connecting"} :
          cpc' = [cpc EXCEPT ![c] = ph] /\ (ph = "noRoute" => server = NoRoute)
    <3>1. CASE server = NoRoute
      BY <1>6, <3>1 DEF RouteConn
    <3>2. CASE server # NoRoute /\ Datagrams(server, ConnectPacket(c)) = {}
      BY <1>6, <3>2 DEF RouteConn
    <3>3. CASE server # NoRoute /\ Datagrams(server, ConnectPacket(c)) # {}
      BY <1>6, <3>3, Zenon DEF RouteConn
    <3> QED
      BY <3>1, <3>2, <3>3
  <2>2. /\ UNCHANGED <<router, inForce, dst>> /\ cpc[c] = "routing"
        /\ held' = [held EXCEPT ![c] = NoFile]
        /\ pep' = pep \/ pep' = [pep EXCEPT ![c] = server]
    BY <1>6 DEF RouteConn, mainVars
  <2>3. \A e : RoutesOf(e)' = RoutesOf(e)
    BY <2>2 DEF RoutesOf
  <2>4. server \in RoutesOf(c)
    BY <2>2 DEF RouteInv, RoutesOf
  <2> HIDE DEF server
  <2> QED
    BY <2>1, <2>2, <2>3, <2>4 DEF RouteInv
<1>7. ASSUME NEW c \in Conns,
             \/ Retransmit(c) \/ HandshakeTimeout(c)
             \/ \E p \in SessionPackets(id[c]) : SessionSend(c, p)
      PROVE  RouteInv'
  <2>1. UNCHANGED <<router, held, inForce, pep, dst>>
    BY <1>7 DEF Retransmit, HandshakeTimeout, SessionSend, mainVars, connVars
  <2>2. cpc' = cpc \/ cpc' = [cpc EXCEPT ![c] = "failed"]
    BY <1>7 DEF Retransmit, HandshakeTimeout, SessionSend, connVars
  <2> QED
    BY <2>1, <2>2, RouteKept DEF RouteInv
<1>8. ASSUME NEW m \in net, ServerReceive(m)
      PROVE  RouteInv'
  <2>1. UNCHANGED <<router, cpc, held, inForce, pep, dst>>
    BY <1>8 DEF ServerReceive, mainVars, connVars
  <2> QED
    BY <2>1, RouteKept DEF RouteInv
<1>9. ASSUME NEW m \in net, ClientReceive(m)
      PROVE  RouteInv'
  <2>1. UNCHANGED <<router, held, inForce, pep, dst>>
    BY <1>9 DEF ClientReceive, mainVars
  <2>2. /\ DOMAIN cpc' = Conns
        /\ \A c \in Conns : cpc'[c] = cpc[c] \/ cpc'[c] \in {"up", "failed"}
    BY <1>9 DEF ClientReceive
  <2> QED
    BY <2>1, <2>2, RouteKept
<1>10. ASSUME NEW d \in dials, DialOK(d) \/ DialFails(d)
       PROVE  RouteInv'
  <2>1. UNCHANGED <<router, cpc, held, inForce, pep, dst>>
    BY <1>10, Zenon DEF DialOK, DialFails, mainVars, connVars
  <2> QED
    BY <2>1, RouteKept DEF RouteInv
<1> QED
  BY <1>1, <1>2, <1>3, <1>4, <1>5, <1>6, <1>7, <1>8, <1>9, <1>10 DEF Next, Main

\* UpdateRouter against handleTCPConn: however often the table is reloaded, a connection
\* goes where a table says that was in force between its accept and its routing, and is
\* refused only if such a table has no route for it (RoutedByTable).
THEOREM ReloadDoesNotDisturb == Spec => []RoutedByTable
<1>1. Init => RouteInv
  BY DEF Init, RouteInv
<1>2. RouteInv /\ [Next]_vars => RouteInv'
  BY RouteStep
<1>3. RouteInv => RoutedByTable
  BY DEF RouteInv, RoutedByTable, RoutesOf
<1> QED
  BY <1>1, <1>2, <1>3, PTL DEF Spec

(***************************************************************************)
(* Datagrams.                                                              *)
(***************************************************************************)

USE DEF TypeConnect, TypeConnAck, TypeConnErr, TypeData, TypeClose, TypeReset, TypeNak, TypeLqr

\* Every packet a PEP sends fits in the buffer its peer reads into, and every shard index
\* in its five bits: 2048 bytes, an MTU of at most 1500 and at most 32 shards.
PacketsFit ==
  /\ BufSize \in Nat /\ MTU \in Nat /\ MTU >= 36
  /\ MaxAddr + 3 <= BufSize /\ MTU - 28 <= BufSize
  /\ Shards \in 1 .. 32

\* A datagram that fits is read whole.
LEMMA ReadWhole ==
  ASSUME NEW S, NEW h, NEW b \in Seq(S), Len(h) \in Nat, BufSize \in Nat,
         Len(h) + Len(b) <= BufSize
  PROVE  Read([hdr |-> h, body |-> b]) = [hdr |-> h, body |-> b]
<1> DEFINE d == [hdr |-> h, body |-> b]
<1>1. d.hdr = h /\ d.body = b
  OBVIOUS
<1>2. ~(Len(h) + Len(b) > BufSize) /\ SubSeq(b, 1, Len(b)) = b
  OBVIOUS
<1>3. [d EXCEPT !.body = b] = d
  OBVIOUS
<1> HIDE DEF d
<1> QED
  BY <1>1, <1>2, <1>3, Zenon DEF Read, d

\* The packets of the model are those of the round trips.
LEMMA ConnectIsAddr ==
  ASSUME NEW c
  PROVE  ConnectPacket(c) = AddrPkt(TypeConnect, id[c], AddrOf(dst[c]))
<1> DEFINE i == id[c]
           a == AddrOf(dst[c])
<1>1. WithAddr(BaseOf(TypeConnect, i), a) = AddrPkt(TypeConnect, i, a)
  BY BaseRecord, SetOne, Zenon
<1>2. WithAddr(BaseOf(TypeConnect, i), a) = ConnectPacket(c)
  BY Zenon DEF WithAddr, BaseOf, ConnectPacket
<1> QED
  BY <1>1, <1>2, Zenon

\* An address that is too long is not marshalled.
LEMMA MarshalLong ==
  ASSUME NEW p, p.type = TypeConnect, Len(p.addr) > MaxAddr
  PROVE  Marshal(p) = NoDatagram
  BY DEF Marshal

\* Marshal, ReadFrom and Unmarshal of a CONNECT that can be marshalled.
LEMMA AskArrives ==
  ASSUME PacketsFit, NEW c \in Conns, id[c] \in IDs, AddrOf(dst[c]) \in Seq(Nat),
         Marshal(ConnectPacket(c)) # NoDatagram
  PROVE  Unmarshal(Read(Marshal(ConnectPacket(c)))) = AddrPkt(TypeConnect, id[c], AddrOf(dst[c]))
<1>i. PICK i : i = id[c]
  OBVIOUS
<1>a. PICK a : a = AddrOf(dst[c])
  OBVIOUS
<1>p. PICK p : p = AddrPkt(TypeConnect, i, a)
  OBVIOUS
<1>1. ConnectPacket(c) = p
  BY <1>i, <1>a, <1>p, ConnectIsAddr, Zenon
<1>2. p.type = TypeConnect /\ p.id = i /\ p.addr = a
  BY <1>p, Zenon DEF AddrPkt, Pkt
<1>3. i \in IDs /\ a \in Seq(Nat)
  BY <1>i, <1>a
<1>4. ~(Len(p.addr) > MaxAddr)
  BY <1>1, <1>2, MarshalLong, Zenon
<1>n. PICK n : n = Len(a)
  BY Zenon
<1>h. PICK h : h = Base(p) \o <<n>>
  BY Zenon
<1>5. Marshal(p) = [hdr |-> h, body |-> a]
  <2>1. ~(p.id > 4095)
    BY <1>2, <1>3 DEF IDs
  <2> QED
    BY <1>n, <1>h, <1>2, <1>4, <2>1, MarshalAddr
<1>6. Len(h) = 3
  BY <1>h DEF Base
<1>7. Read(Marshal(p)) = Marshal(p)
  <2>1. Len(a) <= MaxAddr /\ Len(a) \in Nat
    BY <1>2, <1>3, <1>4, HeaderAssumption
  <2>2. Len(h) \in Nat /\ Len(h) + Len(a) <= BufSize /\ BufSize \in Nat
    BY <1>6, <2>1, HeaderAssumption DEF PacketsFit
  <2>3. Read([hdr |-> h, body |-> a]) = [hdr |-> h, body |-> a]
    BY <1>3, <2>2, ReadWhole, Zenon
  <2> QED
    BY <1>5, <2>3, Zenon
<1>8. a \in Addrs(Nat)
  BY <1>2, <1>3, <1>4, HeaderAssumption DEF Addrs
<1>9. Unmarshal(Marshal(p)) = p
  BY <1>p, <1>3, <1>8, AddrRoundTrip, Zenon
<1> QED
  BY <1>1, <1>7, <1>9, <1>i, <1>a, <1>p, Zenon

\* The packets of a Session, in the form of the round trips.
Payloads == {b \in Seq(Nat) : Len(b) <= MTU - 34}

SessionForm(i, p) ==
  \/ \E s \in UInt8 : p = NakPkt(i, s)
  \/ \E g \in UInt16, n \in UInt8 : p = LqrPkt(i, g, n)
  \/ \E t \in {TypeClose, TypeReset} : p = PlainPkt(t, i)
  \/ \E s \in UInt8, g \in UInt16, x \in 0 .. 31, k \in {"data", "parity"}, b \in Payloads :
        p = DataPkt(i, s, g, x, k, b)

\* A payload of n bytes.
LEMMA PayloadOf ==
  ASSUME PacketsFit, NEW n \in 0 .. (MTU - 34)
  PROVE  [j \in 1 .. n |-> j] \in Payloads
<1>1. n \in Nat /\ n <= MTU - 34
  BY DEF PacketsFit
<1>2. [j \in 1 .. n |-> j] \in Seq(Nat) /\ Len([j \in 1 .. n |-> j]) = n
  BY <1>1
<1> QED
  BY <1>1, <1>2 DEF Payloads

\* The packets that SessionSend takes have that form.
LEMMA SessionPacketForms ==
  ASSUME PacketsFit, NEW i, NEW p \in SessionPackets(i)
  PROVE  SessionForm(i, p)
<1> DEFINE P == [ZeroPacket EXCEPT !.id = i]
<1>1. ASSUME NEW s \in UInt8, NEW g \in UInt16, NEW x \in 0 .. 31, NEW k \in {"data", "parity"},
             NEW n \in 0 .. (MTU - 34)
      PROVE  SessionForm(i, DataPacket(i, s, g, x, k, n))
  <2>1. DataPacket(i, s, g, x, k, n)
          = WithData(BaseOf(TypeData, i), s, g, x, k, [j \in 1 .. n |-> j])
    BY Zenon DEF DataPacket, WithData, BaseOf
  <2>2. DataPacket(i, s, g, x, k, n) = DataPkt(i, s, g, x, k, [j \in 1 .. n |-> j])
    BY <2>1, BaseRecord, SetData, Zenon DEF DataPkt
  <2> QED
    BY <2>2, PayloadOf, Zenon DEF SessionForm
<1>2. P = PlainPkt(0, i)
  <2>1. [ZeroPacket EXCEPT !.id = i] = Pkt(0, i, <<>>, 0, 0, 0, "data", <<>>, 0)
    BY DEF ZeroPacket, Pkt
  <2> QED
    BY <2>1, Zenon DEF PlainPkt
<1>3. ASSUME NEW t PROVE [P EXCEPT !.type = t] = PlainPkt(t, i)
  <2>1. ASSUME NEW F
        PROVE  [Pkt(0, i, <<>>, 0, 0, 0, F, <<>>, 0) EXCEPT !.type = t]
                 = Pkt(t, i, <<>>, 0, 0, 0, F, <<>>, 0)
    BY SMT DEF Pkt
  <2>2. [PlainPkt(0, i) EXCEPT !.type = t] = PlainPkt(t, i)
    BY <2>1, Zenon DEF PlainPkt
  <2> QED
    BY <1>2, <2>2, Zenon
<1> HIDE DEF P
<1> DEFINE Nak(s) == [P EXCEPT !.type = TypeNak, !.seq = s]
           Lqr(g, n) == [P EXCEPT !.type = TypeLqr, !.grp = g, !.losses = n]
<1>4. ASSUME NEW s \in UInt8 PROVE SessionForm(i, Nak(s))
  <2>1. Nak(s) = WithSeq(PlainPkt(TypeNak, i), s)
    BY <1>3, Zenon DEF WithSeq
  <2>2. Nak(s) = NakPkt(i, s)
    BY <2>1, SetOne, Zenon DEF NakPkt
  <2> QED
    BY <2>2, Zenon DEF SessionForm
<1>5. ASSUME NEW g \in UInt16, NEW n \in UInt8
      PROVE  SessionForm(i, Lqr(g, n))
  <2>1. PICK q : q = [P EXCEPT !.type = TypeLqr]
    BY Zenon
  <2>2. Lqr(g, n) = [[P EXCEPT !.type = TypeLqr] EXCEPT !.grp = g, !.losses = n]
    BY Zenon
  <2>3. Lqr(g, n) = WithLqr(q, g, n)
    BY <2>1, <2>2, Zenon DEF WithLqr
  <2>4. q = PlainPkt(TypeLqr, i)
    BY <1>3, <2>1, Zenon
  <2>5. WithLqr(PlainPkt(TypeLqr, i), g, n) = LqrPkt(i, g, n)
    BY SetLqr
  <2>6. Lqr(g, n) = LqrPkt(i, g, n)
    BY <2>3, <2>4, <2>5, Zenon
  <2> QED
    BY <2>6, Zenon DEF SessionForm
<1>6. SessionForm(i, [P EXCEPT !.type = TypeClose]) /\ SessionForm(i, [P EXCEPT !.type = TypeReset])
  BY <1>3, Zenon DEF SessionForm
<1>7. \/ p = DataPacket(i, 0, 0, 0, "data", 2)
      \/ p = DataPacket(i, 255, 256, 1, "data", MTU - 34)
      \/ p = DataPacket(i, 0, 65535, Shards - 1, "parity", MTU - 34)
      \/ p = Nak(255) \/ p = Lqr(65535, Shards)
      \/ p = [P EXCEPT !.type = TypeClose] \/ p = [P EXCEPT !.type = TypeReset]
  BY SMT DEF SessionPackets, P
<1> HIDE DEF Nak, Lqr
<1>8. /\ 0 \in UInt8 /\ 255 \in UInt8 /\ 0 \in UInt16 /\ 256 \in UInt16 /\ 65535 \in UInt16
      /\ 0 \in 0 .. 31 /\ 1 \in 0 .. 31 /\ Shards - 1 \in 0 .. 31 /\ Shards \in UInt8
      /\ 2 \in 0 .. (MTU - 34) /\ MTU - 34 \in 0 .. (MTU - 34)
  BY DEF UInt8, UInt16, PacketsFit
<1>9. /\ SessionForm(i, DataPacket(i, 0, 0, 0, "data", 2))
      /\ SessionForm(i, DataPacket(i, 255, 256, 1, "data", MTU - 34))
      /\ SessionForm(i, DataPacket(i, 0, 65535, Shards - 1, "parity", MTU - 34))
  BY <1>1, <1>8, SMT
<1>10. SessionForm(i, Nak(255))
  BY <1>4, <1>8, SMT
<1>11. SessionForm(i, Lqr(65535, Shards))
  BY <1>5, <1>8, SMT
<1> QED
  BY <1>6, <1>7, <1>9, <1>10, <1>11, SMT

\* Marshal, ReadFrom and Unmarshal of a packet of a Session.
LEMMA SaidArrives ==
  ASSUME PacketsFit, NEW i \in IDs, NEW p, SessionForm(i, p)
  PROVE  Unmarshal(Read(Marshal(p))) = p /\ p.id = i /\ p.type \in 3 .. 7
<1>1. BufSize \in Nat /\ BufSize >= 8 /\ MTU \in Nat
  BY DEF PacketsFit
<1>2. ASSUME NEW h, NEW b \in Seq(Nat), Len(h) \in 0 .. 6, Len(b) = 0 \/ Len(b) <= MTU - 34,
             Marshal(p) = [hdr |-> h, body |-> b], Unmarshal(Marshal(p)) = p
      PROVE  Unmarshal(Read(Marshal(p))) = p
  <2>0. ASSUME NEW x \in 0 .. 6, NEW y \in Nat, y = 0 \/ y <= MTU - 34
        PROVE  x \in Nat /\ x + y <= BufSize
    BY <1>1, <2>0 DEF PacketsFit
  <2>1. Len(h) \in Nat /\ Len(h) + Len(b) <= BufSize
    <3>1. Len(b) \in Nat
      OBVIOUS
    <3> QED
      BY <1>2, <2>0, <3>1, Zenon
  <2>2. Read([hdr |-> h, body |-> b]) = [hdr |-> h, body |-> b]
    BY <1>1, <2>1, ReadWhole, Zenon
  <2> QED
    BY <1>2, <2>2, Zenon
<1>3. <<>> \in Seq(Nat) /\ Len(<<>>) = 0
  OBVIOUS
<1>4. ~(i > 4095)
  BY DEF IDs
<1>5. ASSUME NEW s \in UInt8, p = NakPkt(i, s)
      PROVE  Unmarshal(Read(Marshal(p))) = p /\ p.id = i /\ p.type = TypeNak
  <2>1. p.type = TypeNak /\ p.id = i /\ p.seq = s
    BY <1>5, Zenon DEF NakPkt, Pkt
  <2>2. PICK h : h = Base(p) \o <<s>>
    BY Zenon
  <2>3. Marshal(p) = [hdr |-> h, body |-> <<>>]
    BY <1>4, <2>1, <2>2, MarshalNak
  <2>4. Len(h) = 3 /\ h[3] = s
    BY <2>2, Header3
  <2>5. Unmarshal(Marshal(p)) = p
    BY <1>5, NakRoundTrip, Zenon
  <2>6. Len(h) \in 0 .. 6
    BY <2>4
  <2> QED
    BY <1>2, <1>3, <2>1, <2>3, <2>5, <2>6, Zenon
<1>6. ASSUME NEW g \in UInt16, NEW n \in UInt8, p = LqrPkt(i, g, n)
      PROVE  Unmarshal(Read(Marshal(p))) = p /\ p.id = i /\ p.type = TypeLqr
  <2>1. p.type = TypeLqr /\ p.id = i
    BY <1>6, Zenon DEF LqrPkt, Pkt
  <2>2. PICK h : h = LqrHeader(p)
    OBVIOUS
  <2>3. Marshal(p) = [hdr |-> h, body |-> <<>>]
    BY <1>4, <2>1, <2>2, MarshalLqr
  <2>4. Len(h) \in 0 .. 6
    BY <2>2 DEF LqrHeader, Base
  <2>5. Unmarshal(Marshal(p)) = p
    BY <1>6, LqrRoundTrip, Zenon
  <2> QED
    BY <1>2, <1>3, <2>1, <2>3, <2>4, <2>5, Zenon
<1>7. ASSUME NEW t \in {TypeClose, TypeReset}, p = PlainPkt(t, i)
      PROVE  Unmarshal(Read(Marshal(p))) = p /\ p.id = i /\ p.type = t
  <2>1. p.type = t /\ p.id = i
    BY <1>7, Zenon DEF PlainPkt, Pkt
  <2>2. PICK h : h = Base(p)
    OBVIOUS
  <2>3. Marshal(p) = [hdr |-> h, body |-> <<>>]
    BY <1>4, <2>1, <2>2, MarshalPlain
  <2>4. Len(h) \in 0 .. 6
    BY <2>2 DEF Base
  <2>5. Unmarshal(Marshal(p)) = p
    BY <1>7, PlainRoundTrip, Zenon
  <2> QED
    BY <1>2, <1>3, <2>1, <2>3, <2>4, <2>5, Zenon
<1>8. ASSUME NEW s \in UInt8, NEW g \in UInt16, NEW x \in 0 .. 31, NEW k \in {"data", "parity"},
             NEW b \in Payloads, p = DataPkt(i, s, g, x, k, b)
      PROVE  Unmarshal(Read(Marshal(p))) = p /\ p.id = i /\ p.type = TypeData
  <2>1. p.type = TypeData /\ p.id = i /\ p.payload = b
    BY <1>8, Zenon DEF DataPkt, Pkt
  <2>2. PICK h : h = DataHeader(p)
    OBVIOUS
  <2>3. Marshal(p) = [hdr |-> h, body |-> b]
    BY <1>4, <2>1, <2>2, MarshalData
  <2>4. Len(h) \in 0 .. 6
    BY <2>2 DEF DataHeader, Base
  <2>5. x \in UInt8 /\ x % 32 = x
    BY DEF UInt8
  <2>6. Unmarshal(Marshal(p)) = p
    <3>1. Unmarshal(Marshal(DataPkt(i, s, g, x, k, b))) = DataPkt(i, s, g, x % 32, k, b)
      BY <2>5, DataRoundTrip
    <3> QED
      BY <1>8, <2>5, <3>1
  <2>7. b \in Seq(Nat) /\ Len(b) <= MTU - 34
    BY DEF Payloads
  <2> QED
    BY <1>2, <2>1, <2>3, <2>4, <2>6, <2>7, Zenon
<1> QED
  BY <1>5, <1>6, <1>7, <1>8 DEF SessionForm

\* A connection that has been routed keeps its Server-PEP.
Routed(c) == cpc[c] \notin {"new", "accepted", "routing"}

\* A datagram to a Server-PEP is a CONNECT of a connection that was routed there, or the
\* packet that the Session of a connection has sent.
Asks(m) ==
  \E c \in Conns : /\ Routed(c) /\ m.to = pep[c]
                  /\ Marshal(ConnectPacket(c)) # NoDatagram
                  /\ m.data = Marshal(ConnectPacket(c))

Says(m) == \E c \in Conns : SessionForm(id[c], said[c]) /\ m.data = Marshal(said[c])

\* What is in flight, being dialled or delivered comes from a connection.
MailInv ==
  /\ id \in [Conns -> IDs] /\ dst \in [Conns -> Dsts]
  /\ DOMAIN cpc = Conns /\ DOMAIN pep = Conns /\ DOMAIN said = Conns
  /\ \A c, e \in Conns : id[c] = id[e] => c = e
  /\ \A m \in net : m.to # Client => Asks(m) \/ Says(m)
  /\ \A d \in dials : \E c \in Conns :
        Routed(c) /\ d = [pep |-> pep[c], id |-> id[c], addr |-> AddrOf(dst[c])]
  /\ Intact

\* What MailInv relies on in a step: a routed connection stays so, with its Server-PEP,
\* and a packet that was sent stays the one that was sent.
MailKeeps ==
  /\ id' = id /\ dst' = dst /\ DOMAIN cpc' = Conns /\ DOMAIN pep' = Conns
  /\ DOMAIN said' = Conns
  /\ \A c \in Conns : Routed(c) => Routed(c)' /\ pep'[c] = pep[c]
  /\ \A c \in Conns : said'[c] = said[c] \/ said[c] = NoPacket

\* A packet of a Session is not the error of Unmarshal.
LEMMA SaidIsPacket ==
  ASSUME PacketsFit, NEW i \in IDs, NEW p, SessionForm(i, p)
  PROVE  p # NoPacket
<1>1. p.type \in 3 .. 7
  BY SaidArrives
<1>2. NoPacket.type = 16
  BY DEF NoPacket, ZeroPacket
<1> QED
  BY <1>1, <1>2

\* A datagram keeps its source.
LEMMA SourceKept ==
  ASSUME PacketsFit, MailInv, MailKeeps, NEW m, Asks(m) \/ Says(m)
  PROVE  Asks(m)' \/ Says(m)'
<1>1. \A c : ConnectPacket(c)' = ConnectPacket(c)
  BY Zenon DEF ConnectPacket, MailKeeps
<1>2. CASE Asks(m)
  <2>1. PICK c \in Conns : /\ Routed(c) /\ m.to = pep[c]
                          /\ Marshal(ConnectPacket(c)) # NoDatagram
                          /\ m.data = Marshal(ConnectPacket(c))
    BY <1>2, Zenon DEF Asks
  <2>2. Routed(c)' /\ pep'[c] = pep[c]
    BY <2>1, Zenon DEF MailKeeps
  <2> QED
    BY <1>1, <2>1, <2>2, Zenon DEF Asks
<1>3. CASE Says(m)
  <2>1. PICK c \in Conns : SessionForm(id[c], said[c]) /\ m.data = Marshal(said[c])
    BY <1>3, Zenon DEF Says
  <2>2. said[c] # NoPacket
    BY <2>1, SaidIsPacket DEF MailInv
  <2>3. said'[c] = said[c] /\ id' = id
    BY <2>2, Zenon DEF MailKeeps
  <2> QED
    BY <2>1, <2>3, Zenon DEF Says
<1> QED
  BY <1>2, <1>3

\* What is left to show of a step that keeps the sources.
LEMMA MailReceived ==
  ASSUME PacketsFit, MailInv, MailKeeps,
         \A m \in net' : m \in net \/ m.to = Client \/ Asks(m)' \/ Says(m)',
         \A d \in dials' : \/ d \in dials
                           \/ \E c \in Conns : /\ Routed(c)'
                                               /\ d = [pep |-> pep'[c], id |-> id'[c],
                                                      addr |-> AddrOf(dst'[c])],
         \/ UNCHANGED heard
         \/ \A c \in Conns : heard'[c] \in {NoPacket, said'[c]}
  PROVE  MailInv'
<1>1. \A m \in net' : m.to # Client => Asks(m)' \/ Says(m)'
  BY SourceKept, Zenon DEF MailInv
<1>2. ASSUME NEW d \in dials
      PROVE  \E c \in Conns :
               Routed(c)' /\ d = [pep |-> pep'[c], id |-> id'[c], addr |-> AddrOf(dst'[c])]
  <2>1. PICK c \in Conns : Routed(c) /\ d = [pep |-> pep[c], id |-> id[c], addr |-> AddrOf(dst[c])]
    BY Zenon DEF MailInv
  <2>2. Routed(c)' /\ pep'[c] = pep[c] /\ id' = id /\ dst' = dst
    BY <2>1, Zenon DEF MailKeeps
  <2> QED
    BY <2>1, <2>2, Zenon
<1>3. \A d \in dials' : \E c \in Conns :
        Routed(c)' /\ d = [pep |-> pep'[c], id |-> id'[c], addr |-> AddrOf(dst'[c])]
  BY <1>2, Zenon
<1>4. Intact'
  <2>1. ASSUME NEW c \in Conns PROVE heard'[c] \in {NoPacket, said'[c]}
    BY DEF MailInv, MailKeeps, Intact
  <2> QED
    BY <2>1, Zenon DEF Intact
<1>5. /\ id' \in [Conns -> IDs] /\ dst' \in [Conns -> Dsts]
      /\ DOMAIN cpc' = Conns /\ DOMAIN pep' = Conns /\ DOMAIN said' = Conns
      /\ \A c, e \in Conns : id'[c] = id'[e] => c = e
  BY DEF MailInv, MailKeeps
<1> QED
  BY <1>1, <1>3, <1>4, <1>5, Zenon DEF MailInv

\* In particular of one that delivers and dials nothing.
LEMMA MailKept ==
  ASSUME PacketsFit, MailInv, MailKeeps, UNCHANGED heard,
         \A m \in net' : m \in net \/ m.to = Client \/ Asks(m)' \/ Says(m)',
         dials' \subseteq dials
  PROVE  MailInv'
  BY MailReceived, Zenon

\* The steps of a connection, and of the signal loop, keep the sources.
LEMMA StepKeeps ==
  ASSUME MailInv, [Next]_vars
  PROVE  MailKeeps
<1>1. UNCHANGED <<id, dst>>
  BY Zenon DEF Next, vars, Main, MainTake, MainLoad, UpdateRouter, SendHup, SendTerm, EditFile, Accept,
         ReadRouter, RouteConn, Retransmit, HandshakeTimeout, SessionSend, ServerReceive,
         ClientReceive, DialOK, DialFails, connVars
<1>2. \/ pep' = pep
      \/ \E c \in Conns : cpc[c] = "routing" /\ \E v : pep' = [pep EXCEPT ![c] = v]
  BY Zenon DEF Next, vars, Main, MainTake, MainLoad, UpdateRouter, SendHup, SendTerm, EditFile, Accept,
         ReadRouter, RouteConn, Retransmit, HandshakeTimeout, SessionSend, ServerReceive,
         ClientReceive, DialOK, DialFails, connVars
<1>3. said' = said \/ \E c \in Conns : said[c] = NoPacket /\ \E v : said' = [said EXCEPT ![c] = v]
  BY Zenon DEF Next, vars, Main, MainTake, MainLoad, UpdateRouter, SendHup, SendTerm, EditFile, Accept,
         ReadRouter, RouteConn, Retransmit, HandshakeTimeout, SessionSend, ServerReceive,
         ClientReceive, DialOK, DialFails, connVars
<1>4. DOMAIN cpc' = Conns /\ \A c \in Conns : Routed(c) => Routed(c)'
  <2>1. CASE \E c \in Conns : Accept(c) \/ ReadRouter(c)
    <3>1. PICK c \in Conns : /\ cpc[c] \in {"new", "accepted", "routing"}
                             /\ \E v : cpc' = [cpc EXCEPT ![c] = v]
      BY <2>1 DEF Accept, ReadRouter
    <3> QED
      BY <3>1 DEF MailInv, Routed
  <2>2. CASE \E c \in Conns : RouteConn(c) \/ HandshakeTimeout(c)
    <3>1. PICK c \in Conns, v \in {"noRoute", "failed", "connecting"} : cpc' = [cpc EXCEPT ![c] = v]
      BY <2>2 DEF RouteConn, HandshakeTimeout
    <3> QED
      BY <3>1 DEF MailInv, Routed
  <2>3. CASE \E m \in net : ClientReceive(m)
    <3>1. /\ DOMAIN cpc' = Conns
          /\ \A c \in Conns : cpc'[c] = cpc[c] \/ cpc'[c] \in {"up", "failed"}
      BY <2>3 DEF ClientReceive
    <3> QED
      BY <3>1 DEF Routed
  <2>4. CASE cpc' = cpc
    BY <2>4 DEF MailInv, Routed
  <2> QED
    BY <2>1, <2>2, <2>3, <2>4, Zenon
    DEF Next, vars, Main, MainTake, MainLoad, UpdateRouter, SendHup, SendTerm, EditFile,
        Retransmit, SessionSend, ServerReceive, DialOK, DialFails, connVars
<1> QED
  BY <1>1, <1>2, <1>3, <1>4 DEF MailKeeps, MailInv, Routed

\* udpDemuxLoop of the Server-PEP: what it is given has a source.
LEMMA ReceiveMail ==
  ASSUME PacketsFit, MailInv, MailKeeps, NEW m \in net, ServerReceive(m)
  PROVE  MailInv'
<1> DEFINE p == Unmarshal(Read(m.data))
<1>0. /\ UNCHANGED <<cpc, pep, id, dst, said>> /\ m.to # Client
      /\ id \in [Conns -> IDs] /\ dst \in [Conns -> Dsts]
  BY Zenon DEF ServerReceive, connVars, MailInv
<1>1. \A k \in net' : k \in net \/ k.to = Client
  <2>1. ASSUME NEW q, NEW k \in Datagrams(Client, q) PROVE k.to = Client
    BY DEF Datagrams
  <2>2. net' = net \ {m} \/ \E q : net' = (net \ {m}) \cup Datagrams(Client, q)
    BY Zenon DEF ServerReceive
  <2> QED
    BY <2>1, <2>2
<1>2. CASE Asks(m)
  <2>1. PICK c \in Conns : /\ Routed(c) /\ m.to = pep[c]
                          /\ Marshal(ConnectPacket(c)) # NoDatagram
                          /\ m.data = Marshal(ConnectPacket(c))
    BY <1>2, Zenon DEF Asks
  <2>2. p = AddrPkt(TypeConnect, id[c], AddrOf(dst[c]))
    <3>1. id[c] \in IDs /\ dst[c] \in Dsts
      BY <1>0
    <3>2. AddrOf(dst[c]) \in Seq(Nat)
      BY <3>1, DaemonAssumption
    <3> QED
      BY <2>1, <3>1, <3>2, AskArrives
  <2>3. p.type = TypeConnect /\ p.id = id[c] /\ p.addr = AddrOf(dst[c])
    <3>1. ASSUME NEW i, NEW a, NEW q, q = AddrPkt(TypeConnect, i, a)
          PROVE  q.type = TypeConnect /\ q.id = i /\ q.addr = a
      BY <3>1, Zenon DEF AddrPkt, Pkt
    <3> HIDE DEF p
    <3> QED
      BY <2>2, <3>1
  <2>4. /\ heard' = heard
        /\ dials' \subseteq dials \cup {[pep |-> m.to, id |-> p.id, addr |-> p.addr]}
    BY <2>3, Zenon DEF ServerReceive
  <2>5. ASSUME NEW d \in dials'
        PROVE  \E e \in Conns :
                 Routed(e)' /\ d = [pep |-> pep'[e], id |-> id'[e], addr |-> AddrOf(dst'[e])]
    <3>1. CASE d \in dials
      <4>1. PICK e \in Conns :
              Routed(e) /\ d = [pep |-> pep[e], id |-> id[e], addr |-> AddrOf(dst[e])]
        BY <3>1, Zenon DEF MailInv
      <4> QED
        BY <1>0, <4>1, Zenon DEF Routed
    <3>2. CASE d = [pep |-> m.to, id |-> p.id, addr |-> p.addr]
      <4>1. d = [pep |-> pep[c], id |-> id[c], addr |-> AddrOf(dst[c])]
        BY <2>1, <2>3, <3>2, Zenon
      <4> QED
        BY <1>0, <2>1, <4>1, Zenon DEF Routed
    <3> QED
      BY <2>4, <3>1, <3>2, Zenon
  <2> QED
    BY <1>0, <1>1, <2>4, <2>5, MailReceived
<1>3. CASE Says(m)
  <2>1. PICK c \in Conns : SessionForm(id[c], said[c]) /\ m.data = Marshal(said[c])
    BY <1>3, Zenon DEF Says
  <2>2. p = said[c] /\ p.id = id[c] /\ p.type \in 3 .. 7
    BY <1>0, <2>1, SaidArrives
  <2>3. dials' = dials /\ (\/ heard' = heard
                           \/ heard' = [e \in Conns |-> IF id[e] = p.id THEN p ELSE heard[e]])
    BY <2>2 DEF ServerReceive
  <2>4. ASSUME NEW e \in Conns PROVE heard'[e] \in {NoPacket, said'[e]}
    BY <1>0, <2>2, <2>3, Zenon DEF MailInv, Intact
  <2> QED
    BY <1>0, <1>1, <2>3, <2>4, MailReceived
<1> QED
  BY <1>0, <1>2, <1>3, Zenon DEF MailInv

\* Every step keeps MailInv.
LEMMA MailStep ==
  ASSUME PacketsFit, MailInv, [Next]_vars
  PROVE  MailInv'
<1>0. MailKeeps
  BY StepKeeps
<1>1. CASE \/ UNCHANGED vars \/ Main \/ SendHup \/ SendTerm \/ \E f \in Files : EditFile(f)
           \/ \E c \in Conns : Accept(c) \/ ReadRouter(c) \/ HandshakeTimeout(c)
           \/ \E m \in net : ClientReceive(m)
  <2>1. UNCHANGED <<dials, heard>> /\ net' \subseteq net
    BY <1>1, Zenon DEF vars, Main, MainTake, MainLoad, UpdateRouter, SendHup, SendTerm, EditFile,
                Accept, ReadRouter, HandshakeTimeout, ClientReceive
  <2> QED
    BY <1>0, <2>1, MailKept
<1>2. ASSUME NEW c \in Conns, RouteConn(c) \/ Retransmit(c)
      PROVE  MailInv'
  <2>1. UNCHANGED <<dials, heard, id, dst>>
    BY <1>2, Zenon DEF RouteConn, Retransmit, connVars
  <2>2. net' = net \/ (Routed(c)' /\ net' = net \cup Datagrams(pep'[c], ConnectPacket(c)))
    <3>1. CASE RouteConn(c)
      BY <3>1, Zenon DEF RouteConn, Routed, MailInv
    <3>2. CASE Retransmit(c)
      BY <3>2 DEF Retransmit, Routed, connVars
    <3> QED
      BY <1>2, <3>1, <3>2
  <2>3. ASSUME NEW m \in net' PROVE m \in net \/ Asks(m)'
    <3>1. CASE m \notin net
      <4>1. Routed(c)' /\ m \in Datagrams(pep'[c], ConnectPacket(c))
        BY <2>2, <3>1
      <4>2. /\ Marshal(ConnectPacket(c)) # NoDatagram
            /\ m = [to |-> pep'[c], data |-> Marshal(ConnectPacket(c))]
        BY <4>1, Zenon DEF Datagrams
      <4>3. m.to = pep'[c] /\ m.data = Marshal(ConnectPacket(c))
        BY <4>2
      <4>4. ConnectPacket(c)' = ConnectPacket(c)
        BY <2>1, Zenon DEF ConnectPacket
      <4> QED
        BY <4>1, <4>2, <4>3, <4>4, Zenon DEF Asks
    <3> QED
      BY <3>1
  <2> QED
    BY <1>0, <2>1, <2>3, MailKept
<1>3. ASSUME NEW c \in Conns, NEW p \in SessionPackets(id[c]), SessionSend(c, p)
      PROVE  MailInv'
  <2>1. /\ UNCHANGED <<dials, heard, id>> /\ said' = [said EXCEPT ![c] = p]
        /\ net' = net \cup Datagrams(pep[c], p)
    BY <1>3 DEF SessionSend, connVars
  <2>2. said'[c] = p
    BY <2>1 DEF MailInv
  <2>3. SessionForm(id[c], p)
    BY SessionPacketForms
  <2>4. ASSUME NEW m \in net' PROVE m \in net \/ Says(m)'
    <3>1. CASE m \in Datagrams(pep[c], p)
      <4>1. m = [to |-> pep[c], data |-> Marshal(p)]
        BY <3>1, Zenon DEF Datagrams
      <4>2. m.data = Marshal(p)
        BY <4>1
      <4> QED
        BY <2>1, <2>2, <2>3, <4>2, Zenon DEF Says
    <3> QED
      BY <2>1, <3>1
  <2> QED
    BY <1>0, <2>1, <2>4, MailKept
<1>4. ASSUME NEW d \in dials, DialOK(d) \/ DialFails(d)
      PROVE  MailInv'
  <2>1. UNCHANGED heard /\ dials' \subseteq dials
    BY <1>4, Zenon DEF DialOK, DialFails
  <2>2. PICK q : net' = net \cup Datagrams(Client, q)
    BY <1>4, Zenon DEF DialOK, DialFails
  <2>3. \A m \in Datagrams(Client, q) : m.to = Client
    BY DEF Datagrams
  <2> QED
    BY <1>0, <2>1, <2>2, <2>3, MailKept
<1>5. ASSUME NEW m \in net, ServerReceive(m)
      PROVE  MailInv'
  BY <1>0, <1>5, ReceiveMail
<1> QED
  BY <1>1, <1>2, <1>3, <1>4, <1>5 DEF Next

\* The invariant holds at first.
LEMMA MailInit == Init => MailInv
<1> SUFFICES ASSUME Init PROVE MailInv
  OBVIOUS
<1>1. /\ id \in [Conns -> StreamIDs] /\ dst \in [Conns -> Dsts]
      /\ \A c, e \in Conns : id[c] = id[e] => c = e
  BY Zenon DEF Init
<1>2. id \in [Conns -> IDs]
  <2>1. \A n \in StreamIDs : n \in IDs
    BY DaemonAssumption DEF IDs
  <2> QED
    BY <1>1, <2>1
<1>3. /\ DOMAIN cpc = Conns /\ DOMAIN pep = Conns /\ DOMAIN said = Conns
      /\ net = {} /\ dials = {}
  BY DEF Init
<1>4. Intact
  <2>1. ASSUME NEW c \in Conns PROVE heard[c] = NoPacket
    BY Zenon DEF Init
  <2> QED
    BY <2>1, Zenon DEF Intact
<1> QED
  BY <1>1, <1>2, <1>3, <1>4, Zenon DEF MailInv

\* Marshal, udpDemuxLoop, Unmarshal: for packets that fit, any number of connections, and
\* whatever a StreamID or an address is, the Session of the peer is given the packet that
\* this connection's Session has sent, every field of it (Intact).
THEOREM DeliversWhatWasSent ==
  ASSUME PacketsFit
  PROVE  Spec => []Intact
<1>1. Init => MailInv
  BY MailInit
<1>2. MailInv /\ [Next]_vars => MailInv'
  BY MailStep
<1>3. MailInv => Intact
  BY Zenon DEF MailInv
<1> QED
  BY <1>1, <1>2, <1>3, PTL DEF Spec

\* handleTCPConn, Marshal, Unmarshal, handleConnect: a Server-PEP dials only the
\* destination of a connection that was routed to it, under that connection's StreamID
\* (DialsAsked): packets of a Session are never taken for a CONNECT, and an address
\* arrives whole or not at all.
THEOREM DialsWhatWasAsked ==
  ASSUME PacketsFit
  PROVE  Spec => []DialsAsked
<1>1. Init => MailInv
  BY MailInit
<1>2. MailInv /\ [Next]_vars => MailInv'
  BY MailStep
<1>3. MailInv => DialsAsked
  BY Zenon DEF MailInv, DialsAsked
<1> QED
  BY <1>1, <1>2, <1>3, PTL DEF Spec

(***************************************************************************)
(* The table in force.                                                     *)
(***************************************************************************)

\* The router in use, and the one about to be, are of files that could be loaded.
LoadInv ==
  /\ file \in Files /\ router \in Files /\ Table(router).ok
  /\ mpc = "update" => newRouter \in Files /\ Table(newRouter).ok

\* MainLoad and UpdateRouter: a file with a bad block is never put in force.
LEMMA LoadStep == LoadInv /\ [Next]_vars => LoadInv'
<1> SUFFICES ASSUME LoadInv, [Next]_vars PROVE LoadInv'
  OBVIOUS
<1>0. /\ file \in Files /\ router \in Files /\ Table(router).ok
      /\ mpc = "update" => newRouter \in Files /\ Table(newRouter).ok
  BY Zenon DEF LoadInv
<1>1. CASE UNCHANGED <<file, router, mpc, newRouter>>
  BY <1>0, <1>1, Zenon DEF LoadInv, Table
<1>2. CASE MainTake
  <2>1. /\ UNCHANGED <<file, router, newRouter>>
        /\ mpc' = IF Head(sigChan) = "HUP" THEN "load" ELSE "down"
    BY <1>2, Zenon DEF MainTake
  <2>2. mpc' # "update"
    BY <2>1
  <2> QED
    BY <1>0, <2>1, <2>2, Zenon DEF LoadInv, Table
<1>3. CASE MainLoad
  <2>1. /\ UNCHANGED <<file, router>> /\ newRouter' = file
        /\ mpc' = IF Table(file).ok THEN "update" ELSE "wait"
    BY <1>3, Zenon DEF MainLoad
  <2>2. mpc' = "update" => Table(file).ok
    BY <2>1
  <2> QED
    BY <1>0, <2>1, <2>2, Zenon DEF LoadInv, Table
<1>4. CASE UpdateRouter
  <2>1. /\ file' = file /\ router' = newRouter /\ mpc = "update" /\ mpc' = "wait"
    BY <1>4, Zenon DEF UpdateRouter
  <2>2. mpc' # "update"
    BY <2>1
  <2> QED
    BY <1>0, <2>1, <2>2, Zenon DEF LoadInv, Table
<1>5. ASSUME NEW f \in Files, EditFile(f) PROVE LoadInv'
  <2>1. file' = f /\ UNCHANGED <<router, mpc, newRouter>>
    BY <1>5, Zenon DEF EditFile
  <2> QED
    BY <1>0, <2>1, Zenon DEF LoadInv, Table
<1>6. CASE SendHup \/ SendTerm
  BY <1>1, <1>6, Zenon DEF SendHup, SendTerm
<1>7. ASSUME NEW c \in Conns,
             \/ Accept(c) \/ ReadRouter(c) \/ RouteConn(c) \/ Retransmit(c) \/ HandshakeTimeout(c)
             \/ \E p \in SessionPackets(id[c]) : SessionSend(c, p)
      PROVE  LoadInv'
  <2>1. UNCHANGED mainVars
    BY <1>7, Zenon DEF Accept, ReadRouter, RouteConn, Retransmit, HandshakeTimeout, SessionSend
  <2> QED
    BY <1>1, <2>1, Zenon DEF mainVars
<1>8. ASSUME NEW m \in net, ServerReceive(m) \/ ClientReceive(m) PROVE LoadInv'
  <2>1. UNCHANGED mainVars
    BY <1>8, Zenon DEF ServerReceive, ClientReceive
  <2> QED
    BY <1>1, <2>1, Zenon DEF mainVars
<1>9. ASSUME NEW d \in dials, DialOK(d) \/ DialFails(d) PROVE LoadInv'
  <2>1. UNCHANGED mainVars
    BY <1>9, Zenon DEF DialOK, DialFails
  <2> QED
    BY <1>1, <2>1, Zenon DEF mainVars
<1>10. CASE UNCHANGED vars
  BY <1>1, <1>10, Zenon DEF vars, mainVars
<1> QED
  BY <1>2, <1>3, <1>4, <1>5, <1>6, <1>7, <1>8, <1>9, <1>10, Zenon DEF Next, Main

\* Lookup in a table that could be loaded says what its file says.
LEMMA LoadedTable ==
  ASSUME NEW f \in Files, Table(f).ok, NEW d
  PROVE  Lookup(Table(f), d) = RouteOf(Routes(f), d)
<1>1. Routes(f) \in Seq(Range(Routes(f)))
  BY DaemonAssumption
<1>2. ~\E j \in DOMAIN Routes(f) : Routes(f)[j].kind = "bad"
  <2>1. CASE \E j \in DOMAIN Routes(f) : Routes(f)[j].kind = "bad"
    <3>1. Table(f) = NoRouter
      BY <2>1, Zenon DEF Table, LoadConfig
    <3>2. ~NoRouter.ok
      BY DEF NoRouter
    <3> QED
      BY <3>1, <3>2, Zenon
  <2> QED
    BY <2>1, Zenon
<1> QED
  BY <1>1, <1>2, LookupIsRouteOf, Zenon DEF Table

\* run, LoadConfig, UpdateRouter, Lookup: for any files and any reloads, the table in force
\* answers every destination as one file does that could be loaded (LookupFollowsFile): a
\* bad file never comes into force, and no table is a mixture of two files.
THEOREM TableFollowsFile == Spec => []LookupFollowsFile
<1>1. Init => LoadInv
  <2> SUFFICES ASSUME Init PROVE LoadInv
    OBVIOUS
  <2>1. file \in Files /\ router \in Files /\ Table(router).ok /\ mpc = "wait"
    BY Zenon DEF Init
  <2>2. mpc # "update"
    BY <2>1
  <2> QED
    BY <2>1, <2>2, Zenon DEF LoadInv
<1>2. LoadInv /\ [Next]_vars => LoadInv'
  BY LoadStep
<1>3. LoadInv => LookupFollowsFile
  BY LoadedTable, Zenon DEF LoadInv, LookupFollowsFile
<1> QED
  BY <1>1, <1>2, <1>3, PTL DEF Spec
=============================================================================
