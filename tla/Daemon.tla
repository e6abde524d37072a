------------------------------- MODULE Daemon -------------------------------
(***************************************************************************)
(* A Client-PEP process and the way of a connection through it: the signal *)
(* loop with the reload of the routing table (cmd/main.go), the routing of *)
(* an intercepted connection (proxy/client.go), and the datagrams of the   *)
(* handshake and of the Session, each of which is marshalled, read into    *)
(* the buffer of the other PEP's demultiplexer and unmarshalled there      *)
(* (proxy/server.go).  Pep has the StreamIDs and the life of Sessions: here *)
(* a connection has its StreamID, and loss and duplication of datagrams    *)
(* are left to Pep and Transfer.                                           *)
(***************************************************************************)
EXTENDS Header, Router

CONSTANTS
  Conns,        \* intercepted connections
  Dsts,         \* their possible original destinations
  AddrOf(_),    \* the bytes of a destination
  StreamIDs,
  Files,        \* versions of the routing file
  Routes(_),    \* the routes in a version
  NoFile,
  Shards,       \* FEC_K + FEC_M
  MTU,
  BufSize,      \* of the demultiplexer; 2048 in the code
  Messages,     \* error messages of a dial
  Edits         \* bound: changes of the routing file

ASSUME DaemonAssumption ==
  /\ StreamIDs \subseteq 0 .. 4095
  /\ \A d \in Dsts : AddrOf(d) \in Seq(Nat)
  /\ \A f \in Files : Routes(f) \in Seq(Range(Routes(f)))

VARIABLES
  file, lastHup, edits,     \* the routing file, as it was at the last SIGHUP, its changes
  sigChan, term,            \* signals waiting; history: one to end was sent
  mpc,                      \* run: "wait", "load", "update", "down"
  newRouter, router,        \* routers, as the version of the file they were loaded from
  cpc,         \* connection -> "new", "accepted", "routing", "connecting", "up", "failed",
               \* "noRoute"
  dst, id,     \* connection -> its destination and StreamID
  held,        \* connection -> the router its handleTCPConn has read
  inForce,     \* history: connection -> routers in force from accept to routing
  pep,         \* connection -> the Server-PEP chosen
  dials,       \* Server-PEP: addresses being dialled, [pep, id, addr]
  sessions,    \* Server-PEP: [pep, id]
  net,         \* datagrams in flight, [to, data]
  said, heard  \* history: a packet of the client's Session, and what the server's
               \* Session was given

mainVars == <<file, lastHup, edits, sigChan, term, mpc, newRouter, router>>
connVars == <<cpc, dst, id, held, pep>>
vars == <<mainVars, connVars, inForce, dials, sessions, net, said, heard>>

Client == "client"

\* The router that is loaded from version f.
Table(f) == LoadConfig(Routes(f))

Init ==
  /\ \E f \in Files : Table(f).ok /\ file = f /\ lastHup = f /\ router = f
  /\ edits = 0 /\ sigChan = <<>> /\ term = FALSE /\ mpc = "wait" /\ newRouter = NoFile
  /\ cpc = [c \in Conns |-> "new"] /\ dst \in [Conns -> Dsts]
  /\ id \in {f \in [Conns -> StreamIDs] : \A c, d \in Conns : f[c] = f[d] => c = d}
  /\ held = [c \in Conns |-> NoFile] /\ inForce = [c \in Conns |-> {}]
  /\ pep = [c \in Conns |-> NoRoute]
  /\ dials = {} /\ sessions = {} /\ net = {}
  /\ said = [c \in Conns |-> NoPacket] /\ heard = [c \in Conns |-> NoPacket]

-----------------------------------------------------------------------------
(* run: the signal loop.                                                   *)

\* Mutant: sigChan without a buffer; a signal is lost unless the loop is waiting.
NotifyUnbuffered(sig) == sigChan' = IF mpc = "wait" /\ sigChan = <<>> THEN <<sig>> ELSE sigChan

\* signal.Notify does not block: a signal is dropped while the buffer of one is full.
Notify(sig) == sigChan' = IF sigChan = <<>> THEN <<sig>> ELSE sigChan

\* External: the file is replaced.
EditFile(f) ==
  /\ edits < Edits /\ f # file
  /\ edits' = edits + 1 /\ file' = f
  /\ UNCHANGED <<lastHup, sigChan, term, mpc, newRouter, router, connVars, inForce, dials,
                 sessions, net, said, heard>>

\* External: SIGHUP.
SendHup ==
  /\ lastHup # file
  /\ lastHup' = file /\ Notify("HUP")
  /\ UNCHANGED <<file, edits, term, mpc, newRouter, router, connVars, inForce, dials, sessions,
                 net, said, heard>>

\* External: SIGINT or SIGTERM.
SendTerm ==
  /\ ~term /\ term' = TRUE /\ Notify("TERM")
  /\ UNCHANGED <<file, lastHup, edits, mpc, newRouter, router, connVars, inForce, dials,
                 sessions, net, said, heard>>

MainTake ==
  /\ mpc = "wait" /\ sigChan # <<>>
  /\ sigChan' = <<>>
  /\ mpc' = IF Head(sigChan) = "HUP" THEN "load" ELSE "down"
  /\ UNCHANGED <<file, lastHup, edits, term, newRouter, router, connVars, inForce, dials,
                 sessions, net, said, heard>>

\* Mutant: the outcome of LoadConfig is not looked at.
MainLoadUnchecked ==
  /\ mpc = "load"
  /\ newRouter' = file /\ mpc' = "update"
  /\ UNCHANGED <<file, lastHup, edits, sigChan, term, router, connVars, inForce, dials, sessions,
                 net, said, heard>>

\* LoadConfig; a file that cannot be loaded leaves the old table.
MainLoad ==
  /\ mpc = "load"
  /\ newRouter' = file
  /\ mpc' = IF Table(file).ok THEN "update" ELSE "wait"
  /\ UNCHANGED <<file, lastHup, edits, sigChan, term, router, connVars, inForce, dials, sessions,
                 net, said, heard>>

\* UpdateRouter, under mu.
UpdateRouter ==
  /\ mpc = "update"
  /\ router' = newRouter /\ newRouter' = NoFile /\ mpc' = "wait"
  /\ inForce' = [c \in Conns |-> IF cpc[c] = "accepted" THEN inForce[c] \cup {newRouter}
                                                      ELSE inForce[c]]
  /\ UNCHANGED <<file, lastHup, edits, sigChan, term, connVars, dials, sessions, net, said, heard>>

-----------------------------------------------------------------------------
(* handleTCPConn, up to the end of the handshake.                          *)

\* The connection is accepted and its original destination found.
Accept(c) ==
  /\ mpc # "down" /\ cpc[c] = "new"
  /\ cpc' = [cpc EXCEPT ![c] = "accepted"]
  /\ inForce' = [inForce EXCEPT ![c] = {router}]
  /\ UNCHANGED <<mainVars, dst, id, held, pep, dials, sessions, net, said, heard>>

\* Mutant: LoadConfig fills the table that is in use.
ReadRouterEarly(c) ==
  /\ cpc[c] = "accepted"
  /\ cpc' = [cpc EXCEPT ![c] = "routing"]
  /\ held' = [held EXCEPT ![c] = IF mpc = "update" THEN newRouter ELSE router]
  /\ UNCHANGED <<mainVars, dst, id, pep, inForce, dials, sessions, net, said, heard>>

\* The router is read under mu.
ReadRouter(c) ==
  /\ cpc[c] = "accepted"
  /\ cpc' = [cpc EXCEPT ![c] = "routing"]
  /\ held' = [held EXCEPT ![c] = router]
  /\ UNCHANGED <<mainVars, dst, id, pep, inForce, dials, sessions, net, said, heard>>

\* The datagram of packet p, or nothing if p cannot be marshalled.
Datagrams(to, p) ==
  IF Marshal(p) = NoDatagram THEN {} ELSE {[to |-> to, data |-> Marshal(p)]}

ConnectPacket(c) == [ZeroPacket EXCEPT !.type = TypeConnect, !.id = id[c],
                                       !.addr = AddrOf(dst[c])]

\* Lookup; then CONNECT, if the destination fits in it.
RouteConn(c) ==
  LET server == Lookup(Table(held[c]), dst[c])
      sends  == Datagrams(server, ConnectPacket(c))
  IN  /\ cpc[c] = "routing"
      /\ cpc' = [cpc EXCEPT ![c] = IF server = NoRoute THEN "noRoute"
                                   ELSE IF sends = {} THEN "failed"
                                   ELSE "connecting"]
      /\ IF server = NoRoute
           THEN UNCHANGED <<pep, net>>
           ELSE pep' = [pep EXCEPT ![c] = server] /\ net' = net \cup sends
      /\ held' = [held EXCEPT ![c] = NoFile]
      /\ UNCHANGED <<mainVars, dst, id, inForce, dials, sessions, said, heard>>

\* CONNECT is repeated.
Retransmit(c) ==
  /\ cpc[c] = "connecting"
  /\ net' = net \cup Datagrams(pep[c], ConnectPacket(c))
  /\ UNCHANGED <<mainVars, connVars, inForce, dials, sessions, said, heard>>

HandshakeTimeout(c) ==
  /\ cpc[c] = "connecting"
  /\ cpc' = [cpc EXCEPT ![c] = "failed"]
  /\ UNCHANGED <<mainVars, dst, id, held, pep, inForce, dials, sessions, net, said, heard>>

-----------------------------------------------------------------------------
(* Datagrams.                                                              *)

\* ReadFrom: what does not fit in the buffer is cut off.
Read(d) == [d EXCEPT !.body = SubSeq(d.body, 1, IF Len(d.hdr) + Len(d.body) > BufSize
                                                  THEN BufSize - Len(d.hdr) ELSE Len(d.body))]

\* A data or parity shard with n bytes of payload; its bytes are their positions.
DataPacket(i, s, g, x, kind, n) ==
  [ZeroPacket EXCEPT !.type = TypeData, !.id = i, !.seq = s, !.grp = g, !.idx = x,
                     !.kind = kind, !.payload = [j \in 1 .. n |-> j]]

\* Samples of what a Session sends, at the ends of the ranges of the fields.  The largest
\* payload is a full segment with the two bytes of its length.
SessionPackets(i) ==
  LET P == [ZeroPacket EXCEPT !.id = i]
  IN  { DataPacket(i, 0, 0, 0, "data", 2), DataPacket(i, 255, 256, 1, "data", MTU - 34),
        DataPacket(i, 0, 65535, Shards - 1, "parity", MTU - 34),
        [P EXCEPT !.type = TypeNak, !.seq = 255],
        [P EXCEPT !.type = TypeLqr, !.grp = 65535, !.losses = Shards],
        [P EXCEPT !.type = TypeClose], [P EXCEPT !.type = TypeReset] }

\* sendPacketDirect or the shaper.
SessionSend(c, p) ==
  /\ cpc[c] = "up" /\ said[c] = NoPacket
  /\ said' = [said EXCEPT ![c] = p]
  /\ net' = net \cup Datagrams(pep[c], p)
  /\ UNCHANGED <<mainVars, connVars, inForce, dials, sessions, heard>>

Ack(i) == [ZeroPacket EXCEPT !.type = TypeConnAck, !.id = i]

\* udpDemuxLoop of the Server-PEP: CONNECT starts a dial or is acknowledged again, other
\* packets go to the Session.
ServerReceive(m) ==
  LET p == Unmarshal(Read(m.data))
      known == [pep |-> m.to, id |-> p.id] \in sessions
  IN  /\ m \in net /\ m.to # Client
      /\ \/ /\ p = NoPacket \/ (~known /\ p.type # TypeConnect)
            /\ net' = net \ {m} /\ UNCHANGED <<dials, heard>>
         \/ /\ p # NoPacket /\ ~known /\ p.type = TypeConnect
            /\ net' = net \ {m}
            /\ dials' = dials \cup {[pep |-> m.to, id |-> p.id, addr |-> p.addr]}
            /\ UNCHANGED heard
         \/ /\ p # NoPacket /\ known /\ p.type = TypeConnect
            /\ net' = (net \ {m}) \cup Datagrams(Client, Ack(p.id))
            /\ UNCHANGED <<dials, heard>>
         \/ /\ p # NoPacket /\ known /\ p.type # TypeConnect
            /\ net' = net \ {m}
            /\ heard' = [c \in Conns |-> IF id[c] = p.id THEN p ELSE heard[c]]
            /\ UNCHANGED dials
      /\ UNCHANGED <<mainVars, connVars, inForce, sessions, said>>

\* handleConnect: the dial succeeds.
DialOK(d) ==
  /\ d \in dials
  /\ dials' = dials \ {d}
  /\ sessions' = sessions \cup {[pep |-> d.pep, id |-> d.id]}
  /\ net' = net \cup Datagrams(Client, Ack(d.id))
  /\ UNCHANGED <<mainVars, connVars, inForce, said, heard>>

\* handleConnect: the dial fails; sendError drops a message that is too long.
DialFails(d) ==
  /\ d \in dials
  /\ dials' = dials \ {d}
  /\ \E msg \in Messages :
       net' = net \cup Datagrams(Client, [ZeroPacket EXCEPT !.type = TypeConnErr, !.id = d.id,
                                                            !.addr = msg])
  /\ UNCHANGED <<mainVars, connVars, inForce, sessions, said, heard>>

\* udpDemuxLoop of the Client-PEP: the answer goes to the handshake that waits for it.
ClientReceive(m) ==
  LET p == Unmarshal(Read(m.data))
  IN  /\ m \in net /\ m.to = Client
      /\ net' = net \ {m}
      /\ cpc' = [c \in Conns |->
                   IF cpc[c] = "connecting" /\ id[c] = p.id
                     THEN IF p.type = TypeConnAck THEN "up" ELSE "failed"
                     ELSE cpc[c]]
      /\ UNCHANGED <<mainVars, dst, id, held, pep, inForce, dials, sessions, said, heard>>

-----------------------------------------------------------------------------
Main == MainTake \/ MainLoad \/ UpdateRouter

Next ==
  \/ Main \/ SendHup \/ SendTerm \/ \E f \in Files : EditFile(f)
  \/ \E c \in Conns :
       \/ Accept(c) \/ ReadRouter(c) \/ RouteConn(c) \/ Retransmit(c) \/ HandshakeTimeout(c)
       \/ \E p \in SessionPackets(id[c]) : SessionSend(c, p)
  \/ \E m \in net : ServerReceive(m) \/ ClientReceive(m)
  \/ \E d \in dials : DialOK(d) \/ DialFails(d)

Spec == Init /\ [][Next]_vars

FairSpec == Spec /\ WF_vars(Main)

-----------------------------------------------------------------------------
(* Properties.                                                             *)

\* Marshal, the read buffer, Unmarshal: a handler of the peer is given the packet that
\* was sent, every field of it.
Intact == \A c \in Conns : heard[c] \in {NoPacket, said[c]}

\* handleConnect dials what the connection was intercepted for, at the Server-PEP that
\* was chosen for it.
DialsAsked ==
  \A d \in dials : \E c \in Conns :
    d = [pep |-> pep[c], id |-> id[c], addr |-> AddrOf(dst[c])]

\* UpdateRouter against handleTCPConn: a reload does not disturb a connection.  It goes
\* where a table says that was in force when it was accepted or until it was routed, and
\* it is refused only if one of them has no route.
RoutedByTable ==
  \A c \in Conns :
    LET routes == {Lookup(Table(r), dst[c]) : r \in inForce[c]}
    IN  /\ pep[c] # NoRoute => pep[c] \in routes
        /\ cpc[c] = "noRoute" => NoRoute \in routes

\* LoadConfig and Lookup: the table in force says what a file said that could be loaded.
LookupFollowsFile ==
  \E f \in Files : \A d \in Dsts : Lookup(Table(router), d) = RouteOf(Routes(f), d)

\* run: signals that arrive during a reload are merged, but the last change of the file
\* that was announced comes into force, unless the daemon ends or the file is bad.
ReloadInForce ==
  \A f \in Files : Table(f).ok =>
    (file = f /\ lastHup = f) ~> (router = f \/ file # f \/ mpc = "down")

\* run: a signal to end is obeyed.
TermObeyed == term ~> (mpc = "down")
=============================================================================
