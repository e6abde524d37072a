-------------------------------- MODULE Pep --------------------------------
(***************************************************************************)
(* Connections, handshakes and session tables of tcp-pep-go                *)
(* (proxy/client.go, proxy/server.go and the life cycle of a Session in    *)
(* proxy/session.go): any number of Client-PEPs, each with its own UDP     *)
(* address, and the one Server-PEP they share.                             *)
(*                                                                         *)
(* A TCP connection c that a Client-PEP intercepts stands for itself, for  *)
(* its destination (the Addr of its CONNECT) and for the client Session    *)
(* made for it.  The d-th handleConnect goroutine of the Server-PEP stands *)
(* for the TCP connection it dials and for the server Session it creates.  *)
(* The tables sessions and pendingConnects are sets of these; the key of   *)
(* an entry is the StreamID of its connection, and storing an entry drops  *)
(* the one with the same key.  What a Session transfers is in Transfer;    *)
(* here it has one bit: has the first receive block been decoded?          *)
(***************************************************************************)
EXTENDS Integers, Sequences, FiniteSets

CONSTANTS
  Clients,      \* Client-PEP processes
  Conns,        \* TCP connections opened by applications
  MaxID,        \* the largest StreamID (4095 in the code)
  MaxConnects,  \* bound: handleConnect goroutines in one behaviour
  MaxLosses,    \* bound: datagrams lost in one behaviour
  Duplicates    \* may a datagram that has arrived arrive again?

Connects == 1 .. MaxConnects
Ends     == Conns \cup Connects       \* the Sessions, by what they stand for

ASSUME PepAssumption ==
  /\ MaxID \in Nat \ {0} /\ MaxConnects \in Nat /\ MaxLosses \in Nat
  /\ Duplicates \in BOOLEAN
  /\ Conns \cap Connects = {}

VARIABLES
  \* Client-PEPs
  lastID,         \* Client-PEP -> StreamID allocated last
  cpc,            \* handleTCPConn of a connection
  home, id,       \* connection -> its Client-PEP, its StreamID
  chan,           \* connection -> content of its connect channel
  pendingConnects, csessions,
  cdel,           \* connections whose RESET the demux loop is handling
  stopped,        \* Client-PEPs after Stop
  \* Server-PEP
  dpc, dconn,     \* the handleConnect goroutines, and the connections they are for
  ssessions, sdel,
  \* Sessions, at either end
  alive,          \* context not cancelled
  reading,        \* readTCPRun is in its loop
  closeSent, closeRecv,
  heard,          \* the first receive block is decoded
  \* datagrams in flight, and the number lost
  net, lost

clientVars == <<lastID, cpc, home, id, chan, pendingConnects, csessions, cdel, stopped>>
serverVars == <<dpc, dconn, ssessions, sdel>>
endVars    == <<alive, reading, closeSent, closeRecv, heard>>
netVars    == <<net, lost>>
vars       == <<clientVars, serverVars, endVars, netVars>>

-----------------------------------------------------------------------------
(* Datagrams.  A datagram about connection c carries the StreamID id[c] and  *)
(* goes to the Server-PEP (up) or to the UDP address of home[c].             *)

Datagram(t, c, u) == [type |-> t, conn |-> c, up |-> u]
Types == {"CONNECT", "CONN_ACK", "CONN_ERR", "DATA", "CLOSE", "RESET"}

ConnOf(x) == IF x \in Conns THEN x ELSE dconn[x]

\* What Session x puts on the wire; nothing once its UDP socket is closed.
FromEnd(t, x) ==
  IF x \in Conns /\ home[x] \in stopped THEN {}
  ELSE {Datagram(t, ConnOf(x), x \in Conns)}

\* External: the UDP path.  The datagrams in flight after m has arrived.
Taken(m) == IF Duplicates THEN net ELSE net \ {m}

SameKey(c, e) == home[c] = home[e] /\ id[c] = id[e]

\* The entries of the Server-PEP's table with the StreamID of connection c.
ServerEntry(c) == {d \in ssessions : id[dconn[d]] = id[c]}

\* The Session, if any, that the demultiplexer finds for datagram m.
Target(m) ==
  IF m.up THEN ServerEntry(m.conn)
          ELSE {c \in csessions : SameKey(c, m.conn)}

\* The demultiplexer that m is for is waiting in ReadFrom.
Listening(m) ==
  IF m.up THEN sdel = {}
          ELSE home[m.conn] \notin stopped /\ \A c \in cdel : home[c] # home[m.conn]

-----------------------------------------------------------------------------
Init ==
  /\ lastID = [p \in Clients |-> 0]
  /\ cpc = [c \in Conns |-> "new"]
  /\ home \in [Conns -> Clients] /\ id = [c \in Conns |-> 0]
  /\ chan = [c \in Conns |-> "empty"]
  /\ pendingConnects = {} /\ csessions = {} /\ cdel = {} /\ stopped = {}
  /\ dpc = [d \in Connects |-> "none"] /\ dconn = <<>>
  /\ ssessions = {} /\ sdel = {}
  /\ alive = {} /\ reading = {} /\ closeSent = {} /\ closeRecv = {} /\ heard = {}
  /\ net = {} /\ lost = 0

-----------------------------------------------------------------------------
(* Client-PEP: handleTCPConn.                                              *)

\* The StreamIDs getNextStreamID may return: only IDs with a Session are taken.
FreeIDs(p) == (1 .. MaxID) \ {id[c] : c \in {e \in csessions : home[e] = p}}

\* Mutant: the StreamID after the last one, modulo their number.
NextStreamIDModulo(p) == (lastID[p] + 1) % MaxID

\* Mutant: the lowest free StreamID.
LowestStreamID(p) == CHOOSE i \in FreeIDs(p) : \A j \in FreeIDs(p) : i <= j

\* The first free StreamID in the order lastID + 1, ..., MaxID, 1, ..., lastID.
GetNextStreamID(p) ==
  CHOOSE i \in FreeIDs(p) :
    \A j \in FreeIDs(p) : (i - lastID[p] - 1) % MaxID <= (j - lastID[p] - 1) % MaxID

\* A connection is accepted, its route looked up and a StreamID allocated.
AcceptConn(c) ==
  /\ cpc[c] = "new" /\ home[c] \notin stopped
  /\ \/ /\ FreeIDs(home[c]) # {}
        /\ LET i == GetNextStreamID(home[c])
           IN  lastID' = [lastID EXCEPT ![home[c]] = i] /\ id' = [id EXCEPT ![c] = i]
        /\ cpc' = [cpc EXCEPT ![c] = "allocated"]
     \/ \* no route, or out of stream IDs
        /\ cpc' = [cpc EXCEPT ![c] = "closed"]
        /\ UNCHANGED <<lastID, id>>
  /\ UNCHANGED <<home, chan, pendingConnects, csessions, cdel, stopped,
                 serverVars, endVars, netVars>>

SendConnect(c) == net' = net \cup FromEnd("CONNECT", c) /\ UNCHANGED lost

\* The connect channel is registered and the first CONNECT sent.
StartConnect(c) ==
  /\ cpc[c] = "allocated"
  /\ cpc' = [cpc EXCEPT ![c] = "connecting"]
  /\ pendingConnects' = {e \in pendingConnects : ~SameKey(e, c)} \cup {c}
  /\ SendConnect(c)
  /\ UNCHANGED <<lastID, home, id, chan, csessions, cdel, stopped, serverVars, endVars>>

\* The ticker: retransmit CONNECT.
ResendConnect(c) ==
  /\ cpc[c] = "connecting"
  /\ SendConnect(c)
  /\ UNCHANGED <<clientVars, serverVars, endVars>>

\* No answer for 15 seconds.
HandshakeTimeout(c) ==
  /\ cpc[c] = "connecting"
  /\ cpc' = [cpc EXCEPT ![c] = "closed"]
  /\ pendingConnects' = {e \in pendingConnects : ~SameKey(e, c)}
  /\ UNCHANGED <<lastID, home, id, chan, csessions, cdel, stopped,
                 serverVars, endVars, netVars>>

\* Mutant: the channel stays registered when it has been answered.
HandleConnAnswerAgain(m) ==
  /\ m \in net /\ m.type \in {"CONN_ACK", "CONN_ERR"} /\ Listening(m)
  /\ LET waiting == {c \in pendingConnects : SameKey(c, m.conn)}
     IN  chan' = [c \in Conns |-> IF c \in waiting THEN m.type ELSE chan[c]]
  /\ net' = Taken(m)
  /\ UNCHANGED <<lastID, cpc, home, id, pendingConnects, csessions, cdel, stopped,
                 serverVars, endVars, lost>>

\* udpDemuxLoop: CONN_ACK or CONN_ERR.
HandleConnAnswer(m) ==
  /\ m \in net /\ m.type \in {"CONN_ACK", "CONN_ERR"} /\ Listening(m)
  /\ LET waiting == {c \in pendingConnects : SameKey(c, m.conn)}
     IN  /\ pendingConnects' = pendingConnects \ waiting
         /\ chan' = [c \in Conns |-> IF c \in waiting THEN m.type ELSE chan[c]]
  /\ net' = Taken(m)
  /\ UNCHANGED <<lastID, cpc, home, id, csessions, cdel, stopped,
                 serverVars, endVars, lost>>

ConnectFails(c) ==
  /\ cpc[c] = "connecting" /\ chan[c] = "CONN_ERR"
  /\ cpc' = [cpc EXCEPT ![c] = "closed"]
  /\ UNCHANGED <<lastID, home, id, chan, pendingConnects, csessions, cdel, stopped,
                 serverVars, endVars, netVars>>

\* The client Session is created, stored and started; after Stop its context is
\* cancelled from the beginning.
ConnectSucceeds(c) ==
  /\ cpc[c] = "connecting" /\ chan[c] = "CONN_ACK"
  /\ cpc' = [cpc EXCEPT ![c] = "up"]
  /\ csessions' = {e \in csessions : ~SameKey(e, c)} \cup {c}
  /\ IF home[c] \in stopped
       THEN UNCHANGED <<alive, reading>>
       ELSE alive' = alive \cup {c} /\ reading' = reading \cup {c}
  /\ UNCHANGED <<lastID, home, id, chan, pendingConnects, cdel, stopped, serverVars,
                 closeSent, closeRecv, heard, netVars>>

\* ClientPEP.Stop, or the end of the process: the UDP socket is closed first, so
\* no Session can tell its peer.
StopClient(p) ==
  LET gone == {c \in csessions : home[c] = p}
  IN  /\ p \notin stopped
      /\ stopped' = stopped \cup {p}
      /\ csessions' = csessions \ gone
      /\ alive' = alive \ {c \in Conns : home[c] = p}
      /\ reading' = reading \ {c \in Conns : home[c] = p}
      /\ cdel' = {c \in cdel : home[c] # p}
      /\ UNCHANGED <<lastID, cpc, home, id, chan, pendingConnects, serverVars,
                     closeSent, closeRecv, heard, netVars>>

-----------------------------------------------------------------------------
(* Server-PEP: udpDemuxLoop and handleConnect.                             *)

\* Mutant: the Server-PEP answers before it has dialled.
HandleConnectAtOnce(m) ==
  /\ m \in net /\ m.type = "CONNECT" /\ Listening(m)
  /\ net' = Taken(m) \cup {Datagram("CONN_ACK", m.conn, FALSE)}
  /\ UNCHANGED <<dpc, dconn, clientVars, ssessions, sdel, endVars, lost>>

\* CONNECT: dial in a new goroutine, or answer for the Session that exists.
HandleConnect(m) ==
  /\ m \in net /\ m.type = "CONNECT" /\ Listening(m)
  /\ \/ /\ Target(m) = {}
        /\ Len(dconn) < MaxConnects
        /\ dconn' = Append(dconn, m.conn)
        /\ dpc' = [dpc EXCEPT ![Len(dconn) + 1] = "dialing"]
        /\ net' = Taken(m)
     \/ /\ Target(m) # {}
        /\ net' = Taken(m) \cup {Datagram("CONN_ACK", m.conn, FALSE)}
        /\ UNCHANGED <<dpc, dconn>>
  /\ UNCHANGED <<clientVars, ssessions, sdel, endVars, lost>>

\* DialTCP succeeded: CONN_ACK is sent before the Session exists.
DialSucceeds(d) ==
  /\ dpc[d] = "dialing"
  /\ dpc' = [dpc EXCEPT ![d] = "acked"]
  /\ net' = net \cup {Datagram("CONN_ACK", dconn[d], FALSE)}
  /\ UNCHANGED <<clientVars, dconn, ssessions, sdel, endVars, lost>>

DialFails(d) ==
  /\ dpc[d] = "dialing"
  /\ dpc' = [dpc EXCEPT ![d] = "failed"]
  /\ net' = net \cup {Datagram("CONN_ERR", dconn[d], FALSE)}
  /\ UNCHANGED <<clientVars, dconn, ssessions, sdel, endVars, lost>>

\* The server Session is stored, in place of the one with its StreamID, and started.
StartServerSession(d) ==
  LET old == ServerEntry(dconn[d])
  IN  /\ dpc[d] = "acked"
      /\ dpc' = [dpc EXCEPT ![d] = "up"]
      /\ ssessions' = (ssessions \ old) \cup {d}
      /\ alive' = (alive \ old) \cup {d}
      /\ reading' = reading \cup {d}
      /\ UNCHANGED <<clientVars, dconn, sdel, closeSent, closeRecv, heard, netVars>>

\* The Server-PEP process ends and is started again.
RestartServer ==
  /\ \E d \in Connects : dpc[d] \in {"dialing", "acked", "up"}
  /\ dpc' = [d \in Connects |-> IF dpc[d] = "none" THEN "none" ELSE "failed"]
  /\ ssessions' = {} /\ sdel' = {}
  /\ alive' = alive \ Connects /\ reading' = reading \ Connects
  /\ UNCHANGED <<clientVars, dconn, closeSent, closeRecv, heard, netVars>>

-----------------------------------------------------------------------------
(* A Session at either end.                                                *)

\* Data read from the TCP connection leaves as DATA.
SendData(x) ==
  /\ x \in alive \cap reading
  /\ net' = net \cup FromEnd("DATA", x)
  /\ UNCHANGED <<clientVars, serverVars, endVars, lost>>

\* readTCPRun: end of file.
ReadEOF(x) ==
  /\ x \in alive \cap reading
  /\ reading' = reading \ {x}
  /\ UNCHANGED <<clientVars, serverVars, alive, closeSent, closeRecv, heard, netVars>>

\* readTCPRun: a read error; RESET is sent and the Session closed.
ReadError(x) ==
  /\ x \in alive \cap reading
  /\ reading' = reading \ {x} /\ alive' = alive \ {x}
  /\ net' = net \cup FromEnd("RESET", x)
  /\ UNCHANGED <<clientVars, serverVars, closeSent, closeRecv, heard, lost>>

\* readTCPRun after Close: Read fails on the closed connection and RESET is sent,
\* unless the loop sees the cancelled context first.
ReadAborted(x) ==
  /\ x \in reading \ alive
  /\ reading' = reading \ {x}
  /\ net' \in {net, net \cup FromEnd("RESET", x)}
  /\ UNCHANGED <<clientVars, serverVars, alive, closeSent, closeRecv, heard, lost>>

\* The deferred function of readTCPRun: the first CLOSE; the Session is closed if
\* the peer's CLOSE has come.
SendClose(x) ==
  /\ x \in alive \ (reading \cup closeSent)
  /\ closeSent' = closeSent \cup {x}
  /\ alive' = IF x \in closeRecv THEN alive \ {x} ELSE alive
  /\ net' = net \cup FromEnd("CLOSE", x)
  /\ UNCHANGED <<clientVars, serverVars, reading, closeRecv, heard, lost>>

\* The CLOSE goroutine is in its loop.
Repeating(x) == x \in (alive \cap closeSent) \ closeRecv

\* The ticker of the CLOSE goroutine: retransmit CLOSE.
CloseTick(x) ==
  /\ Repeating(x)
  /\ net' = net \cup FromEnd("CLOSE", x)
  /\ UNCHANGED <<clientVars, serverVars, endVars, lost>>

HandleData(m) ==
  /\ m \in net /\ m.type = "DATA" /\ Listening(m)
  /\ heard' = heard \cup Target(m)
  /\ net' = Taken(m)
  /\ UNCHANGED <<clientVars, serverVars, alive, reading, closeSent, closeRecv, lost>>

\* Mutant: only the sender of a CLOSE checks whether both sides have closed.
HandleCloseRecv(m) ==
  /\ m \in net /\ m.type = "CLOSE" /\ Listening(m)
  /\ closeRecv' = closeRecv \cup Target(m)
  /\ net' = Taken(m)
  /\ UNCHANGED <<alive, clientVars, serverVars, reading, closeSent, heard, lost>>

HandleClose(m) ==
  /\ m \in net /\ m.type = "CLOSE" /\ Listening(m)
  /\ closeRecv' = closeRecv \cup Target(m)
  /\ alive' = alive \ (Target(m) \cap closeSent)
  /\ net' = Taken(m)
  /\ UNCHANGED <<clientVars, serverVars, reading, closeSent, heard, lost>>

\* RESET: the Session is closed, and in a second critical section, DeleteReset,
\* whatever the table then holds for its StreamID is deleted.
HandleReset(m) ==
  /\ m \in net /\ m.type = "RESET" /\ Listening(m)
  /\ alive' = alive \ Target(m)
  /\ sdel' = IF m.up /\ Target(m) # {} THEN {m.conn} ELSE sdel
  /\ cdel' = IF ~m.up /\ Target(m) # {} THEN cdel \cup {m.conn} ELSE cdel
  /\ net' = Taken(m)
  /\ UNCHANGED <<lastID, cpc, home, id, chan, pendingConnects, csessions, stopped,
                 dpc, dconn, ssessions, reading, closeSent, closeRecv, heard, lost>>

DeleteResetServer ==
  /\ sdel # {} /\ sdel' = {}
  /\ ssessions' = ssessions \ UNION {ServerEntry(c) : c \in sdel}
  /\ UNCHANGED <<clientVars, dpc, dconn, endVars, netVars>>

DeleteResetClient(c) ==
  /\ c \in cdel /\ cdel' = cdel \ {c}
  /\ csessions' = {e \in csessions : ~SameKey(e, c)}
  /\ UNCHANGED <<lastID, cpc, home, id, chan, pendingConnects, stopped,
                 serverVars, endVars, netVars>>

\* Nothing keeps GetLastActive of Session x recent: neither the CLOSE goroutine nor
\* the NAKs that are sent until the first receive block is decoded.
MayIdle(x) == x \in heard /\ ~Repeating(x)

\* Mutant: only idle Sessions are removed.
CleanupIdleServer ==
  \E idle \in SUBSET {d \in ssessions : MayIdle(d)} :
    /\ idle # {}
    /\ ssessions' = ssessions \ idle /\ alive' = alive \ idle
    /\ UNCHANGED <<clientVars, dpc, dconn, sdel, reading, closeSent, closeRecv,
                   heard, netVars>>

\* cleanupLoop: close and delete the Sessions that are closed or idle.
CleanupServer ==
  \E idle \in SUBSET {d \in ssessions : MayIdle(d)} :
    LET gone == idle \cup (ssessions \ alive)
    IN  /\ gone # {}
        /\ ssessions' = ssessions \ gone /\ alive' = alive \ gone
        /\ UNCHANGED <<clientVars, dpc, dconn, sdel, reading, closeSent, closeRecv,
                       heard, netVars>>

CleanupClient(p) ==
  LET mine == {c \in csessions : home[c] = p}
  IN  /\ p \notin stopped
      /\ \E idle \in SUBSET {c \in mine : MayIdle(c)} :
           LET gone == idle \cup (mine \ alive)
           IN  /\ gone # {}
               /\ csessions' = csessions \ gone /\ alive' = alive \ gone
      /\ UNCHANGED <<lastID, cpc, home, id, chan, pendingConnects, cdel, stopped,
                     serverVars, reading, closeSent, closeRecv, heard, netVars>>

-----------------------------------------------------------------------------
Lose ==
  /\ lost < MaxLosses /\ lost' = lost + 1
  /\ \E m \in net : net' = net \ {m}
  /\ UNCHANGED <<clientVars, serverVars, endVars>>

Receive(m) ==
  \/ HandleConnAnswer(m) \/ HandleConnect(m)
  \/ HandleData(m) \/ HandleClose(m) \/ HandleReset(m)

SessionStep(x) ==
  \/ SendData(x) \/ ReadEOF(x) \/ ReadError(x) \/ ReadAborted(x)
  \/ SendClose(x) \/ CloseTick(x)

Running ==
  \/ \E c \in Conns : \/ AcceptConn(c) \/ StartConnect(c) \/ ResendConnect(c)
                       \/ HandshakeTimeout(c) \/ ConnectFails(c) \/ ConnectSucceeds(c)
                       \/ DeleteResetClient(c)
  \/ \E d \in Connects : DialSucceeds(d) \/ DialFails(d) \/ StartServerSession(d)
  \/ \E m \in net : Receive(m)
  \/ \E x \in Ends : SessionStep(x)
  \/ DeleteResetServer \/ CleanupServer \/ \E p \in Clients : CleanupClient(p)
  \/ Lose

Next == Running \/ RestartServer \/ \E p \in Clients : StopClient(p)

Spec == Init /\ [][Next]_vars

Datagrams == [type : Types, conn : Conns, up : BOOLEAN]

\* Goroutines, tickers and datagrams in flight make progress, and a dial ends.
\* Applications need not send, close or fail, nor a handshake time out, nor a PEP stop.
Fairness ==
  /\ \A m \in Datagrams : WF_vars(Receive(m))
  /\ \A c \in Conns : /\ WF_vars(StartConnect(c)) /\ WF_vars(DeleteResetClient(c))
                       /\ WF_vars(ConnectFails(c) \/ ConnectSucceeds(c))
  /\ \A d \in Connects : /\ WF_vars(DialSucceeds(d) \/ DialFails(d))
                          /\ WF_vars(StartServerSession(d))
  /\ \A x \in Ends : /\ WF_vars(ReadAborted(x)) /\ WF_vars(SendClose(x))
                      /\ WF_vars(CloseTick(x))
  /\ WF_vars(DeleteResetServer) /\ WF_vars(CleanupServer)
  /\ \A p \in Clients : WF_vars(CleanupClient(p))

RunSpec  == Init /\ [][Running]_vars

FairSpec == Spec /\ Fairness

-----------------------------------------------------------------------------
(* Properties.                                                             *)

\* Types; a connection that has been given a StreamID has one other than 0, which
\* getNextStreamID reserves.
TypeOK ==
  /\ lastID \in [Clients -> 0 .. MaxID]
  /\ cpc \in [Conns -> {"new", "allocated", "connecting", "up", "closed"}]
  /\ home \in [Conns -> Clients] /\ id \in [Conns -> 0 .. MaxID]
  /\ \A c \in Conns : cpc[c] \in {"allocated", "connecting", "up"} => id[c] # 0
  /\ chan \in [Conns -> {"empty", "CONN_ACK", "CONN_ERR"}]
  /\ pendingConnects \subseteq Conns /\ csessions \subseteq Conns
  /\ cdel \subseteq Conns /\ stopped \subseteq Clients
  /\ dpc \in [Connects -> {"none", "dialing", "acked", "up", "failed"}]
  /\ dconn \in Seq(Conns) /\ Len(dconn) <= MaxConnects
  /\ ssessions \subseteq 1 .. Len(dconn) /\ sdel \subseteq Conns
  /\ alive \subseteq Ends /\ reading \subseteq Ends
  /\ closeSent \subseteq Ends /\ closeRecv \subseteq Ends /\ heard \subseteq Ends
  /\ net \subseteq Datagrams /\ lost \in 0 .. MaxLosses

\* The demultiplexer of a Client-PEP never blocks while it holds muConnect: a
\* channel that is registered in pendingConnects has room for the answer.
RegisteredHasRoom ==
  \A c \in pendingConnects : cpc[c] = "connecting" /\ chan[c] = "empty"

\* A connection is told that it is connected only after its destination was dialled.
ConnectedIsDialled ==
  \A c \in Conns : chan[c] = "CONN_ACK" =>
    \E d \in 1 .. Len(dconn) : dconn[d] = c /\ dpc[d] # "dialing"

\* "Already connected but client retransmitted CONNECT.  Re-send CONN_ACK" (server
\* udpDemuxLoop): what a connected client Session sends reaches the Session that
\* dialled its own destination, or none.
ReachesOwnTarget ==
  \A c \in csessions \cap alive : \A d \in ServerEntry(c) : dconn[d] = c

\* StreamIDs "identify" the concurrent connections: no two handshakes or Sessions
\* of one Client-PEP have the same StreamID.
InUse(c) == cpc[c] \in {"allocated", "connecting"} \/ c \in csessions \cap alive
UniqueStreamIDs ==
  \A c, e \in Conns : c # e /\ InUse(c) /\ InUse(e) => ~SameKey(c, e)

\* "Clean up any stale session with the same StreamID if exists" (handleConnect):
\* a Session that is replaced is not the one a connected client Session uses.
ReplacedIsStale ==
  [][\A d \in Connects : StartServerSession(d) =>
       \A old \in ServerEntry(dconn[d]) \cap alive : dconn[old] \notin csessions \cap alive]_vars

\* "GetSessions returns a snapshot copy of all active server-side stream sessions":
\* every live server Session is in the table.
ActiveIsRegistered == alive \cap Connects \subseteq ssessions

\* Goroutine d dialled for connection c, and both Sessions have sent CLOSE.
BothClosing(c, d) == d <= Len(dconn) /\ dconn[d] = c /\ {c, d} \subseteq closeSent

\* When both TCP connections have ended and both PEPs have sent CLOSE, one of the
\* two Sessions is closed in the end, whatever datagrams are lost: they do not
\* wait for each other.
OneEndCloses ==
  \A c \in Conns, d \in Connects : BothClosing(c, d) ~> ~({c, d} \subseteq alive)

\* Session x is in the table of a PEP that has not stopped.
Registered(x) == x \in ssessions \cup {c \in csessions : home[c] \notin stopped}

\* cleanupLoop: a Session that is closed, whoever closed it and however the peer
\* behaves, leaves its table in the end and frees its StreamID.
ClosedIsRemoved == \A x \in Ends : (Registered(x) /\ x \notin alive) ~> ~Registered(x)

\* "Both ends close the state and the sockets of the stream" (the end of the CLOSE
\* sequence in the design document).
BothEndsClose ==
  \A c \in Conns, d \in Connects : BothClosing(c, d) ~> {c, d} \cap alive = {}

\* The connection has no client Session any more, and gets none.
Gone(c) == cpc[c] = "closed" \/ (cpc[c] = "up" /\ c \notin alive)

\* "Session idle timeout in seconds before resources are automatically cleaned
\* up": the server Session of a connection that is gone is removed in the end.
IdleIsReclaimed == \A c \in Conns : Gone(c) ~> ServerEntry(c) = {}
=============================================================================
