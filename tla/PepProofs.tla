----------------------------- MODULE PepProofs -----------------------------
(***************************************************************************)
(* Proofs about Pep, for any number of Client-PEPs, connections and        *)
(* StreamIDs.                                                              *)
(***************************************************************************)
EXTENDS Pep, FiniteSetTheorems, WellFoundedInduction, TLAPS

Phases  == {"new", "allocated", "connecting", "up", "closed"}
Answers == {"empty", "CONN_ACK", "CONN_ERR"}

\* RegisteredHasRoom is inductive together with: nobody answers a connection that
\* has not started its handshake.
WaitInv ==
  /\ cpc \in [Conns -> Phases] /\ chan \in [Conns -> Answers]
  /\ pendingConnects \subseteq Conns
  /\ RegisteredHasRoom
  /\ \A c \in Conns : cpc[c] \in {"new", "allocated"} => chan[c] = "empty"

\* A step that touches neither handleTCPConn nor pendingConnects keeps WaitInv.
LEMMA WaitKept ==
  ASSUME WaitInv, UNCHANGED <<cpc, chan, pendingConnects>>
  PROVE  WaitInv'
BY DEF WaitInv, RegisteredHasRoom

\* A connection that changes its phase without being registered keeps WaitInv.
LEMMA WaitMove ==
  ASSUME WaitInv, NEW c \in Conns, NEW ph \in Phases \ {"new"},
         cpc' = [cpc EXCEPT ![c] = ph], UNCHANGED chan,
         pendingConnects' \subseteq pendingConnects, c \notin pendingConnects',
         ph = "allocated" => chan[c] = "empty"
  PROVE  WaitInv'
<1>1. cpc' \in [Conns -> Phases] /\ pendingConnects' \subseteq Conns
  BY DEF WaitInv, Phases
<1>2. RegisteredHasRoom'
  BY <1>1 DEF WaitInv, RegisteredHasRoom
<1>3. \A e \in Conns : cpc'[e] \in {"new", "allocated"} => chan'[e] = "empty"
  BY DEF WaitInv
<1> QED
  BY <1>1, <1>2, <1>3 DEF WaitInv

\* The handshake of one connection, handleTCPConn, keeps WaitInv.
LEMMA WaitConn ==
  ASSUME WaitInv, NEW c \in Conns,
         \/ AcceptConn(c) \/ StartConnect(c) \/ HandshakeTimeout(c)
         \/ ConnectFails(c) \/ ConnectSucceeds(c)
  PROVE  WaitInv'
<1>1. CASE AcceptConn(c)
  <2>1. cpc[c] = "new" /\ UNCHANGED <<chan, pendingConnects>>
    BY <1>1 DEF AcceptConn
  <2>2. c \notin pendingConnects /\ chan[c] = "empty"
    BY <2>1 DEF WaitInv, RegisteredHasRoom
  <2>3. \E ph \in {"allocated", "closed"} : cpc' = [cpc EXCEPT ![c] = ph]
    BY <1>1 DEF AcceptConn
  <2> QED
    BY <2>1, <2>2, <2>3, WaitMove, Zenon DEF Phases
<1>2. CASE StartConnect(c)
  <2>1. /\ cpc[c] = "allocated" /\ cpc' = [cpc EXCEPT ![c] = "connecting"]
        /\ pendingConnects' \subseteq pendingConnects \cup {c} /\ chan' = chan
    BY <1>2 DEF StartConnect
  <2>2. cpc' \in [Conns -> Phases] /\ pendingConnects' \subseteq Conns /\ chan[c] = "empty"
    BY <2>1 DEF WaitInv, Phases
  <2>3. RegisteredHasRoom'
    BY <2>1, <2>2 DEF WaitInv, RegisteredHasRoom
  <2> QED
    BY <2>1, <2>2, <2>3 DEF WaitInv
<1>3. CASE HandshakeTimeout(c)
  <2>1. /\ cpc' = [cpc EXCEPT ![c] = "closed"] /\ UNCHANGED chan
        /\ pendingConnects' = {e \in pendingConnects : ~SameKey(e, c)}
    BY <1>3 DEF HandshakeTimeout
  <2>2. SameKey(c, c)
    BY DEF SameKey
  <2> QED
    BY <2>1, <2>2, WaitMove, Zenon DEF Phases
<1>4. CASE ConnectFails(c) \/ ConnectSucceeds(c)
  <2>1. chan[c] # "empty" /\ UNCHANGED <<chan, pendingConnects>>
    BY <1>4 DEF ConnectFails, ConnectSucceeds
  <2>2. c \notin pendingConnects
    BY <2>1 DEF WaitInv, RegisteredHasRoom
  <2>3. \E ph \in {"closed", "up"} : cpc' = [cpc EXCEPT ![c] = ph]
    BY <1>4 DEF ConnectFails, ConnectSucceeds
  <2> QED
    BY <2>1, <2>2, <2>3, WaitMove, Zenon DEF Phases
<1> QED
  BY <1>1, <1>2, <1>3, <1>4

\* Delivering an answer takes the channel out of pendingConnects and so keeps WaitInv.
LEMMA WaitAnswer ==
  ASSUME WaitInv, NEW m \in net, HandleConnAnswer(m)
  PROVE  WaitInv'
<1> DEFINE waiting == {c \in pendingConnects : SameKey(c, m.conn)}
<1>1. /\ pendingConnects' = pendingConnects \ waiting /\ cpc' = cpc
      /\ chan' = [c \in Conns |-> IF c \in waiting THEN m.type ELSE chan[c]]
      /\ m.type \in Answers
  BY DEF HandleConnAnswer, Answers
<1>2. \A c \in waiting : cpc[c] = "connecting"
  BY DEF WaitInv, RegisteredHasRoom
<1> HIDE DEF waiting
<1>3. chan' \in [Conns -> Answers] /\ pendingConnects' \subseteq Conns
  BY <1>1 DEF WaitInv
<1>4. RegisteredHasRoom'
  BY <1>1, <1>3 DEF WaitInv, RegisteredHasRoom
<1>5. \A c \in Conns : cpc'[c] \in {"new", "allocated"} => chan'[c] = "empty"
  BY <1>1, <1>2 DEF WaitInv
<1> QED
  BY <1>1, <1>3, <1>4, <1>5 DEF WaitInv

\* The demultiplexer of a Client-PEP never blocks on a connect channel while it
\* holds muConnect (RegisteredHasRoom), also when StreamIDs collide, answers are
\* repeated or late, and PEPs stop.
THEOREM DemuxNeverBlocks == Spec => []RegisteredHasRoom
<1>1. Init => WaitInv
  BY DEF Init, WaitInv, RegisteredHasRoom, Phases, Answers
<1>2. WaitInv /\ [Next]_vars => WaitInv'
  <2> SUFFICES ASSUME WaitInv, [Next]_vars PROVE WaitInv'
    OBVIOUS
  <2>1. CASE UNCHANGED vars
    BY <2>1, WaitKept DEF vars, clientVars
  <2>2. ASSUME NEW c \in Conns,
               \/ AcceptConn(c) \/ StartConnect(c) \/ ResendConnect(c)
               \/ HandshakeTimeout(c) \/ ConnectFails(c) \/ ConnectSucceeds(c)
               \/ DeleteResetClient(c)
        PROVE  WaitInv'
    <3>1. CASE ResendConnect(c) \/ DeleteResetClient(c)
      BY <3>1, WaitKept DEF ResendConnect, DeleteResetClient, clientVars
    <3> QED
      BY <2>2, <3>1, WaitConn
  <2>3. ASSUME NEW d \in Connects, DialSucceeds(d) \/ DialFails(d) \/ StartServerSession(d)
        PROVE  WaitInv'
    BY <2>3, WaitKept, Zenon DEF DialSucceeds, DialFails, StartServerSession, clientVars
  <2>4. ASSUME NEW m \in net, Receive(m)
        PROVE  WaitInv'
    <3>1. CASE HandleConnect(m) \/ HandleData(m) \/ HandleClose(m) \/ HandleReset(m)
      BY <3>1, WaitKept, Zenon DEF HandleConnect, HandleData, HandleClose, HandleReset, clientVars
    <3> QED
      BY <2>4, <3>1, WaitAnswer DEF Receive
  <2>5. ASSUME NEW x \in Ends, SessionStep(x)
        PROVE  WaitInv'
    BY <2>5, WaitKept DEF SessionStep, SendData, ReadEOF, ReadError, ReadAborted,
                          SendClose, CloseTick, clientVars
  <2>6. CASE DeleteResetServer \/ CleanupServer \/ Lose \/ RestartServer
    BY <2>6, WaitKept DEF DeleteResetServer, CleanupServer, Lose, RestartServer, clientVars
  <2>7. ASSUME NEW p \in Clients, CleanupClient(p) \/ StopClient(p)
        PROVE  WaitInv'
    BY <2>7, WaitKept DEF CleanupClient, StopClient
  <2> QED
    BY <2>1, <2>2, <2>3, <2>4, <2>5, <2>6, <2>7 DEF Next, Running
<1>3. WaitInv => RegisteredHasRoom
  BY DEF WaitInv
<1> QED
  BY <1>1, <1>2, <1>3, PTL DEF Spec

-----------------------------------------------------------------------------
(* Type correctness.  Beyond TypeOK, a goroutine or a Session of the       *)
(* Server-PEP belongs to a CONNECT that has come.                          *)

ClientType ==
  /\ lastID \in [Clients -> 0 .. MaxID]
  /\ cpc \in [Conns -> Phases]
  /\ home \in [Conns -> Clients] /\ id \in [Conns -> 0 .. MaxID]
  /\ \A c \in Conns : cpc[c] \in {"allocated", "connecting", "up"} => id[c] # 0
  /\ chan \in [Conns -> Answers]
  /\ pendingConnects \subseteq Conns /\ csessions \subseteq Conns
  /\ cdel \subseteq Conns /\ stopped \subseteq Clients

ServerType ==
  /\ dpc \in [Connects -> {"none", "dialing", "acked", "up", "failed"}]
  /\ dconn \in Seq(Conns) /\ Len(dconn) <= MaxConnects
  /\ \A d \in Connects : dpc[d] # "none" => d <= Len(dconn)
  /\ ssessions \subseteq 1 .. Len(dconn) /\ sdel \subseteq Conns

EndType ==
  /\ alive \subseteq Ends /\ reading \subseteq Ends
  /\ closeSent \subseteq Ends /\ closeRecv \subseteq Ends /\ heard \subseteq Ends
  /\ \A x \in alive \cup reading : x \in Conns \/ x <= Len(dconn)

NetType == net \subseteq Datagrams /\ lost \in 0 .. MaxLosses

TypeInv == ClientType /\ ServerType /\ EndType /\ NetType

\* A non-empty set of numbers has a least one.
LEMMA LeastNumber ==
  ASSUME NEW T \in SUBSET Nat, T # {}
  PROVE  \E x \in T : \A y \in T : x <= y
<1> DEFINE R == OpToRel(<, Nat)
<1>1. IsWellFoundedOn(R, Nat)
  BY NatLessThanWellFounded, Zenon
<1>2. \A x \in Nat : \A y \in Nat : y < x => <<y, x>> \in R
  BY DEF OpToRel
<1> HIDE DEF R
<1>3. PICK x \in T : \A y \in T : ~(<<y, x>> \in R)
  BY <1>1, WFMin, Zenon
<1>4. ASSUME NEW y \in T PROVE x <= y
  <2>1. x \in Nat /\ y \in Nat
    OBVIOUS
  <2>2. ~(y < x)
    BY <1>2, <1>3, <2>1, Zenon
  <2> QED
    BY <2>1, <2>2
<1> QED
  BY <1>4

\* getNextStreamID returns a free StreamID if there is one, the first after the last.
LEMMA NextStreamID ==
  ASSUME ClientType, NEW p \in Clients, FreeIDs(p) # {}
  PROVE  /\ GetNextStreamID(p) \in FreeIDs(p) /\ GetNextStreamID(p) \in 1 .. MaxID
         /\ \A j \in FreeIDs(p) : (GetNextStreamID(p) - lastID[p] - 1) % MaxID
                                 <= (j - lastID[p] - 1) % MaxID
<1> DEFINE F == FreeIDs(p)
           D(i) == (i - lastID[p] - 1) % MaxID
           T == {D(i) : i \in F}
<1>1. F \subseteq 1 .. MaxID
  BY DEF FreeIDs
<1>2. lastID[p] \in 0 .. MaxID /\ MaxID \in Nat \ {0}
  BY PepAssumption DEF ClientType
<1>3. ASSUME NEW i \in F PROVE D(i) \in Nat
  <2>1. i - lastID[p] - 1 \in Int
    BY <1>1, <1>2
  <2> QED
    BY <1>2, <2>1
<1> HIDE DEF F, D
<1>4. T \in SUBSET Nat /\ T # {}
  BY <1>3 DEF F
<1>5. PICK x \in T : \A y \in T : x <= y
  BY <1>4, LeastNumber, Zenon
<1>6. PICK i \in F : D(i) = x
  BY Zenon
<1>7. \A j \in F : D(i) <= D(j)
  BY <1>5, <1>6
<1>8. GetNextStreamID(p) = CHOOSE k \in F : \A j \in F : D(k) <= D(j)
  BY DEF GetNextStreamID, F, D
<1>9. GetNextStreamID(p) \in F /\ \A j \in F : D(GetNextStreamID(p)) <= D(j)
  BY <1>7, <1>8, Zenon
<1> QED
  BY <1>1, <1>9 DEF F, D

\* Datagrams are made of a type, a connection and a direction.
LEMMA DatagramType ==
  ASSUME NEW t \in Types, NEW c \in Conns, NEW u \in BOOLEAN
  PROVE  Datagram(t, c, u) \in Datagrams
  BY DEF Datagram, Datagrams

\* What a Session sends is a datagram about a connection.
LEMMA FromEndType ==
  ASSUME TypeInv, NEW x \in Ends, x \in Conns \/ x \in alive \cup reading,
         NEW t \in Types
  PROVE  FromEnd(t, x) \subseteq Datagrams
<1>1. ConnOf(x) \in Conns
  <2>1. CASE x \in Conns
    BY <2>1 DEF ConnOf
  <2>2. CASE x \notin Conns
    <3>1. x \in 1 .. Len(dconn)
      BY <2>2, PepAssumption DEF TypeInv, EndType, ServerType, Ends, Connects
    <3> QED
      BY <2>2, <3>1 DEF ConnOf, TypeInv, ServerType
  <2> QED
    BY <2>1, <2>2
<1>2. (x \in Conns) \in BOOLEAN
  OBVIOUS
<1>3. Datagram(t, ConnOf(x), x \in Conns) \in Datagrams
  BY <1>1, <1>2, DatagramType, Zenon
<1> QED
  BY <1>3, Zenon DEF FromEnd

\* A Session that a datagram is for exists.
LEMMA TargetType ==
  ASSUME TypeInv, NEW m
  PROVE  /\ Target(m) \subseteq Ends
         /\ \A x \in Target(m) : x \in Conns \/ x <= Len(dconn)
<1>1. ssessions \subseteq Connects /\ \A d \in ssessions : d <= Len(dconn)
  BY PepAssumption DEF TypeInv, ServerType, Connects
<1> QED
  BY <1>1 DEF Target, ServerEntry, TypeInv, ClientType, Ends

\* A datagram that arrives leaves datagrams in flight.
LEMMA TakenType ==
  ASSUME NetType, NEW m
  PROVE  Taken(m) \subseteq Datagrams
  BY DEF NetType, Taken

\* The server side, the Sessions or the datagrams unchanged keep their types.
LEMMA PartKept ==
  /\ ClientType /\ UNCHANGED clientVars => ClientType'
  /\ ServerType /\ UNCHANGED serverVars => ServerType'
  /\ EndType /\ UNCHANGED endVars /\ UNCHANGED dconn => EndType'
  /\ NetType /\ UNCHANGED netVars => NetType'
<1>1. ClientType /\ UNCHANGED clientVars => ClientType'
  BY DEF ClientType, clientVars
<1>2. ServerType /\ UNCHANGED serverVars => ServerType'
  BY DEF ServerType, serverVars
<1>3. EndType /\ UNCHANGED endVars /\ UNCHANGED dconn => EndType'
  BY DEF EndType, endVars
<1>4. NetType /\ UNCHANGED netVars => NetType'
  BY DEF NetType, netVars
<1> QED
  BY <1>1, <1>2, <1>3, <1>4

\* handleTCPConn keeps the types.
LEMMA ConnType ==
  ASSUME TypeInv, NEW c \in Conns,
         \/ AcceptConn(c) \/ StartConnect(c) \/ ResendConnect(c)
         \/ HandshakeTimeout(c) \/ ConnectFails(c) \/ ConnectSucceeds(c)
         \/ DeleteResetClient(c)
  PROVE  TypeInv'
<1>0. ClientType /\ ServerType /\ EndType /\ NetType /\ c \in Ends
  BY DEF TypeInv, Ends
<1>1. CASE AcceptConn(c)
  <2>1. UNCHANGED <<serverVars, endVars, netVars, dconn>>
    BY <1>1 DEF AcceptConn, serverVars
  <2>2. ClientType'
    <3>1. CASE FreeIDs(home[c]) # {} /\ cpc' = [cpc EXCEPT ![c] = "allocated"]
      <4> DEFINE i == GetNextStreamID(home[c])
      <4>1. i \in 1 .. MaxID /\ home[c] \in Clients
        BY <1>0, <3>1, NextStreamID DEF ClientType
      <4>2. lastID' = [lastID EXCEPT ![home[c]] = i] /\ id' = [id EXCEPT ![c] = i]
        BY <1>1, <3>1, <1>0 DEF AcceptConn, ClientType, Phases
      <4> HIDE DEF i
      <4>3. UNCHANGED <<home, chan, pendingConnects, csessions, cdel, stopped>>
        BY <1>1 DEF AcceptConn
      <4>4. i \in 0 .. MaxID /\ i # 0
        BY <4>1, PepAssumption
      <4> QED
        BY <1>0, <3>1, <4>1, <4>2, <4>3, <4>4 DEF ClientType, Phases
    <3>2. CASE cpc' = [cpc EXCEPT ![c] = "closed"] /\ UNCHANGED <<lastID, id>>
      <4>1. UNCHANGED <<home, chan, pendingConnects, csessions, cdel, stopped>>
        BY <1>1 DEF AcceptConn
      <4> QED
        BY <1>0, <3>2, <4>1 DEF ClientType, Phases
    <3> QED
      BY <1>1, <3>1, <3>2 DEF AcceptConn
  <2> QED
    BY <1>0, <2>1, <2>2, PartKept DEF TypeInv
<1>2. CASE StartConnect(c) \/ ResendConnect(c)
  <2>1. UNCHANGED <<serverVars, endVars, dconn, lost>> /\ net' = net \cup FromEnd("CONNECT", c)
    BY <1>2 DEF StartConnect, ResendConnect, SendConnect, serverVars
  <2>2. NetType'
    BY <1>0, <2>1, FromEndType DEF NetType, Types
  <2>3. CASE ResendConnect(c)
    BY <1>0, <2>1, <2>2, <2>3, PartKept DEF TypeInv, ResendConnect
  <2>4. CASE StartConnect(c)
    <3>1. ClientType'
      BY <1>0, <2>4 DEF ClientType, StartConnect, Phases
    <3> QED
      BY <1>0, <2>1, <2>2, <3>1, PartKept DEF TypeInv
  <2> QED
    BY <1>2, <2>3, <2>4
<1>3. CASE HandshakeTimeout(c) \/ ConnectFails(c) \/ DeleteResetClient(c)
  <2>1. UNCHANGED <<serverVars, endVars, netVars, dconn>>
    BY <1>3 DEF HandshakeTimeout, ConnectFails, DeleteResetClient, serverVars
  <2>2. CASE HandshakeTimeout(c)
    <3>1. ClientType'
      BY <1>0, <2>2 DEF ClientType, HandshakeTimeout, Phases
    <3> QED
      BY <1>0, <2>1, <3>1, PartKept DEF TypeInv
  <2>3. CASE ConnectFails(c)
    <3>1. ClientType'
      BY <1>0, <2>3 DEF ClientType, ConnectFails, Phases
    <3> QED
      BY <1>0, <2>1, <3>1, PartKept DEF TypeInv
  <2>4. CASE DeleteResetClient(c)
    <3>1. ClientType'
      BY <1>0, <2>4 DEF ClientType, DeleteResetClient
    <3> QED
      BY <1>0, <2>1, <3>1, PartKept DEF TypeInv
  <2> QED
    BY <1>3, <2>2, <2>3, <2>4
<1>4. CASE ConnectSucceeds(c)
  <2>1. UNCHANGED <<serverVars, netVars, dconn>>
    BY <1>4, Zenon DEF ConnectSucceeds, serverVars
  <2>2. ClientType'
    BY <1>0, <1>4 DEF ClientType, ConnectSucceeds, Phases
  <2>3. EndType'
    BY <1>0, <1>4, <2>1 DEF EndType, ConnectSucceeds
  <2> QED
    BY <1>0, <2>1, <2>2, <2>3, PartKept DEF TypeInv
<1> QED
  BY <1>1, <1>2, <1>3, <1>4

\* The goroutines of handleConnect keep the types.
LEMMA DialType ==
  ASSUME TypeInv, NEW d \in Connects,
         DialSucceeds(d) \/ DialFails(d) \/ StartServerSession(d)
  PROVE  TypeInv'
<1>0. ClientType /\ ServerType /\ EndType /\ NetType
  BY DEF TypeInv
<1>1. d \in 1 .. Len(dconn)
  <2>1. dpc[d] # "none"
    BY Zenon DEF DialSucceeds, DialFails, StartServerSession
  <2> QED
    BY <1>0, <2>1, PepAssumption DEF ServerType, Connects
<1>2. dconn[d] \in Conns
  BY <1>0, <1>1 DEF ServerType
<1>3. CASE DialSucceeds(d) \/ DialFails(d)
  <2>1. UNCHANGED <<clientVars, endVars, dconn, ssessions, sdel, lost>>
    BY <1>3, Zenon DEF DialSucceeds, DialFails
  <2>2. PICK t \in Types : net' = net \cup {Datagram(t, dconn[d], FALSE)}
    BY <1>3, Zenon DEF DialSucceeds, DialFails, Types
  <2>3. NetType'
    BY <1>0, <1>2, <2>1, <2>2, DatagramType, Zenon DEF NetType
  <2>4. PICK ph \in {"acked", "failed"} : dpc' = [dpc EXCEPT ![d] = ph]
    BY <1>3, Zenon DEF DialSucceeds, DialFails
  <2>5. ServerType'
    BY <1>0, <1>1, <2>1, <2>4 DEF ServerType
  <2> QED
    BY <1>0, <2>1, <2>3, <2>5, PartKept DEF TypeInv
<1>4. CASE StartServerSession(d)
  <2>1. UNCHANGED <<clientVars, dconn, sdel, closeSent, closeRecv, heard, netVars>>
    BY <1>4 DEF StartServerSession
  <2>2. /\ dpc' = [dpc EXCEPT ![d] = "up"] /\ ssessions' \subseteq ssessions \cup {d}
        /\ alive' \subseteq alive \cup {d} /\ reading' \subseteq reading \cup {d}
    BY <1>4 DEF StartServerSession
  <2>3. ServerType'
    BY <1>0, <1>1, <2>1, <2>2 DEF ServerType
  <2>4. EndType'
    BY <1>0, <1>1, <2>1, <2>2 DEF EndType, Ends
  <2> QED
    BY <1>0, <2>1, <2>3, <2>4, PartKept DEF TypeInv
<1> QED
  BY <1>3, <1>4

\* The demultiplexers keep the types.
LEMMA ReceiveType ==
  ASSUME TypeInv, NEW m \in net, Receive(m)
  PROVE  TypeInv'
<1>0. /\ ClientType /\ ServerType /\ EndType /\ NetType
      /\ m.conn \in Conns /\ Taken(m) \subseteq Datagrams
  BY TakenType DEF TypeInv, NetType, Datagrams
<1>1. CASE HandleConnAnswer(m)
  <2>1. UNCHANGED <<lastID, cpc, home, id, csessions, cdel, stopped, serverVars, endVars, dconn>>
    BY <1>1 DEF HandleConnAnswer, serverVars
  <2>2. pendingConnects' \subseteq Conns /\ chan' \in [Conns -> Answers]
    BY <1>0, <1>1 DEF HandleConnAnswer, ClientType, Answers
  <2>3. ClientType'
    BY <1>0, <2>1, <2>2 DEF ClientType
  <2>4. NetType'
    BY <1>0, <1>1 DEF NetType, HandleConnAnswer
  <2> QED
    BY <1>0, <2>1, <2>3, <2>4, PartKept DEF TypeInv
<1>2. CASE HandleConnect(m)
  <2>1. UNCHANGED <<clientVars, ssessions, sdel, endVars, lost>>
    BY <1>2 DEF HandleConnect
  <2>2. Datagram("CONN_ACK", m.conn, FALSE) \in Datagrams
    BY <1>0, DatagramType, Zenon DEF Types
  <2>3. NetType'
    BY <1>0, <1>2, <2>1, <2>2, Zenon DEF NetType, HandleConnect
  <2>4. CASE UNCHANGED <<dpc, dconn>>
    BY <1>0, <2>1, <2>3, <2>4, PartKept DEF TypeInv, serverVars
  <2>5. CASE /\ Len(dconn) < MaxConnects /\ dconn' = Append(dconn, m.conn)
             /\ dpc' = [dpc EXCEPT ![Len(dconn) + 1] = "dialing"]
    <3>1. /\ dconn' \in Seq(Conns) /\ Len(dconn) \in Nat /\ Len(dconn') = Len(dconn) + 1
          /\ Len(dconn') <= MaxConnects
      BY <1>0, <2>5, PepAssumption DEF ServerType
    <3>2. ASSUME NEW d \in Connects, dpc'[d] # "none" PROVE d <= Len(dconn')
      <4>1. d = Len(dconn) + 1 \/ dpc[d] # "none"
        BY <1>0, <2>5, <3>2 DEF ServerType
      <4>2. d \in Nat /\ (d = Len(dconn) + 1 \/ d <= Len(dconn))
        BY <1>0, <4>1, PepAssumption DEF ServerType, Connects
      <4> QED
        BY <3>1, <4>2
    <3>3. ServerType'
      <4>1. dpc' \in [Connects -> {"none", "dialing", "acked", "up", "failed"}]
        BY <1>0, <2>5, Zenon DEF ServerType
      <4>2. ssessions' \subseteq 1 .. Len(dconn') /\ sdel' \subseteq Conns
        BY <1>0, <2>1, <3>1 DEF ServerType
      <4> QED
        BY <3>1, <3>2, <4>1, <4>2 DEF ServerType
    <3>4. ASSUME NEW x \in alive \cup reading PROVE x \in Conns \/ x <= Len(dconn')
      <4>1. x \in Conns \/ (x \in Nat /\ x <= Len(dconn))
        BY <1>0, PepAssumption DEF EndType, Ends, Connects
      <4> QED
        BY <3>1, <4>1
    <3>5. EndType'
      BY <1>0, <2>1, <3>4 DEF EndType, endVars
    <3> QED
      BY <1>0, <2>1, <2>3, <3>3, <3>5, PartKept DEF TypeInv
  <2> QED
    BY <1>2, <2>4, <2>5, Zenon DEF HandleConnect
<1>3. CASE HandleData(m) \/ HandleClose(m)
  <2>1. UNCHANGED <<clientVars, serverVars, dconn, lost>> /\ net' = Taken(m)
    BY <1>3 DEF HandleData, HandleClose, serverVars
  <2>2. NetType'
    BY <1>0, <2>1 DEF NetType
  <2>3. EndType'
    BY <1>0, <1>3, <2>1, TargetType DEF EndType, HandleData, HandleClose
  <2> QED
    BY <1>0, <2>1, <2>2, <2>3, PartKept DEF TypeInv
<1>4. CASE HandleReset(m)
  <2>1. /\ UNCHANGED <<lastID, cpc, home, id, chan, pendingConnects, csessions, stopped>>
        /\ UNCHANGED <<dpc, dconn, ssessions, reading, closeSent, closeRecv, heard, lost>>
        /\ net' = Taken(m) /\ alive' \subseteq alive
        /\ sdel' \subseteq sdel \cup {m.conn} /\ cdel' \subseteq cdel \cup {m.conn}
    BY <1>4 DEF HandleReset
  <2>2. ClientType'
    BY <1>0, <2>1 DEF ClientType
  <2>3. ServerType'
    BY <1>0, <2>1 DEF ServerType
  <2>4. EndType'
    BY <1>0, <2>1 DEF EndType
  <2>5. NetType'
    BY <1>0, <2>1 DEF NetType
  <2> QED
    BY <2>2, <2>3, <2>4, <2>5 DEF TypeInv
<1> QED
  BY <1>1, <1>2, <1>3, <1>4 DEF Receive

\* A Session keeps the types.
LEMMA SessionType ==
  ASSUME TypeInv, NEW x \in Ends, SessionStep(x)
  PROVE  TypeInv'
<1>0. ClientType /\ ServerType /\ EndType /\ NetType
  BY DEF TypeInv
<1>1. /\ UNCHANGED <<clientVars, serverVars, dconn, closeRecv, heard, lost>>
      /\ x \in alive \cup reading
      /\ alive' \subseteq alive /\ reading' \subseteq reading /\ closeSent' \subseteq closeSent \cup {x}
  BY DEF SessionStep, SendData, ReadEOF, ReadError, ReadAborted, SendClose, CloseTick,
         Repeating, endVars, netVars, serverVars
<1>2. \E t \in Types : net' \in {net, net \cup FromEnd(t, x)}
  BY DEF SessionStep, SendData, ReadEOF, ReadError, ReadAborted, SendClose, CloseTick, netVars,
         Types
<1>3. NetType'
  BY <1>0, <1>1, <1>2, FromEndType DEF NetType
<1>4. EndType'
  BY <1>0, <1>1 DEF EndType
<1> QED
  BY <1>0, <1>1, <1>3, <1>4, PartKept DEF TypeInv

\* Every step keeps the types.
LEMMA TypeStep == TypeInv /\ [Next]_vars => TypeInv'
<1> SUFFICES ASSUME TypeInv, [Next]_vars PROVE TypeInv'
  OBVIOUS
<1>0. ClientType /\ ServerType /\ EndType /\ NetType
  BY DEF TypeInv
<1>1. CASE UNCHANGED vars
  BY <1>0, <1>1, PartKept DEF TypeInv, vars, serverVars
<1>2. CASE DeleteResetServer \/ CleanupServer \/ RestartServer
  <2>1. /\ UNCHANGED <<clientVars, dconn, closeSent, closeRecv, heard, netVars>>
        /\ ssessions' \subseteq ssessions /\ sdel' \subseteq sdel
        /\ alive' \subseteq alive /\ reading' \subseteq reading
    BY <1>2 DEF DeleteResetServer, CleanupServer, RestartServer, endVars
  <2>2. /\ dpc' \in [Connects -> {"none", "dialing", "acked", "up", "failed"}]
        /\ \A d \in Connects : dpc'[d] # "none" => dpc[d] # "none"
    BY <1>0, <1>2 DEF DeleteResetServer, CleanupServer, RestartServer, ServerType
  <2>3. ServerType'
    BY <1>0, <2>1, <2>2 DEF ServerType
  <2>4. EndType'
    BY <1>0, <2>1 DEF EndType
  <2> QED
    BY <1>0, <2>1, <2>3, <2>4, PartKept DEF TypeInv
<1>3. CASE \E p \in Clients : CleanupClient(p) \/ StopClient(p)
  <2>1. /\ UNCHANGED <<serverVars, dconn, closeSent, closeRecv, heard, netVars>>
        /\ UNCHANGED <<lastID, cpc, home, id, chan, pendingConnects>>
        /\ csessions' \subseteq csessions /\ cdel' \subseteq cdel
        /\ stopped' \subseteq Clients
        /\ alive' \subseteq alive /\ reading' \subseteq reading
    BY <1>0, <1>3 DEF CleanupClient, StopClient, serverVars, ClientType
  <2>2. ClientType'
    BY <1>0, <2>1 DEF ClientType
  <2>3. EndType'
    BY <1>0, <2>1 DEF EndType
  <2> QED
    BY <1>0, <2>1, <2>2, <2>3, PartKept DEF TypeInv
<1>4. CASE Lose
  <2>1. UNCHANGED <<clientVars, serverVars, dconn, endVars>>
    BY <1>4 DEF Lose, serverVars
  <2>2. NetType'
    BY <1>0, <1>4, PepAssumption DEF Lose, NetType
  <2> QED
    BY <1>0, <2>1, <2>2, PartKept DEF TypeInv
<1> QED
  BY <1>1, <1>2, <1>3, <1>4, ConnType, DialType, ReceiveType, SessionType DEF Next, Running

\* The types hold at first.
LEMMA InitType == Init => TypeInv
<1> SUFFICES ASSUME Init PROVE TypeInv
  OBVIOUS
<1>1. ClientType
  BY PepAssumption DEF Init, ClientType, Phases, Answers
<1>2. ServerType
  <2>1. dconn = <<>> /\ Len(dconn) = 0 /\ dconn \in Seq(Conns)
    BY DEF Init
  <2> QED
    BY <2>1, PepAssumption DEF Init, ServerType
<1>3. EndType /\ NetType
  BY PepAssumption DEF Init, EndType, NetType
<1> QED
  BY <1>1, <1>2, <1>3 DEF TypeInv

\* Type correctness of the PEPs (TypeOK), for any number of Client-PEPs, connections and
\* StreamIDs, also when PEPs stop and restart: no connection that is being connected or
\* is up has the reserved StreamID 0, and the server's table holds only Sessions of
\* connections that were asked for.
THEOREM PepTypes == Spec => []TypeOK
<1>1. TypeInv => TypeOK
  BY DEF TypeInv, ClientType, ServerType, EndType, NetType, TypeOK, Phases, Answers
<1> QED
  BY <1>1, InitType, TypeStep, PTL DEF Spec

-----------------------------------------------------------------------------
(* One Client-PEP that gives out no StreamID twice: the StreamIDs tell the *)
(* connections apart.                                                      *)

\* The connections that have been given a StreamID.
Used == {c \in Conns : id[c] # 0}

\* StreamIDs are given out in order, none twice.
IDInv(p) ==
  /\ \A c \in Conns : cpc[c] = "new" => id[c] = 0
  /\ lastID[p] = Cardinality(Used)
  /\ \A c \in Used : id[c] <= lastID[p]
  /\ \A c, e \in Used : id[c] = id[e] => c = e

\* The first branch of AcceptConn.
Allocates(c) ==
  /\ cpc[c] = "new" /\ FreeIDs(home[c]) # {}
  /\ lastID' = [lastID EXCEPT ![home[c]] = GetNextStreamID(home[c])]
  /\ id' = [id EXCEPT ![c] = GetNextStreamID(home[c])]
  /\ cpc' = [cpc EXCEPT ![c] = "allocated"]

\* Only AcceptConn gives out StreamIDs, and only to new connections.
LEMMA IDSteps ==
  ASSUME TypeInv, [Next]_vars
  PROVE  \/ /\ UNCHANGED <<id, lastID>>
            /\ \A c \in Conns : cpc'[c] = "new" => cpc[c] = "new"
         \/ \E c \in Conns : Allocates(c)
<1>0. cpc \in [Conns -> Phases]
  BY DEF TypeInv, ClientType
<1>1. CASE UNCHANGED <<id, lastID, cpc>>
  BY <1>1
<1>2. ASSUME NEW c \in Conns, AcceptConn(c)
      PROVE  Allocates(c) \/ (cpc' = [cpc EXCEPT ![c] = "closed"] /\ UNCHANGED <<id, lastID>>)
  BY <1>2 DEF AcceptConn, Allocates
<1>3. ASSUME NEW c \in Conns, StartConnect(c) \/ HandshakeTimeout(c) \/ ConnectFails(c) \/ ConnectSucceeds(c)
      PROVE  UNCHANGED <<id, lastID>> /\ \E ph \in Phases \ {"new"} : cpc' = [cpc EXCEPT ![c] = ph]
  <2>1. UNCHANGED <<id, lastID>>
    BY <1>3 DEF StartConnect, HandshakeTimeout, ConnectFails, ConnectSucceeds
  <2>2. cpc' \in {[cpc EXCEPT ![c] = "connecting"], [cpc EXCEPT ![c] = "closed"], [cpc EXCEPT ![c] = "up"]}
    BY <1>3 DEF StartConnect, HandshakeTimeout, ConnectFails, ConnectSucceeds
  <2> QED
    BY <2>1, <2>2 DEF Phases
<1>4. ASSUME NEW c \in Conns, NEW ph \in Phases \ {"new"}, cpc' = [cpc EXCEPT ![c] = ph]
      PROVE  \A e \in Conns : cpc'[e] = "new" => cpc[e] = "new"
  BY <1>0, <1>4
<1>5. ASSUME NEW c \in Conns,
             \/ AcceptConn(c) \/ StartConnect(c) \/ ResendConnect(c)
             \/ HandshakeTimeout(c) \/ ConnectFails(c) \/ ConnectSucceeds(c)
             \/ DeleteResetClient(c)
      PROVE  \/ /\ UNCHANGED <<id, lastID>>
                /\ \A e \in Conns : cpc'[e] = "new" => cpc[e] = "new"
             \/ Allocates(c)
  <2>1. CASE AcceptConn(c)
    BY <1>2, <1>4, <2>1 DEF Phases
  <2>2. CASE StartConnect(c) \/ HandshakeTimeout(c) \/ ConnectFails(c) \/ ConnectSucceeds(c)
    BY <1>3, <1>4, <2>2, Zenon
  <2>3. CASE ResendConnect(c) \/ DeleteResetClient(c)
    BY <2>3 DEF ResendConnect, DeleteResetClient, clientVars
  <2> QED
    BY <1>5, <2>1, <2>2, <2>3
<1>6. CASE \/ \E d \in Connects : DialSucceeds(d) \/ DialFails(d) \/ StartServerSession(d)
           \/ \E m \in net : Receive(m)
           \/ \E x \in Ends : SessionStep(x)
  <2>1. UNCHANGED <<id, lastID, cpc>>
    BY <1>6, Zenon DEF DialSucceeds, DialFails, StartServerSession, Receive, HandleConnAnswer, HandleConnect,
                HandleData, HandleClose, HandleReset, SessionStep, SendData, ReadEOF, ReadError,
                ReadAborted, SendClose, CloseTick, clientVars
  <2> QED
    BY <1>1, <2>1
<1>7. CASE \/ DeleteResetServer \/ CleanupServer \/ RestartServer \/ Lose
           \/ \E p \in Clients : CleanupClient(p) \/ StopClient(p)
  <2>1. UNCHANGED <<id, lastID, cpc>>
    BY <1>7, Zenon DEF DeleteResetServer, CleanupServer, RestartServer, Lose, CleanupClient, StopClient,
                clientVars
  <2> QED
    BY <1>1, <2>1
<1> QED
  BY <1>1, <1>5, <1>6, <1>7 DEF Next, Running, vars, clientVars

\* A multiple of S that is nearer to 0 than S is 0.
LEMMA NoMultiple ==
  ASSUME NEW S \in Nat \ {0}, NEW x \in Int, -S < x, x < S, x % S = 0
  PROVE  x = 0
<1>1. x \div S \in Int /\ x = (x \div S) * S + (x % S)
  OBVIOUS
<1> DEFINE q == x \div S
<1>2. q \in Int /\ x = q * S
  BY <1>1
<1> HIDE DEF q
<1>3. CASE q >= 1
  <2>1. (q - 1) * S >= 0
    BY <1>3, <1>2
  <2> QED
    BY <1>2, <2>1
<1>4. CASE q <= -1
  <2>1. (-q - 1) * S >= 0
    BY <1>2, <1>4
  <2>2. (-q - 1) * S = -(q * S) - S
    BY <1>2
  <2> QED
    BY <1>2, <2>1, <2>2
<1>5. CASE q = 0
  BY <1>2, <1>5
<1> QED
  BY <1>2, <1>3, <1>4, <1>5

\* getNextStreamID returns the number after the last as long as none is given out twice.
LEMMA NextIsFresh ==
  ASSUME ClientType, NEW p \in Clients, IDInv(p), lastID[p] < MaxID
  PROVE  FreeIDs(p) # {} /\ GetNextStreamID(p) = lastID[p] + 1
<1> DEFINE l == lastID[p]
           i == GetNextStreamID(p)
<1>0. l \in Nat /\ l < MaxID /\ MaxID \in Nat \ {0} /\ l + 1 \in 1 .. MaxID
  BY PepAssumption DEF ClientType
<1>1. \A c \in csessions : id[c] # l + 1
  <2> SUFFICES ASSUME NEW c \in csessions, id[c] = l + 1 PROVE FALSE
    OBVIOUS
  <2>1. c \in Used
    BY <1>0 DEF Used, ClientType
  <2>2. id[c] <= l
    BY <2>1 DEF IDInv
  <2> QED
    BY <1>0, <2>2
<1>2. l + 1 \in FreeIDs(p)
  BY <1>0, <1>1 DEF FreeIDs
<1> DEFINE D(j) == (j - l - 1) % MaxID
<1>3. i \in 1 .. MaxID /\ \A j \in FreeIDs(p) : D(i) <= D(j)
  BY <1>2, NextStreamID, Zenon
<1>4. D(l + 1) = 0
  <2> DEFINE z == (l + 1) - l - 1
  <2>1. z = 0
    BY <1>0
  <2>2. D(l + 1) = z % MaxID
    BY Zenon
  <2> HIDE DEF z, D
  <2> QED
    BY <1>0, <2>1, <2>2
<1> HIDE DEF l, i
<1> DEFINE x == i - l - 1
<1>5. x \in Int /\ -MaxID < x /\ x < MaxID
  BY <1>0, <1>3
<1>6. x % MaxID <= 0
  <2>1. D(i) = x % MaxID
    OBVIOUS
  <2> HIDE DEF D, x
  <2>2. D(i) <= D(l + 1)
    BY <1>2, <1>3, Zenon DEF l
  <2> QED
    BY <1>4, <2>1, <2>2
<1>7. x % MaxID = 0
  <2> HIDE DEF x
  <2>1. x % MaxID \in Nat
    BY <1>0, <1>5
  <2> QED
    BY <1>6, <2>1
<1>8. x = 0
  <2> HIDE DEF x
  <2> QED
    BY <1>0, <1>5, <1>7, NoMultiple
<1>9. i = l + 1
  BY <1>0, <1>3, <1>8
<1> QED
  BY <1>2, <1>9 DEF l, i

\* The scope of this section: one Client-PEP, and a StreamID for each of its connections.
OneClient(p) == /\ Clients = {p} /\ IsFiniteSet(Conns) /\ Cardinality(Conns) <= MaxID

\* Every step keeps IDInv.
LEMMA IDStep ==
  ASSUME NEW p, OneClient(p), TypeInv, IDInv(p), [Next]_vars
  PROVE  IDInv(p)'
<1>1. CASE /\ UNCHANGED <<id, lastID>>
           /\ \A c \in Conns : cpc'[c] = "new" => cpc[c] = "new"
  <2>1. Used' = Used
    BY <1>1 DEF Used
  <2> QED
    BY <1>1, <2>1 DEF IDInv
<1>2. ASSUME NEW c \in Conns, Allocates(c)
      PROVE  IDInv(p)'
  <2>0. /\ ClientType /\ p \in Clients /\ home[c] = p
        /\ id \in [Conns -> 0 .. MaxID] /\ lastID \in [Clients -> 0 .. MaxID]
        /\ cpc \in [Conns -> Phases]
    BY DEF TypeInv, ClientType, OneClient
  <2>1. id[c] = 0 /\ c \notin Used /\ Used \in SUBSET Conns
    BY <1>2 DEF Allocates, IDInv, Used
  <2>2. IsFiniteSet(Used) /\ Cardinality(Used) \in Nat
    BY <2>1, FS_Subset, FS_CardinalityType DEF OneClient
  <2>3. Cardinality(Used \cup {c}) = Cardinality(Used) + 1 /\ IsFiniteSet(Used \cup {c})
    BY <2>1, <2>2, FS_AddElement
  <2>4. Cardinality(Used \cup {c}) <= Cardinality(Conns) /\ Cardinality(Conns) \in Nat
    <3>1. Used \cup {c} \in SUBSET Conns
      BY <2>1
    <3> QED
      BY <3>1, FS_Subset, FS_CardinalityType DEF OneClient
  <2>5. lastID[p] = Cardinality(Used) /\ lastID[p] < MaxID
    <3>1. lastID[p] = Cardinality(Used)
      BY DEF IDInv
    <3> QED
      BY <2>2, <2>3, <2>4, <3>1, PepAssumption DEF OneClient
  <2> DEFINE n == lastID[p] + 1
  <2>6. GetNextStreamID(p) = n
    BY <2>0, <2>5, NextIsFresh
  <2>7. n \in Nat /\ n # 0 /\ n <= MaxID /\ lastID[p] \in Nat
    BY <2>2, <2>5, PepAssumption
  <2>8. /\ lastID'[p] = n /\ id'[c] = n
        /\ \A e \in Conns : e # c => id'[e] = id[e]
    BY <1>2, <2>0, <2>6 DEF Allocates
  <2> HIDE DEF n
  <2>9. Used' = Used \cup {c}
    BY <2>1, <2>7, <2>8 DEF Used
  <2>10. \A e \in Conns : cpc'[e] = "new" => id'[e] = 0
    BY <1>2, <2>0, <2>8 DEF Allocates, IDInv
  <2>11. \A e \in Used : id[e] \in Nat /\ id[e] <= lastID[p] /\ e # c /\ e \in Conns
    BY <2>0, <2>1, PepAssumption DEF IDInv, Used
  <2>12. \A e \in Used : id'[e] = id[e] /\ id[e] < n
    BY <2>7, <2>8, <2>11 DEF n
  <2>13. lastID'[p] = Cardinality(Used')
    BY <2>3, <2>5, <2>8, <2>9 DEF n
  <2>14. ASSUME NEW e \in Used' PROVE id'[e] <= lastID'[p]
    BY <2>7, <2>8, <2>9, <2>11, <2>12
  <2>15. ASSUME NEW e \in Used', NEW f \in Used', id'[e] = id'[f] PROVE e = f
    <3>1. CASE e = c
      BY <2>7, <2>8, <2>9, <2>11, <2>12, <2>15, <3>1
    <3>2. CASE f = c
      BY <2>7, <2>8, <2>9, <2>11, <2>12, <2>15, <3>2
    <3>3. CASE e # c /\ f # c
      BY <2>9, <2>12, <2>15, <3>3 DEF IDInv
    <3> QED
      BY <3>1, <3>2, <3>3
  <2> QED
    BY <2>10, <2>13, <2>14, <2>15, Zenon DEF IDInv
<1> QED
  BY <1>1, <1>2, IDSteps

\* The connections that tables, Sessions and datagrams are about.
Known(c) ==
  \/ c \in pendingConnects \/ c \in csessions \/ c \in cdel \/ c \in sdel
  \/ c \in alive \/ c \in reading
  \/ \E d \in 1 .. Len(dconn) : dconn[d] = c
  \/ \E m \in net : m.conn = c

KnownInv == \A c \in Conns : Known(c) => id[c] # 0

\* What a Session sends is about its connection.
LEMMA FromEndKnown ==
  ASSUME TypeInv, NEW x \in Ends, x \in alive \cup reading, NEW t, NEW m \in FromEnd(t, x)
  PROVE  m.type = t /\ m.conn \in Conns /\ Known(m.conn)
<1>1. m = Datagram(t, ConnOf(x), x \in Conns)
  BY Zenon DEF FromEnd
<1>2. m.type = t /\ m.conn = ConnOf(x)
  BY <1>1 DEF Datagram
<1>3. CASE x \in Conns
  BY <1>2, <1>3 DEF ConnOf, Known
<1>4. CASE x \notin Conns
  <2>1. x \in 1 .. Len(dconn) /\ dconn \in Seq(Conns)
    BY <1>4, PepAssumption DEF TypeInv, EndType, ServerType, Ends, Connects
  <2> QED
    BY <1>2, <1>4, <2>1 DEF ConnOf, Known
<1> QED
  BY <1>3, <1>4

\* Nothing new is known when nothing is added.
LEMMA KnownLess ==
  ASSUME NEW c, Known(c)',
         pendingConnects' \subseteq pendingConnects, csessions' \subseteq csessions,
         cdel' \subseteq cdel, sdel' \subseteq sdel, alive' \subseteq alive,
         reading' \subseteq reading, dconn' = dconn, net' \subseteq net
  PROVE  Known(c)
  BY Zenon DEF Known

\* Only the handshake of a connection makes it known.
LEMMA KnownSteps ==
  ASSUME TypeInv, [Next]_vars, NEW c \in Conns, Known(c)'
  PROVE  Known(c) \/ cpc[c] \in {"allocated", "connecting"}
<1>0. TypeInv /\ ClientType /\ ServerType /\ EndType /\ NetType
  BY DEF TypeInv
<1>1. ASSUME NEW e \in Conns, StartConnect(e) \/ ResendConnect(e)
      PROVE  Known(c) \/ cpc[c] \in {"allocated", "connecting"}
  <2>1. /\ cpc[e] \in {"allocated", "connecting"}
        /\ pendingConnects' \subseteq pendingConnects \cup {e} /\ net' = net \cup FromEnd("CONNECT", e)
        /\ UNCHANGED <<csessions, cdel, sdel, alive, reading, dconn>>
    BY <1>1 DEF StartConnect, ResendConnect, SendConnect, clientVars, serverVars, endVars
  <2>2. \A m \in FromEnd("CONNECT", e) : m.conn = e
    BY DEF FromEnd, Datagram, ConnOf
  <2> QED
    BY <2>1, <2>2 DEF Known
<1>2. ASSUME NEW e \in Conns, ConnectSucceeds(e)
      PROVE  Known(c) \/ cpc[c] \in {"allocated", "connecting"}
  <2>1. /\ cpc[e] = "connecting"
        /\ csessions' \subseteq csessions \cup {e} /\ alive' \subseteq alive \cup {e}
        /\ reading' \subseteq reading \cup {e}
        /\ UNCHANGED <<pendingConnects, cdel, sdel, dconn, net>>
    BY <1>2 DEF ConnectSucceeds, serverVars, netVars
  <2> QED
    BY <2>1, Zenon DEF Known
<1>3. ASSUME NEW e \in Conns,
             AcceptConn(e) \/ HandshakeTimeout(e) \/ ConnectFails(e) \/ DeleteResetClient(e)
      PROVE  Known(c)
  <2>1. /\ pendingConnects' \subseteq pendingConnects /\ csessions' \subseteq csessions
        /\ cdel' \subseteq cdel /\ UNCHANGED <<sdel, alive, reading, dconn, net>>
    BY <1>3, Zenon DEF AcceptConn, HandshakeTimeout, ConnectFails, DeleteResetClient, serverVars, endVars,
                netVars
  <2> QED
    BY <2>1, KnownLess
<1>4. ASSUME NEW d \in Connects, DialSucceeds(d) \/ DialFails(d)
      PROVE  Known(c)
  <2>1. d \in 1 .. Len(dconn)
    <3>1. dpc[d] # "none"
      BY <1>4, Zenon DEF DialSucceeds, DialFails
    <3> QED
      BY <1>0, <3>1, PepAssumption DEF ServerType, Connects
  <2>2. PICK t : net' = net \cup {Datagram(t, dconn[d], FALSE)}
    BY <1>4, Zenon DEF DialSucceeds, DialFails
  <2>3. Datagram(t, dconn[d], FALSE).conn = dconn[d]
    BY DEF Datagram
  <2>4. UNCHANGED <<pendingConnects, csessions, cdel, sdel, alive, reading, dconn>>
    BY <1>4, Zenon DEF DialSucceeds, DialFails, clientVars, endVars
  <2> QED
    BY <2>1, <2>2, <2>3, <2>4, Zenon DEF Known
<1>5. ASSUME NEW d \in Connects, StartServerSession(d)
      PROVE  Known(c)
  <2>1. /\ UNCHANGED <<pendingConnects, csessions, cdel, sdel, dconn, net>>
        /\ alive' \subseteq alive \cup {d} /\ reading' \subseteq reading \cup {d}
    BY <1>5, Zenon DEF StartServerSession, clientVars, netVars
  <2>2. c # d
    BY PepAssumption
  <2> QED
    BY <2>1, <2>2 DEF Known
<1>6. ASSUME NEW m \in net, Receive(m)
      PROVE  Known(c)
  <2>0. Taken(m) \subseteq net
    BY DEF Taken
  <2>1. CASE HandleConnAnswer(m) \/ HandleData(m) \/ HandleClose(m)
    <3>1. /\ pendingConnects' \subseteq pendingConnects /\ alive' \subseteq alive /\ net' = Taken(m)
          /\ UNCHANGED <<csessions, cdel, sdel, reading, dconn>>
      BY <2>1 DEF HandleConnAnswer, HandleData, HandleClose, clientVars, serverVars, endVars
    <3> QED
      BY <2>0, <3>1, KnownLess
  <2>2. CASE HandleReset(m)
    <3>1. /\ alive' \subseteq alive /\ net' = Taken(m)
          /\ sdel' \subseteq sdel \cup {m.conn} /\ cdel' \subseteq cdel \cup {m.conn}
          /\ UNCHANGED <<pendingConnects, csessions, reading, dconn>>
      BY <2>2 DEF HandleReset
    <3> QED
      BY <2>0, <3>1 DEF Known
  <2>3. CASE HandleConnect(m)
    <3>1. /\ UNCHANGED <<pendingConnects, csessions, cdel, sdel, alive, reading>>
          /\ net' \subseteq net \cup {Datagram("CONN_ACK", m.conn, FALSE)}
          /\ dconn' \in {dconn, Append(dconn, m.conn)}
      BY <2>0, <2>3, Zenon DEF HandleConnect, clientVars, endVars
    <3>2. Datagram("CONN_ACK", m.conn, FALSE).conn = m.conn
      BY DEF Datagram
    <3>3. \A d \in 1 .. Len(dconn') : dconn'[d] = m.conn \/ (d \in 1 .. Len(dconn) /\ dconn'[d] = dconn[d])
      BY <1>0, <3>1 DEF ServerType, NetType, Datagrams
    <3>4. CASE c = m.conn
      BY <3>4 DEF Known
    <3>5. CASE c # m.conn
      BY <3>1, <3>2, <3>3, <3>5, Zenon DEF Known
    <3> QED
      BY <3>4, <3>5
  <2> QED
    BY <1>6, <2>1, <2>2, <2>3 DEF Receive
<1>7. ASSUME NEW x \in Ends, SessionStep(x)
      PROVE  Known(c)
  <2>1. /\ UNCHANGED <<pendingConnects, csessions, cdel, sdel, dconn>>
        /\ x \in alive \cup reading /\ alive' \subseteq alive /\ reading' \subseteq reading
    BY <1>7 DEF SessionStep, SendData, ReadEOF, ReadError, ReadAborted, SendClose, CloseTick,
         Repeating, endVars, clientVars, serverVars
  <2>2. PICK t : net' \in {net, net \cup FromEnd(t, x)}
    BY <1>7 DEF SessionStep, SendData, ReadEOF, ReadError, ReadAborted, SendClose, CloseTick, netVars
  <2>3. \A m \in FromEnd(t, x) : Known(m.conn)
    BY <2>1, FromEndKnown
  <2>4. \A m \in net' : m \in net \/ Known(m.conn)
    BY <2>2, <2>3
  <2> QED
    BY <2>1, <2>4, Zenon DEF Known
<1>8. CASE \/ DeleteResetServer \/ CleanupServer \/ RestartServer \/ Lose
           \/ \E p \in Clients : CleanupClient(p) \/ StopClient(p)
  <2>1. /\ UNCHANGED <<pendingConnects, dconn>>
        /\ csessions' \subseteq csessions /\ cdel' \subseteq cdel /\ sdel' \subseteq sdel
        /\ alive' \subseteq alive /\ reading' \subseteq reading /\ net' \subseteq net
    BY <1>8 DEF DeleteResetServer, CleanupServer, RestartServer, Lose, CleanupClient, StopClient,
                clientVars, serverVars, endVars, netVars
  <2> QED
    BY <2>1, KnownLess
<1>9. CASE UNCHANGED vars
  BY <1>9, KnownLess DEF vars, clientVars, serverVars, endVars, netVars
<1> QED
  BY <1>1, <1>2, <1>3, <1>4, <1>5, <1>6, <1>7, <1>8, <1>9 DEF Next, Running

\* Every step keeps KnownInv.
LEMMA KnownStep ==
  ASSUME TypeInv, KnownInv, [Next]_vars
  PROVE  KnownInv'
<1> SUFFICES ASSUME NEW c \in Conns, Known(c)' PROVE id'[c] # 0
  BY Zenon DEF KnownInv
<1>1. id[c] # 0
  BY KnownSteps DEF KnownInv, TypeInv, ClientType
<1>2. ASSUME NEW e \in Conns, Allocates(e) PROVE id'[c] # 0
  <2>1. GetNextStreamID(home[e]) \in 1 .. MaxID
    BY <1>2, NextStreamID DEF Allocates, TypeInv, ClientType
  <2>2. id'[c] = id[c] \/ id'[c] = GetNextStreamID(home[e])
    BY <1>2 DEF Allocates, TypeInv, ClientType
  <2>3. \A k \in 1 .. MaxID : k # 0
    OBVIOUS
  <2> QED
    BY <1>1, <2>1, <2>2, <2>3, Zenon
<1> QED
  BY <1>1, <1>2, IDSteps, Zenon

\* The invariants of this section.
StreamInv(p) == TypeInv /\ IDInv(p) /\ KnownInv

\* Connections with the same StreamID are the same.
LEMMA KeysApart ==
  ASSUME NEW p, StreamInv(p), NEW c \in Conns, NEW e \in Conns, Known(c), Known(e), id[c] = id[e]
  PROVE  c = e
  BY DEF StreamInv, KnownInv, IDInv, Used

\* A Session in the server's table is of a known connection.
LEMMA EntryKnown ==
  ASSUME TypeInv, NEW d \in ssessions
  PROVE  d \in 1 .. Len(dconn) /\ dconn[d] \in Conns /\ Known(dconn[d])
<1>1. d \in 1 .. Len(dconn) /\ dconn \in Seq(Conns)
  BY DEF TypeInv, ServerType
<1> QED
  BY <1>1 DEF Known

\* The invariants hold at first.
LEMMA StreamInit ==
  ASSUME NEW p, OneClient(p), Init
  PROVE  StreamInv(p)
<1>1. Used = {}
  BY DEF Init, Used
<1>2. Cardinality(Used) = 0
  BY <1>1, FS_EmptySet
<1>3. IDInv(p)
  BY <1>1, <1>2 DEF Init, IDInv, OneClient
<1>4. KnownInv
  <2>1. Len(dconn) = 0
    BY DEF Init
  <2> QED
    BY <2>1 DEF Init, KnownInv, Known
<1> QED
  BY <1>3, <1>4, InitType DEF StreamInv

\* Every step keeps the invariants.
LEMMA StreamStep ==
  ASSUME NEW p, OneClient(p), StreamInv(p), [Next]_vars
  PROVE  StreamInv(p)'
  BY IDStep, KnownStep, TypeStep DEF StreamInv

\* udpDemuxLoop, handleConnect: what a connected client Session sends reaches the Session
\* that dialled its own destination, or none (ReachesOwnTarget), if there is one Client-PEP
\* and it has made no more connections than there are StreamIDs, whatever is lost,
\* duplicated, late or restarted.
THEOREM OwnTarget ==
  ASSUME NEW p, OneClient(p)
  PROVE  Spec => []ReachesOwnTarget
<1>1. Init => StreamInv(p)
  BY StreamInit
<1>2. StreamInv(p) /\ [Next]_vars => StreamInv(p)'
  BY StreamStep
<1>3. StreamInv(p) => ReachesOwnTarget
  <2> SUFFICES ASSUME StreamInv(p), NEW c \in csessions, NEW d \in ServerEntry(c)
               PROVE  dconn[d] = c
    BY Zenon DEF ReachesOwnTarget
  <2>1. c \in Conns /\ Known(c) /\ TypeInv
    BY DEF StreamInv, TypeInv, ClientType, Known
  <2>2. d \in ssessions /\ id[dconn[d]] = id[c]
    BY DEF ServerEntry
  <2> QED
    BY <2>1, <2>2, EntryKnown, KeysApart
<1> QED
  BY <1>1, <1>2, <1>3, PTL DEF Spec

\* The destination of connection c has been dialled.
Dialled(c) == \E d \in 1 .. Len(dconn) : dconn[d] = c /\ dpc[d] # "dialing"

\* A CONN_ACK, in flight or taken, follows a dial; a Session in the server's table too.
DialInv ==
  /\ \A m \in net : m.type = "CONNECT" => m.up
  /\ \A m \in net : m.type = "CONN_ACK" => Dialled(m.conn)
  /\ \A d \in ssessions : dpc[d] # "dialing"
  /\ \A c \in Conns : chan[c] = "CONN_ACK" => Dialled(c)

\* A dial that has ended does not begin again.
LEMMA DialledStays ==
  ASSUME TypeInv, NEW c, Dialled(c),
         dconn' = dconn \/ \E e \in Conns : dconn' = Append(dconn, e),
         \A d \in 1 .. Len(dconn) : dpc[d] # "dialing" => dpc'[d] # "dialing"
  PROVE  Dialled(c)'
<1>1. dconn \in Seq(Conns) /\ Len(dconn) \in Nat
  BY DEF TypeInv, ServerType
<1>2. PICK d \in 1 .. Len(dconn) : dconn[d] = c /\ dpc[d] # "dialing"
  BY DEF Dialled
<1>3. d \in 1 .. Len(dconn') /\ dconn'[d] = c
  BY <1>1, <1>2
<1> QED
  BY <1>2, <1>3 DEF Dialled

\* DialInv is kept when nothing new is dialled, answered or acknowledged.
LEMMA DialKept ==
  ASSUME TypeInv, DialInv, UNCHANGED <<dpc, dconn>>, ssessions' \subseteq ssessions,
         \A m \in net' : m \in net \/ m.type \notin {"CONNECT", "CONN_ACK"}
                       \/ (m.type = "CONNECT" /\ m.up),
         \A c \in Conns : chan'[c] = "CONN_ACK" => Dialled(c)
  PROVE  DialInv'
<1>1. \A c : Dialled(c)' <=> Dialled(c)
  BY DEF Dialled
<1>2. \A m \in net' : m.type = "CONNECT" => m.up
  BY DEF DialInv
<1>3. \A m \in net' : m.type = "CONN_ACK" => Dialled(m.conn)
  BY DEF DialInv
<1>4. \A d \in ssessions' : dpc'[d] # "dialing"
  BY DEF DialInv
<1> QED
  BY <1>1, <1>2, <1>3, <1>4, Zenon DEF DialInv

\* What a Session sends is neither a CONNECT nor an answer.
LEMMA SessionSends ==
  ASSUME NEW x \in Ends, SessionStep(x), NEW m \in net'
  PROVE  m \in net \/ m.type \notin {"CONNECT", "CONN_ACK"}
<1>1. PICK t \in {"DATA", "CLOSE", "RESET"} : net' \in {net, net \cup FromEnd(t, x)}
  BY DEF SessionStep, SendData, ReadEOF, ReadError, ReadAborted, SendClose, CloseTick, netVars
<1>2. \A k \in FromEnd(t, x) : k.type = t
  BY DEF FromEnd, Datagram
<1> QED
  BY <1>1, <1>2

\* Every step keeps DialInv.
LEMMA DialStep ==
  ASSUME NEW p, StreamInv(p), DialInv, [Next]_vars
  PROVE  DialInv'
<1>0. TypeInv /\ ClientType /\ ServerType /\ EndType /\ NetType
  BY DEF StreamInv, TypeInv
<1>1. CASE UNCHANGED vars
  BY <1>0, <1>1, DialKept, Zenon DEF vars, clientVars, serverVars, netVars, DialInv
<1>2. ASSUME NEW c \in Conns,
             \/ AcceptConn(c) \/ HandshakeTimeout(c) \/ ConnectFails(c) \/ ConnectSucceeds(c)
             \/ DeleteResetClient(c)
      PROVE  DialInv'
  <2>1. UNCHANGED <<chan, dpc, dconn, ssessions, net>>
    BY <1>2, Zenon DEF AcceptConn, HandshakeTimeout, ConnectFails, ConnectSucceeds, DeleteResetClient,
                serverVars, netVars
  <2> QED
    BY <1>0, <2>1, DialKept DEF DialInv
<1>3. ASSUME NEW c \in Conns, StartConnect(c) \/ ResendConnect(c)
      PROVE  DialInv'
  <2>1. UNCHANGED <<chan, dpc, dconn, ssessions>> /\ net' = net \cup FromEnd("CONNECT", c)
    BY <1>3 DEF StartConnect, ResendConnect, SendConnect, serverVars, clientVars
  <2>2. ASSUME NEW m \in FromEnd("CONNECT", c) PROVE m.type = "CONNECT" /\ m.up
    <3>1. m = Datagram("CONNECT", ConnOf(c), c \in Conns)
      BY Zenon DEF FromEnd
    <3>2. m.type = "CONNECT" /\ m.up = (c \in Conns)
      BY <3>1 DEF Datagram
    <3> QED
      BY <3>2, Zenon
  <2> QED
    BY <1>0, <2>1, <2>2, DialKept, Zenon DEF DialInv
<1>4. ASSUME NEW d \in Connects, DialSucceeds(d) \/ DialFails(d)
      PROVE  DialInv'
  <2>1. d \in 1 .. Len(dconn)
    <3>1. dpc[d] # "none"
      BY <1>4, Zenon DEF DialSucceeds, DialFails
    <3> QED
      BY <1>0, <3>1, PepAssumption DEF ServerType, Connects
  <2>2. PICK ph \in {"acked", "failed"} : dpc' = [dpc EXCEPT ![d] = ph]
    BY <1>4, Zenon DEF DialSucceeds, DialFails
  <2>3. PICK t \in {"CONN_ACK", "CONN_ERR"} : net' = net \cup {Datagram(t, dconn[d], FALSE)}
    BY <1>4, Zenon DEF DialSucceeds, DialFails
  <2>4. UNCHANGED <<chan, dconn, ssessions>>
    BY <1>4, Zenon DEF DialSucceeds, DialFails, clientVars
  <2>5. \A k \in Connects : dpc[k] # "dialing" => dpc'[k] # "dialing"
    BY <1>0, <2>2 DEF ServerType
  <2>6. dpc'[d] # "dialing"
    BY <1>0, <2>2 DEF ServerType
  <2>7. \A k \in 1 .. Len(dconn) : k \in Connects
    BY <1>0, PepAssumption DEF ServerType, Connects
  <2>8. \A c : Dialled(c) => Dialled(c)'
    BY <1>0, <2>4, <2>5, <2>7, DialledStays
  <2>9. Dialled(dconn[d])'
    BY <2>1, <2>4, <2>6 DEF Dialled
  <2>10. LET k == Datagram(t, dconn[d], FALSE) IN k.type = t /\ k.conn = dconn[d]
    BY DEF Datagram
  <2>11. \A m \in net' : m.type = "CONNECT" => m.up
    BY <2>3, <2>10, Zenon DEF DialInv
  <2>12. ASSUME NEW m \in net', m.type = "CONN_ACK" PROVE Dialled(m.conn)'
    <3>1. CASE m \in net
      BY <2>8, <2>12, <3>1, Zenon DEF DialInv
    <3>2. CASE m \notin net
      <4>1. m.conn = dconn[d]
        BY <2>3, <2>10, <3>2, Zenon
      <4> QED
        BY <2>4, <2>9, <4>1
    <3> QED
      BY <3>1, <3>2
  <2>13. \A k \in ssessions' : dpc'[k] # "dialing"
    BY <1>0, <2>4, <2>5, <2>7 DEF DialInv, ServerType
  <2>14. \A c \in Conns : chan'[c] = "CONN_ACK" => Dialled(c)'
    BY <2>4, <2>8 DEF DialInv
  <2> QED
    BY <2>11, <2>12, <2>13, <2>14, Zenon DEF DialInv
<1>5. ASSUME NEW d \in Connects, StartServerSession(d)
      PROVE  DialInv'
  <2>1. /\ UNCHANGED <<chan, dconn, net>> /\ dpc' = [dpc EXCEPT ![d] = "up"]
        /\ ssessions' \subseteq ssessions \cup {d}
    BY <1>5 DEF StartServerSession, clientVars, netVars
  <2>2. /\ \A k \in Connects : dpc[k] # "dialing" => dpc'[k] # "dialing"
        /\ dpc'[d] # "dialing"
    BY <1>0, <2>1 DEF ServerType
  <2>3. \A k \in 1 .. Len(dconn) : k \in Connects
    BY <1>0, PepAssumption DEF ServerType, Connects
  <2>4. \A c : Dialled(c) => Dialled(c)'
    BY <1>0, <2>1, <2>2, <2>3, DialledStays
  <2>5. \A k \in ssessions' : dpc'[k] # "dialing"
    BY <1>0, <2>1, <2>2, <2>3 DEF DialInv, ServerType
  <2> QED
    BY <2>1, <2>4, <2>5, Zenon DEF DialInv
<1>6. ASSUME NEW m \in net, HandleConnect(m)
      PROVE  DialInv'
  <2>0. m.conn \in Conns /\ Taken(m) \subseteq net /\ m.type = "CONNECT"
    BY <1>0, <1>6 DEF NetType, Datagrams, Taken, HandleConnect
  <2>1. UNCHANGED <<chan, ssessions>>
    BY <1>6 DEF HandleConnect, clientVars
  <2>2. CASE /\ dconn' = Append(dconn, m.conn) /\ Len(dconn) < MaxConnects
             /\ dpc' = [dpc EXCEPT ![Len(dconn) + 1] = "dialing"] /\ net' = Taken(m)
    <3>1. \A k \in 1 .. Len(dconn) : k \in Connects /\ dpc'[k] = dpc[k]
      BY <1>0, <2>2, PepAssumption DEF ServerType, Connects
    <3>2. \A c : Dialled(c) => Dialled(c)'
      BY <1>0, <2>0, <2>2, <3>1, DialledStays
    <3>3. \A k \in ssessions' : dpc'[k] # "dialing"
      BY <1>0, <2>1, <3>1 DEF DialInv, ServerType
    <3> QED
      BY <2>0, <2>1, <2>2, <3>2, <3>3 DEF DialInv
  <2>3. CASE /\ Target(m) # {} /\ UNCHANGED <<dpc, dconn>>
             /\ net' = Taken(m) \cup {Datagram("CONN_ACK", m.conn, FALSE)}
    <3>1. m.up
      BY <2>0 DEF DialInv
    <3>2. PICK d \in ssessions : id[dconn[d]] = id[m.conn]
      BY <2>3, <3>1 DEF Target, ServerEntry
    <3>3. dconn[d] = m.conn /\ d \in 1 .. Len(dconn)
      <4>1. Known(m.conn)
        BY DEF Known
      <4> QED
        BY <1>0, <2>0, <3>2, <4>1, EntryKnown, KeysApart, Zenon
    <3>4. Dialled(m.conn)
      BY <3>3, Zenon DEF Dialled, DialInv
    <3>5. \A c : Dialled(c) => Dialled(c)'
      BY <2>3 DEF Dialled
    <3>6. LET k == Datagram("CONN_ACK", m.conn, FALSE) IN k.type = "CONN_ACK" /\ k.conn = m.conn
      BY DEF Datagram
    <3>7. \A k \in net' : k.type = "CONNECT" => k.up
      BY <2>0, <2>3, <3>6, Zenon DEF DialInv
    <3>8. \A k \in net' : k.type = "CONN_ACK" => Dialled(k.conn)'
      BY <2>0, <2>3, <3>4, <3>5, <3>6, Zenon DEF DialInv
    <3>9. \A k \in ssessions' : dpc'[k] # "dialing"
      BY <2>1, <2>3 DEF DialInv
    <3>10. \A c \in Conns : chan'[c] = "CONN_ACK" => Dialled(c)'
      BY <2>1, <3>5, Zenon DEF DialInv
    <3> QED
      BY <3>7, <3>8, <3>9, <3>10, Zenon DEF DialInv
  <2> QED
    BY <1>6, <2>2, <2>3, Zenon DEF HandleConnect
<1>7. ASSUME NEW m \in net, HandleConnAnswer(m)
      PROVE  DialInv'
  <2>1. /\ UNCHANGED <<dpc, dconn, ssessions>> /\ net' \subseteq net
        /\ m.conn \in Conns /\ Known(m.conn)
    BY <1>0, <1>7, Zenon DEF HandleConnAnswer, Taken, serverVars, NetType, Datagrams, Known
  <2>2. ASSUME NEW c \in Conns, chan'[c] = "CONN_ACK" PROVE Dialled(c)
    <3>1. CASE c \in pendingConnects /\ SameKey(c, m.conn)
      <4>1. m.type = "CONN_ACK"
        BY <1>7, <2>2, <3>1 DEF HandleConnAnswer
      <4>2. c = m.conn
        BY <2>1, <3>1, KeysApart DEF SameKey, Known
      <4> QED
        BY <4>1, <4>2 DEF DialInv
    <3>2. CASE ~(c \in pendingConnects /\ SameKey(c, m.conn))
      BY <1>7, <2>2, <3>2, Zenon DEF HandleConnAnswer, DialInv
    <3> QED
      BY <3>1, <3>2
  <2> QED
    BY <1>0, <2>1, <2>2, DialKept
<1>8. ASSUME NEW m \in net, HandleData(m) \/ HandleClose(m) \/ HandleReset(m)
      PROVE  DialInv'
  <2>1. UNCHANGED <<chan, dpc, dconn, ssessions>> /\ net' \subseteq net
    BY <1>8 DEF HandleData, HandleClose, HandleReset, Taken, serverVars, clientVars
  <2> QED
    BY <1>0, <2>1, DialKept, Zenon DEF DialInv
<1>9. ASSUME NEW x \in Ends, SessionStep(x)
      PROVE  DialInv'
  <2>1. UNCHANGED <<chan, dpc, dconn, ssessions>>
    BY <1>9, Zenon DEF SessionStep, SendData, ReadEOF, ReadError, ReadAborted, SendClose, CloseTick,
                clientVars, serverVars
  <2>2. \A m \in net' : m \in net \/ m.type \notin {"CONNECT", "CONN_ACK"}
    BY <1>9, SessionSends
  <2> QED
    BY <1>0, <2>1, <2>2, DialKept, Zenon DEF DialInv
<1>10. CASE \/ DeleteResetServer \/ CleanupServer \/ Lose
            \/ \E q \in Clients : CleanupClient(q) \/ StopClient(q)
  <2>1. UNCHANGED <<chan, dpc, dconn>> /\ ssessions' \subseteq ssessions /\ net' \subseteq net
    BY <1>10, Zenon DEF DeleteResetServer, CleanupServer, Lose, CleanupClient, StopClient,
                 clientVars, serverVars, netVars
  <2> QED
    BY <1>0, <2>1, DialKept, Zenon DEF DialInv
<1>11. CASE RestartServer
  <2>1. /\ UNCHANGED <<chan, dconn, net>> /\ ssessions' = {}
        /\ dpc' = [d \in Connects |-> IF dpc[d] = "none" THEN "none" ELSE "failed"]
    BY <1>11 DEF RestartServer, clientVars, netVars
  <2>2. \A k \in 1 .. Len(dconn) : dpc'[k] # "dialing"
    BY <1>0, <2>1, PepAssumption DEF ServerType, Connects
  <2>3. \A c : Dialled(c) => Dialled(c)'
    BY <1>0, <2>1, <2>2, DialledStays
  <2> QED
    BY <2>1, <2>3, Zenon DEF DialInv
<1> QED
  BY <1>1, <1>2, <1>3, <1>4, <1>5, <1>6, <1>7, <1>8, <1>9, <1>10, <1>11
  DEF Next, Running, Receive

\* handleConnect, udpDemuxLoop: a connection is told that it is connected only after its
\* own destination was dialled (ConnectedIsDialled), in the same scope: neither a late or
\* duplicated CONN_ACK nor the answer for a Session that exists is that of another one.
THEOREM ConnectedAfterDial ==
  ASSUME NEW p, OneClient(p)
  PROVE  Spec => []ConnectedIsDialled
<1>1. Init => StreamInv(p) /\ DialInv
  BY StreamInit DEF Init, DialInv
<1>2. StreamInv(p) /\ DialInv /\ [Next]_vars => StreamInv(p)' /\ DialInv'
  BY StreamStep, DialStep
<1>3. DialInv => ConnectedIsDialled
  BY DEF DialInv, ConnectedIsDialled, Dialled
<1> QED
  BY <1>1, <1>2, <1>3, PTL DEF Spec
=============================================================================
