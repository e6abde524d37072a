------------------------------ MODULE Teardown ------------------------------
(***************************************************************************)
(* How a Session ends at one PEP (proxy/session.go), at the grain of its   *)
(* locks: the write loop with its condition variable, the read loop and    *)
(* its deferred function, the CLOSE goroutine, the demultiplexer and the   *)
(* clean-up, any of which may call Close.                                  *)
(*                                                                         *)
(* muRecv is kept as its holder, since the write loop does several things  *)
(* while it holds it.  muSend is held only for sections that take no other *)
(* lock of the Session, so each of them is one step.  Blocks are numbered  *)
(* from 1 and do not wrap; what is in them is Transfer's subject.          *)
(***************************************************************************)
EXTENDS Naturals, FiniteSets

CONSTANT MaxBlocks    \* bound: blocks received

ASSUME TeardownAssumption == MaxBlocks \in Nat

Blocks  == 1 .. MaxBlocks
Callers == {"demux", "closer", "reader", "cleaner"}   \* who may call Close

VARIABLES
  rxBlocks,    \* block -> "none", "partial", "decoded"
  written,     \* blocks written: nextWriteGrp is written + 1
  closeRecv, closeSent, recvClosed,
  cancelled,   \* the context
  connClosed,  \* Conn.Close was called
  muRecv,      \* "free" or "writer"
  wpc,         \* write loop: "lock", "check", "read", "decide", "wait", "write",
               \* "clean", "exit", "done"
  seen,        \* closeRecv as the write loop has read it
  rpc,         \* read loop: "reading", "eof", "flush", "acks", "gone"
  cpc,         \* CLOSE goroutine: "none", "send", "mark", "repeat", "done"
  dpc,         \* demultiplexer: "idle", "wake" and "wakeBoth" in HandleClose, "off"
  closing,     \* caller -> its call of Close: "no", "stop", "wake", "done"
  aborted      \* history: RESET, clean-up or an error on the TCP connection

writerVars == <<muRecv, wpc, seen, written, recvClosed>>
closeVars  == <<cancelled, connClosed, closing>>
vars == <<rxBlocks, closeRecv, closeSent, writerVars, rpc, cpc, dpc, closeVars, aborted>>

TypeOK ==
  /\ rxBlocks \in [Blocks -> {"none", "partial", "decoded"}]
  /\ written \in 0 .. MaxBlocks
  /\ closeRecv \in BOOLEAN /\ closeSent \in BOOLEAN /\ recvClosed \in BOOLEAN
  /\ cancelled \in BOOLEAN /\ connClosed \in BOOLEAN /\ seen \in BOOLEAN /\ aborted \in BOOLEAN
  /\ muRecv \in {"free", "writer"}
  /\ wpc \in {"lock", "check", "read", "decide", "wait", "write", "clean", "exit", "done"}
  /\ rpc \in {"reading", "eof", "flush", "acks", "gone"}
  /\ cpc \in {"none", "send", "mark", "repeat", "done"}
  /\ dpc \in {"idle", "wake", "wakeBoth", "off"}
  /\ closing \in [Callers -> {"no", "stop", "wake", "done"}]

Init ==
  /\ rxBlocks = [g \in Blocks |-> "none"] /\ written = 0
  /\ closeRecv = FALSE /\ closeSent = FALSE /\ recvClosed = FALSE
  /\ cancelled = FALSE /\ connClosed = FALSE /\ aborted = FALSE
  /\ muRecv = "free" /\ wpc = "lock" /\ seen = FALSE
  /\ rpc = "reading" /\ cpc = "none" /\ dpc = "idle"
  /\ closing = [a \in Callers |-> "no"]

-----------------------------------------------------------------------------
\* writeCond.Broadcast; the write loop is the only one that waits.
Broadcast == wpc' = IF wpc = "wait" THEN "lock" ELSE wpc

\* Close, first step: the context.
CloseCancel(a) == cancelled' = TRUE /\ closing' = [closing EXCEPT ![a] = "stop"]

\* Close: the shaper, the connection, and under muSend the block timer.
CloseStop(a) ==
  /\ closing[a] = "stop"
  /\ connClosed' = TRUE
  /\ closing' = [closing EXCEPT ![a] = "wake"]
  /\ UNCHANGED <<rxBlocks, closeRecv, closeSent, writerVars, rpc, cpc, dpc, cancelled,
                 aborted>>

\* Close, last step: under muRecv the write loop is woken.
CloseWake(a) ==
  /\ closing[a] = "wake" /\ muRecv = "free"
  /\ closing' = [closing EXCEPT ![a] = "done"]
  /\ Broadcast
  /\ UNCHANGED <<rxBlocks, closeRecv, closeSent, muRecv, seen, written, recvClosed, rpc,
                 cpc, dpc, cancelled, connClosed, aborted>>

-----------------------------------------------------------------------------
(* writeTCPRun.                                                            *)

Unseen == {g \in Blocks : g > written /\ rxBlocks[g] # "none"}

NextDecoded == written + 1 \in Blocks /\ rxBlocks[written + 1] = "decoded"

WriterLock ==
  /\ wpc = "lock" /\ muRecv = "free"
  /\ wpc' = "check" /\ muRecv' = "writer"
  /\ UNCHANGED <<rxBlocks, closeRecv, closeSent, seen, written, recvClosed, rpc, cpc, dpc,
                 closeVars, aborted>>

\* The context, then the next block.
WriterCheck ==
  /\ wpc = "check"
  /\ \/ cancelled /\ wpc' = "exit" /\ muRecv' = "free"
     \/ ~cancelled /\ NextDecoded /\ wpc' = "write" /\ muRecv' = "free"
     \/ ~cancelled /\ ~NextDecoded /\ wpc' = "read" /\ UNCHANGED muRecv
  /\ UNCHANGED <<rxBlocks, closeRecv, closeSent, seen, written, recvClosed, rpc, cpc, dpc,
                 closeVars, aborted>>

\* The nested section under muSend.
WriterReadClose ==
  /\ wpc = "read"
  /\ seen' = closeRecv
  /\ wpc' = "decide"
  /\ UNCHANGED <<rxBlocks, closeRecv, closeSent, muRecv, written, recvClosed, rpc, cpc, dpc,
                 closeVars, aborted>>

\* Mutant: muRecv is not released before the return.
WriterDecideHeld ==
  /\ wpc = "decide"
  /\ \/ seen /\ Unseen = {} /\ wpc' = "exit" /\ UNCHANGED muRecv
     \/ ~(seen /\ Unseen = {}) /\ wpc' = "wait" /\ muRecv' = "free"
  /\ UNCHANGED <<rxBlocks, closeRecv, closeSent, seen, written, recvClosed, rpc, cpc, dpc,
                 closeVars, aborted>>

\* End after CLOSE with everything written up to maxRecvGrp, else Wait, which gives up
\* muRecv.
WriterDecide ==
  /\ wpc = "decide"
  /\ wpc' = IF seen /\ Unseen = {} THEN "exit" ELSE "wait"
  /\ muRecv' = "free"
  /\ UNCHANGED <<rxBlocks, closeRecv, closeSent, seen, written, recvClosed, rpc, cpc, dpc,
                 closeVars, aborted>>

WriteBlock ==
  /\ wpc = "write" /\ ~connClosed
  /\ wpc' = "clean"
  /\ UNCHANGED <<rxBlocks, closeRecv, closeSent, muRecv, seen, written, recvClosed, rpc,
                 cpc, dpc, closeVars, aborted>>

\* Conn.Write fails, or is interrupted by Conn.Close: the loop ends, nobody is told.
WriteFails ==
  /\ wpc = "write"
  /\ wpc' = "exit"
  /\ aborted' = (aborted \/ ~connClosed)
  /\ UNCHANGED <<rxBlocks, closeRecv, closeSent, muRecv, seen, written, recvClosed, rpc,
                 cpc, dpc, closeVars>>

\* Under muRecv, with the report to the peer.
WriterClean ==
  /\ wpc = "clean" /\ muRecv = "free"
  /\ wpc' = "lock" /\ written' = written + 1
  /\ UNCHANGED <<rxBlocks, closeRecv, closeSent, muRecv, seen, recvClosed, rpc, cpc, dpc,
                 closeVars, aborted>>

\* The deferred function: recvClosed under muRecv, and CloseWrite.
WriterExit ==
  /\ wpc = "exit" /\ muRecv = "free"
  /\ wpc' = "done" /\ recvClosed' = TRUE
  /\ UNCHANGED <<rxBlocks, closeRecv, closeSent, muRecv, seen, written, rpc, cpc, dpc,
                 closeVars, aborted>>

-----------------------------------------------------------------------------
(* readTCPRun and the CLOSE goroutine.                                     *)

\* Conn.Read returns EOF; the deferred function sets sendClosed under muSend.
ReadEOF ==
  /\ rpc = "reading" /\ ~connClosed
  /\ rpc' = "eof"
  /\ UNCHANGED <<rxBlocks, closeRecv, closeSent, writerVars, cpc, dpc, closeVars, aborted>>

\* Conn.Read fails, because of the peer or of Conn.Close: RESET is sent and Close called.
ReadFails ==
  /\ rpc = "reading"
  /\ rpc' = "gone" /\ CloseCancel("reader")
  /\ aborted' = (aborted \/ ~connClosed)
  /\ UNCHANGED <<rxBlocks, closeRecv, closeSent, writerVars, cpc, dpc, connClosed>>

\* The deferred function checks the context once, flushes the pending block, and waits
\* for the shaper and the LQRs; then it starts the CLOSE goroutine.
DeferredStep ==
  /\ \/ rpc = "eof" /\ cancelled /\ rpc' = "gone" /\ UNCHANGED cpc
     \/ rpc = "eof" /\ ~cancelled /\ rpc' = "flush" /\ UNCHANGED cpc
     \/ rpc = "flush" /\ rpc' = "acks" /\ UNCHANGED cpc
     \/ rpc = "acks" /\ cancelled /\ rpc' = "gone" /\ UNCHANGED cpc
     \/ rpc = "acks" /\ rpc' = "gone" /\ cpc' = "send"
  /\ UNCHANGED <<rxBlocks, closeRecv, closeSent, writerVars, dpc, closeVars, aborted>>

SendClose ==
  /\ cpc = "send" /\ cpc' = "mark"
  /\ UNCHANGED <<rxBlocks, closeRecv, closeSent, writerVars, rpc, dpc, closeVars, aborted>>

\* Mutant: the CLOSE goroutine leaves Close to HandleClose.
MarkCloseSentOnly ==
  /\ cpc = "mark" /\ closeSent' = TRUE /\ cpc' = "repeat"
  /\ UNCHANGED <<rxBlocks, closeRecv, writerVars, rpc, dpc, closeVars, aborted>>

\* Under muSend; Close follows when both sides are closed.
MarkCloseSent ==
  /\ cpc = "mark" /\ closeSent' = TRUE
  /\ IF closeRecv THEN cpc' = "done" /\ CloseCancel("closer")
                  ELSE cpc' = "repeat" /\ UNCHANGED <<cancelled, closing>>
  /\ UNCHANGED <<rxBlocks, closeRecv, writerVars, rpc, dpc, connClosed, aborted>>

\* Mutant: CLOSE is repeated until the peer's CLOSE, closed or not.
RepeatStubborn ==
  /\ cpc = "repeat" /\ closeRecv
  /\ cpc' = "done"
  /\ UNCHANGED <<rxBlocks, closeRecv, closeSent, writerVars, rpc, dpc, closeVars, aborted>>

\* The repetition of CLOSE ends.
RepeatEnds ==
  /\ cpc = "repeat" /\ (cancelled \/ closeRecv)
  /\ cpc' = "done"
  /\ UNCHANGED <<rxBlocks, closeRecv, closeSent, writerVars, rpc, dpc, closeVars, aborted>>

-----------------------------------------------------------------------------
(* The demultiplexer, one packet at a time, and the clean-up.              *)

Idle == dpc = "idle" /\ closing["demux"] \in {"no", "done"}

\* HandleDataPacket for block g: its first packet, or the one that completes it, after
\* which tryDecodeBlock wakes the write loop.
HandleDataPacket(g) ==
  /\ Idle /\ muRecv = "free" /\ ~recvClosed
  /\ \/ /\ rxBlocks[g] = "none"
        /\ rxBlocks' = [rxBlocks EXCEPT ![g] = "partial"]
        /\ UNCHANGED wpc
     \/ /\ rxBlocks[g] # "decoded"
        /\ rxBlocks' = [rxBlocks EXCEPT ![g] = "decoded"]
        /\ Broadcast
  /\ UNCHANGED <<closeRecv, closeSent, muRecv, seen, written, recvClosed, rpc, cpc, dpc,
                 closeVars, aborted>>

\* HandleClose under muSend.
HandleClose ==
  /\ Idle
  /\ closeRecv' = TRUE
  /\ dpc' = IF closeSent THEN "wakeBoth" ELSE "wake"
  /\ UNCHANGED <<rxBlocks, closeSent, writerVars, rpc, cpc, closeVars, aborted>>

\* Mutant: Broadcast without muRecv.
HandleCloseUnlocked ==
  /\ dpc \in {"wake", "wakeBoth"}
  /\ dpc' = "idle" /\ Broadcast
  /\ IF dpc = "wakeBoth" THEN CloseCancel("demux") ELSE UNCHANGED <<cancelled, closing>>
  /\ UNCHANGED <<rxBlocks, closeRecv, closeSent, muRecv, seen, written, recvClosed, rpc,
                 cpc, connClosed, aborted>>

\* HandleClose: Broadcast under muRecv, and Close when both sides are closed.
HandleCloseWake ==
  /\ dpc \in {"wake", "wakeBoth"} /\ muRecv = "free"
  /\ dpc' = "idle" /\ Broadcast
  /\ IF dpc = "wakeBoth" THEN CloseCancel("demux") ELSE UNCHANGED <<cancelled, closing>>
  /\ UNCHANGED <<rxBlocks, closeRecv, closeSent, muRecv, seen, written, recvClosed, rpc,
                 cpc, connClosed, aborted>>

\* RESET: the demultiplexer calls Close and forgets the Session.
HandleReset ==
  /\ Idle
  /\ dpc' = "off" /\ CloseCancel("demux") /\ aborted' = TRUE
  /\ UNCHANGED <<rxBlocks, closeRecv, closeSent, writerVars, rpc, cpc, connClosed>>

\* cleanupLoop or Stop of the PEP.
CleanUp ==
  /\ closing["cleaner"] = "no"
  /\ CloseCancel("cleaner") /\ aborted' = TRUE
  /\ UNCHANGED <<rxBlocks, closeRecv, closeSent, writerVars, rpc, cpc, dpc, connClosed>>

-----------------------------------------------------------------------------
Writer ==
  \/ WriterLock \/ WriterCheck \/ WriterReadClose \/ WriterDecide
  \/ WriterClean \/ WriterExit

Sender == DeferredStep \/ SendClose \/ MarkCloseSent \/ RepeatEnds

Completes(g) ==
  /\ \E h \in Blocks : h >= g /\ rxBlocks[h] # "none"
  /\ HandleDataPacket(g) /\ rxBlocks'[g] = "decoded"

Next ==
  \/ Writer \/ WriteBlock \/ WriteFails
  \/ ReadEOF \/ ReadFails \/ Sender
  \/ \E a \in Callers : CloseStop(a) \/ CloseWake(a)
  \/ \E g \in Blocks : HandleDataPacket(g)
  \/ HandleClose \/ HandleCloseWake \/ HandleReset \/ CleanUp

Spec == Init /\ [][Next]_vars

\* Goroutines run; a write returns, and reads and writes fail on a closed connection;
\* blocks up to the last one seen are completed, as NAKs ask for the rest (no block is
\* lost as a whole), however often CLOSE is repeated meanwhile.
Fairness ==
  /\ WF_vars(Writer \/ WriteBlock \/ (connClosed /\ WriteFails))
  /\ WF_vars(Sender) /\ WF_vars(connClosed /\ ReadFails)
  /\ \A a \in Callers : WF_vars(CloseStop(a) \/ CloseWake(a))
  /\ WF_vars(HandleCloseWake)
  /\ \A g \in Blocks : SF_vars(Completes(g))

FairSpec == Spec /\ Fairness

-----------------------------------------------------------------------------
(* Properties.                                                             *)

\* The condition of the write loop is true.
CanProceed == cancelled \/ NextDecoded \/ (closeRecv /\ Unseen = {})

\* A Broadcast is still to come.
WakePending == dpc \in {"wake", "wakeBoth"} \/ \E a \in Callers : closing[a] \in {"stop", "wake"}

\* writeCond: the write loop does not sleep through CLOSE, Close or a decoded block: if
\* it waits although it could go on, somebody has still to wake it.
NoMissedWakeup == wpc = "wait" /\ CanProceed => WakePending

\* HandleClose and the CLOSE goroutine: whichever is second to see that both sides are
\* closed closes the Session; at least one of them does.
BothClosedCloses == (closeSent /\ closeRecv) ~> cancelled

\* Close: every goroutine of the Session ends, whatever it was waiting for.
GoroutinesEnd == cancelled ~> (wpc = "done" /\ rpc = "gone" /\ cpc \in {"none", "done"})

\* HandleClose: the write loop ends after CLOSE, also when CLOSE overtakes data.
WriterEnds == closeRecv ~> (wpc = "done")

\* writeTCPRun: the application sees the end of the stream only after everything that
\* was received, unless the Session was closed.
EndIsComplete == recvClosed /\ ~cancelled /\ ~aborted => Unseen = {}

\* HandleClose, MarkCloseSent: when both sides have said CLOSE and nothing failed, what
\* was received and decoded is written before the connection is closed.
CloseIsGraceful ==
  connClosed /\ ~aborted => \A g \in Blocks : rxBlocks[g] = "decoded" => g <= written
=============================================================================
