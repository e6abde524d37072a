------------------------------- MODULE Pacing -------------------------------
(***************************************************************************)
(* The sending half of a Session (proxy/session.go) at the pace its shaper *)
(* sets: the read loop with its backpressure, the block timer, the wait    *)
(* before CLOSE, retransmissions, the changes of the burst parameters, and *)
(* Close.  Transfer has the contents of the packets; here a packet is its  *)
(* ordinal number and its block, 0 for a retransmission.  A block is named *)
(* by the number of its first packet.                                      *)
(***************************************************************************)
EXTENDS Shaper, FiniteSets

CONSTANTS
  FEC_K, FEC_M,
  QueueLimit,   \* 10 in the code
  LqrWait,      \* ticks of the wait for LQRs; 3 seconds in the code
  Milli,        \* ticks in a millisecond
  PktTimes,     \* the link times of a packet that are considered
  MaxInputs     \* bound: segments read and NAKs answered

ASSUME PacingAssumption ==
  /\ FEC_K \in Nat \ {0} /\ FEC_M \in Nat
  /\ QueueLimit \in Nat /\ LqrWait \in Nat /\ Milli \in Nat \ {0}
  /\ PktTimes \subseteq Nat
  /\ MaxInputs \in Nat

VARIABLES
  rpc,        \* readTCPRun: "check", "read", "drain", "ack", "closed", "gone"
  pending,    \* Len(pendingData)
  timers,     \* block timers whose callback may still run
  nread, blocks, naks,   \* segments read, blocks flushed, NAKs answered
  txBlocks,   \* blocks without an LQR
  curM,
  ackWait,    \* ticks left of the wait for LQRs
  kpc         \* Close: "no", "cancelled", "stopped", "done"

senderVars == <<rpc, pending, timers, nread, blocks, naks, txBlocks, curM, ackWait, kpc>>
vars == <<shaperVars, senderVars>>

-----------------------------------------------------------------------------
\* NewSession and updateShaperParams: whole milliseconds for b packets; 0 without a
\* bandwidth.
Interval(b) == ((b * pktTime) \div Milli) * Milli

Init ==
  /\ pktTime \in PktTimes
  /\ NewShaper(FEC_K + FEC_M, Interval(FEC_K + FEC_M))
  /\ rpc = "check" /\ pending = 0 /\ timers = 0
  /\ nread = 0 /\ blocks = 0 /\ naks = 0 /\ txBlocks = {}
  /\ curM = FEC_M /\ ackWait = 0 /\ kpc = "no"

\* flushPendingBlockLocked, with data pending.
Flush ==
  /\ blocks' = blocks + 1
  /\ txBlocks' = txBlocks \cup {accepted + 1}
  /\ EnqueueMany(FEC_K + curM, accepted + 1)
  /\ pending' = 0

NoFlush == UNCHANGED <<blocks, txBlocks, queueVars, spc>>

FlushIf(any) ==
  \/ any /\ Flush
  \/ ~any /\ NoFlush /\ pending' = 0

-----------------------------------------------------------------------------
(* readTCPRun.                                                             *)

\* Mutant: no backpressure.
Unpressed == rpc = "check" /\ rpc' = "read"
             /\ UNCHANGED <<shaperVars, pending, timers, nread, blocks, naks, txBlocks,
                            curM, ackWait, kpc>>

\* The backpressure loop is left.
CheckQueue ==
  /\ rpc = "check" /\ Len(queue) <= QueueLimit
  /\ rpc' = "read"
  /\ UNCHANGED <<shaperVars, pending, timers, nread, blocks, naks, txBlocks, curM,
                 ackWait, kpc>>

\* Conn.Read returns a segment: the first of a block starts the timer, the last one
\* stops it, if it is not too late, and flushes the block.
ReadTCP ==
  LET armed == IF pending = 0 THEN timers + 1 ELSE timers
  IN  /\ rpc = "read" /\ nread + naks < MaxInputs /\ kpc # "done"
      /\ nread' = nread + 1
      /\ rpc' = "check"
      /\ \/ /\ pending + 1 < FEC_K
            /\ timers' = armed /\ pending' = pending + 1 /\ NoFlush
         \/ /\ pending + 1 >= FEC_K
            /\ timers' \in {armed, armed - 1} /\ Flush
      /\ UNCHANGED <<paramVars, stopped, cancelled, pktTime, size, interval, nextReset,
                     pkts, sent, backlog, naks, curM, ackWait, kpc>>

\* Conn.Read returns EOF: sendClosed, and the flush of what is pending, which is
\* left out once the context is cancelled.
ReadEOF ==
  /\ rpc = "read" /\ kpc # "done"
  /\ IF cancelled
       THEN rpc' = "gone" /\ NoFlush /\ UNCHANGED pending
       ELSE rpc' = "drain" /\ FlushIf(pending > 0)
  /\ UNCHANGED <<paramVars, stopped, cancelled, pktTime, size, interval, nextReset, pkts,
                 sent, backlog, timers, nread, naks, curM, ackWait, kpc>>

\* Conn.Read fails: RESET five times and Close, whose first step is this one's last.
ReadFails ==
  /\ rpc = "read"
  /\ rpc' = "gone" /\ cancelled' = TRUE
  /\ kpc' = IF kpc = "no" THEN "cancelled" ELSE kpc
  /\ UNCHANGED <<queueVars, paramVars, runVars, stopped, pktTime, pending, timers, nread,
                 blocks, naks, txBlocks, curM, ackWait>>

\* The queue is seen empty.
DrainDone ==
  /\ rpc = "drain" /\ queue = <<>>
  /\ rpc' = "ack" /\ ackWait' = LqrWait
  /\ UNCHANGED <<shaperVars, pending, timers, nread, blocks, naks, txBlocks, curM, kpc>>

\* Mutant: CLOSE follows as soon as the queue is empty.
SendCloseAtOnce ==
  /\ rpc = "ack" /\ rpc' = "closed"
  /\ UNCHANGED <<shaperVars, pending, timers, nread, blocks, naks, txBlocks, curM,
                 ackWait, kpc>>

\* Mutant: the wait for LQRs has no limit.
SendCloseAcked ==
  /\ rpc = "ack" /\ txBlocks = {}
  /\ rpc' = "closed"
  /\ UNCHANGED <<shaperVars, pending, timers, nread, blocks, naks, txBlocks, curM,
                 ackWait, kpc>>

\* Every block is reported, or the wait is over: CLOSE is sent, past the shaper.
SendClose ==
  /\ rpc = "ack" /\ (txBlocks = {} \/ ackWait = 0)
  /\ rpc' = "closed"
  /\ UNCHANGED <<shaperVars, pending, timers, nread, blocks, naks, txBlocks, curM,
                 ackWait, kpc>>

\* A loop of the reader sees the context cancelled.
ReaderAborts ==
  /\ rpc \in {"check", "drain", "ack"} /\ cancelled
  /\ rpc' = "gone"
  /\ UNCHANGED <<shaperVars, pending, timers, nread, blocks, naks, txBlocks, curM,
                 ackWait, kpc>>

-----------------------------------------------------------------------------
(* Timer, handlers and Close.                                              *)

\* flushPendingBlock: a block timer fires.
FlushPendingBlock ==
  /\ timers > 0
  /\ timers' = timers - 1
  /\ FlushIf(pending > 0)
  /\ UNCHANGED <<paramVars, stopped, cancelled, pktTime, size, interval, nextReset, pkts,
                 sent, backlog, rpc, nread, naks, curM, ackWait, kpc>>

\* HandleNak, for a packet in the cache.
HandleNak ==
  /\ blocks > 0 /\ nread + naks < MaxInputs
  /\ naks' = naks + 1
  /\ EnqueueMany(1, 0)
  /\ UNCHANGED <<paramVars, stopped, cancelled, pktTime, size, interval, nextReset, pkts,
                 sent, backlog, rpc, pending, timers, nread, blocks, txBlocks, curM,
                 ackWait, kpc>>

\* updateShaperParams for parity m.
UpdateShaperParams(m) == UpdateParams(FEC_K + m, Interval(FEC_K + m))

\* HandleLQR for block g.  The losses it reports, and with them the new parity, are
\* left open: Transfer has the rule.  The receiver reports a block once a packet of it
\* was sent, the first block perhaps before that.
HandleLQR(g) ==
  /\ g \in txBlocks
  /\ g = 1 \/ g <= Len(sent)
  /\ txBlocks' = txBlocks \ {g}
  /\ \/ UNCHANGED <<curM, paramVars>>
     \/ \E m \in ({curM - 1} \cup (curM + 1 .. FEC_M)) \cap Nat :
          curM' = m /\ UpdateShaperParams(m)
  /\ UNCHANGED <<queueVars, runVars, stopped, cancelled, pktTime, rpc, pending, timers,
                 nread, blocks, naks, ackWait, kpc>>

\* Close: the context, the shaper, and last the connection and the block timer, which
\* may have fired already.
CloseCancel ==
  /\ kpc = "no"
  /\ kpc' = "cancelled" /\ cancelled' = TRUE
  /\ UNCHANGED <<queueVars, paramVars, runVars, stopped, pktTime, rpc, pending, timers,
                 nread, blocks, naks, txBlocks, curM, ackWait>>

CloseStop ==
  /\ kpc = "cancelled"
  /\ kpc' = "stopped" /\ Stop
  /\ UNCHANGED <<queueVars, paramVars, cancelled, pktTime, size, interval, nextReset,
                 pkts, sent, backlog, rpc, pending, timers, nread, blocks, naks, txBlocks,
                 curM, ackWait>>

CloseRest ==
  /\ kpc = "stopped"
  /\ kpc' = "done"
  /\ timers' \in {timers, timers - 1} \cap Nat
  /\ UNCHANGED <<shaperVars, rpc, pending, nread, blocks, naks, txBlocks, curM, ackWait>>

\* External: the clock.
Tick ==
  /\ nextReset > 0 \/ backlog > 0 \/ ackWait > 0
  /\ Elapse
  /\ ackWait' = IF ackWait > 0 THEN ackWait - 1 ELSE 0
  /\ UNCHANGED <<rpc, pending, timers, nread, blocks, naks, txBlocks, curM, kpc>>

Run == RunStep /\ UNCHANGED senderVars

Reader == CheckQueue \/ DrainDone \/ SendClose \/ ReaderAborts

Closer == CloseStop \/ CloseRest

Next ==
  \/ Run \/ Tick \/ Reader \/ Closer
  \/ ReadTCP \/ ReadEOF \/ ReadFails \/ CloseCancel
  \/ FlushPendingBlock \/ HandleNak \/ \E g \in txBlocks : HandleLQR(g)

Spec == Init /\ [][Next]_vars

\* The goroutines run, the clock goes on and timers fire.
Fairness ==
  /\ WF_vars(Run) /\ WF_vars(Tick) /\ WF_vars(FlushPendingBlock)
  /\ WF_vars(Reader) /\ WF_vars(Closer)

FairSpec == Spec /\ Fairness

-----------------------------------------------------------------------------
(* Properties.                                                             *)

\* Packets leave the shaper in the order in which they were put in, each once.
Queue == INSTANCE Fifo WITH accepted <- accepted, sent <- sent

Fifo == Queue!Spec

\* Shaper.Run: what the link still has to carry fits in the time until the next burst, so
\* every burst finds the link free, whatever the parameters were when it waited.
LinkNotOverrun == backlog <= nextReset

\* readTCPRun, backpressure: however the block timer interleaves with the check and the
\* blocking read after it, at most two blocks are queued beyond the limit.
\* Retransmissions are not counted.
QueueBounded ==
  Cardinality({j \in 1 .. Len(queue) : queue[j].grp # 0})
    <= QueueLimit + 2 * (FEC_K + FEC_M)

\* "Apply backpressure to prevent shaper queue bloat and spurious NAKs" (readTCPRun):
\* the same for the whole queue.  HandleNak does not look at its length.
NoQueueBloat == Len(queue) <= QueueLimit + 2 * (FEC_K + FEC_M)

\* The blocks that have packets in s.
Groups(s) == {s[j].grp : j \in DOMAIN s}

\* readTCPRun, deferred function: QueueLen() = 0 does not mean that the last burst is
\* sent.  CLOSE, which does not go through the shaper, still comes after every packet of
\* a block that has no LQR.
CloseIsLast ==
  rpc = "closed" => (Groups(queue) \cup Groups(pkts)) \cap txBlocks = {}

\* Enqueue, Run: what is queued is all sent in the end, unless the Session is closed; no
\* wake-up is lost.
EverySent == (Len(sent) < accepted) ~> (Len(sent) = accepted \/ cancelled)

\* Stop, Run: the loop ends after Close, wherever it was; cancelling the context does
\* not wake it from cond.Wait.
RunEnds == cancelled ~> (spc = "done")

\* readTCPRun: after EOF the peer is told, or the Session is closed.
CloseIsSent == (rpc = "drain") ~> (rpc \in {"closed", "gone"})
=============================================================================
