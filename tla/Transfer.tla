------------------------------ MODULE Transfer ------------------------------
(***************************************************************************)
(* One direction of a session of tcp-pep-go (proxy/session.go): the        *)
(* sending half of the Session at one PEP, the receiving half of the       *)
(* Session at the other PEP, and the UDP path in between.                  *)
(*                                                                         *)
(*   TCP in -> readTCPRun -> flushPendingBlockLocked -> shaper, UDP ->     *)
(*          -> HandleDataPacket -> tryDecodeBlock -> writeTCPRun -> TCP out *)
(*   feedback: handleLQRTimeout -> LQR -> HandleLQR (adaptive parity)      *)
(*             sendNakPeriodic  -> NAK -> HandleNak (HARQ retransmission)  *)
(*                                                                         *)
(* The shaper's queue and the UDP network together are one channel that    *)
(* may delay, reorder, duplicate and lose datagrams.  The reverse          *)
(* direction of the session stays open throughout, so neither Session is   *)
(* torn down by Close.                                                     *)
(*                                                                         *)
(* Data.  A segment, what one Conn.Read returned, is its ordinal number.   *)
(* A flushed block is the sequence of its segments; padding shards are     *)
(* the positions beyond its length.  The payload of shard i of the b-th    *)
(* flushed block is represented by b: a receiver slot holds the number of  *)
(* the block its payload was cut or encoded from, and 0 when it is nil.    *)
(***************************************************************************)
EXTENDS Integers, Sequences, FiniteSets

CONSTANTS
  FEC_K,           \* data shards per block
  FEC_M,           \* maximum parity shards per block
  OkRun,           \* clean reports before parity is lowered (5 in the code)
  Half,            \* half of the group number space (32768 for uint16)
  SeqSpace,        \* size of the sequence number space (256 for byte)
  TxKeep,          \* txBlocks entries older than this are dropped (100)
  TxStale,         \* ... unless they are at least this far behind (60000)
  MaxReads,        \* bound: segments read from TCP in one behaviour
  MaxLosses,       \* bound: datagrams the network loses in one behaviour
  WholeBlockLoss,  \* may the network lose every packet of a block?
  Duplicates       \* may a datagram that has arrived arrive again?

GroupSpace == 2 * Half

ASSUME TransferAssumption ==
  /\ FEC_K \in Nat \ {0}
  /\ FEC_M \in Nat
  /\ OkRun \in Nat \ {0}
  /\ Half \in Nat \ {0}
  /\ SeqSpace \in Nat /\ FEC_K <= SeqSpace
  /\ TxKeep \in Nat /\ TxStale \in Nat /\ TxKeep + 1 < TxStale
  /\ TxStale <= 2 * Half
  /\ MaxReads \in Nat /\ MaxLosses \in Nat
  /\ WholeBlockLoss \in BOOLEAN /\ Duplicates \in BOOLEAN

Groups  == 0 .. (GroupSpace - 1)
Seqs    == 0 .. (SeqSpace - 1)
DataIdx == 0 .. (FEC_K - 1)
Idx     == 0 .. (FEC_K + FEC_M - 1)

Corrupt == -1     \* payload reconstructed from shards of different blocks

VARIABLES
  \* sender: readTCPRun, HandleNak, HandleLQR
  rpc,            \* readTCPRun: "reading", "draining" (EOF seen), "closing"
  nread,          \* segments read so far
  pendingData,    \* segments of the block being filled
  flushTimers,    \* flushPendingBlock callbacks that have not run yet
  nextGroupID, nextSeqNum, curM, consecutiveOk,
  txBlocks,       \* groups not yet acknowledged by an LQR
  harqCache,      \* sequence number -> data packet
  blocks,         \* history: the blocks flushed so far
  \* the channel: datagrams in flight, by type
  wire, naks, lqrs, closes,
  lost,           \* datagrams lost so far
  \* receiver: Start, HandleDataPacket, handleLQRTimeout, writeTCPRun
  started,        \* Start has initialised the first receive block
  rxBlocks, nakLoops, nextWriteGrp, maxRecvGrp, hasRecv, closeRecv,
  wpc,            \* writeTCPRun: "wait", "write", "leaving", "done", "failed"
  wi,             \* the shard writeTCPRun writes next
  out             \* segments written to TCP

senderVars   == <<rpc, nread, pendingData, flushTimers, nextGroupID,
                  nextSeqNum, curM, consecutiveOk, txBlocks, harqCache, blocks>>
channelVars  == <<wire, naks, lqrs, closes, lost>>
receiverVars == <<started, rxBlocks, nakLoops, nextWriteGrp, maxRecvGrp,
                  hasRecv, closeRecv, wpc, wi, out>>
vars == <<senderVars, channelVars, receiverVars>>

-----------------------------------------------------------------------------
(* uint16 arithmetic on group numbers.                                     *)

Succ(g) == IF g = GroupSpace - 1 THEN 0 ELSE g + 1

\* a - b in uint16
Diff(a, b) == IF a >= b THEN a - b ELSE a - b + GroupSpace

\* diff := a - b; diff > 0 && diff < 32768
After(a, b) == 0 < Diff(a, b) /\ Diff(a, b) < Half

\* Mutant: the sender numbers data packets only, the receiver all packets.
SeqNumOfAllPackets(g, i) == (((g * (FEC_K + FEC_M)) % SeqSpace) + i) % SeqSpace

\* The sequence number the receiver computes for shard i of group g.
SeqNum(g, i) == (((g * FEC_K) % SeqSpace) + i) % SeqSpace

-----------------------------------------------------------------------------
(* Packets and receive blocks.                                             *)

Packet(g, i, b) == [grp |-> g, idx |-> i, blk |-> b]
NoPacket == Packet(0, 0, 0)

NewRxBlock == [pkts |-> [i \in Idx |-> 0], cnt |-> 0,
               reported |-> FALSE, decoded |-> FALSE]

\* External: the UDP path.  The datagrams in flight after d has arrived.
Taken(inFlight, d) == IF Duplicates THEN inFlight ELSE inFlight \ {d}

\* FEC.Encode and FEC.Reconstruct (Reed-Solomon).  FEC_K shards of one block determine the
\* block; shards of different blocks yield the bytes of neither.
Codeword(pkts) ==
  LET present == {pkts[i] : i \in Idx} \ {0}
  IN  IF \E b \in present : present = {b}
        THEN CHOOSE b \in present : TRUE
        ELSE Corrupt

EnoughShards(pkts) == Cardinality({i \in Idx : pkts[i] # 0}) >= FEC_K

Store(block, p) ==
  IF block.pkts[p.idx] = 0
    THEN [block EXCEPT !.pkts = [@ EXCEPT ![p.idx] = p.blk], !.cnt = @ + 1]
    ELSE block

TryDecodeBlock(block) ==
  IF block.cnt >= FEC_K /\ ~block.decoded /\ EnoughShards(block.pkts)
    THEN [block EXCEPT
            !.pkts = [i \in Idx |-> IF i \in DataIdx /\ block.pkts[i] = 0
                                      THEN Codeword(block.pkts)
                                      ELSE block.pkts[i]],
            !.decoded = TRUE]
    ELSE block

\* Mutant: the parity packets received are counted but not expected.
LossesIgnoringParity(block) == FEC_K - block.cnt

\* The losses a link quality report states for a block: the data shards and the
\* shards up to the last parity shard received are expected.  The code clamps
\* the result to a byte; LossesInRange says that it need not.
Losses(block) ==
  LET expected == DataIdx \cup
        {j \in Idx : \E i \in Idx \ DataIdx : block.pkts[i] # 0 /\ j <= i}
  IN  Cardinality(expected) - block.cnt

WithBlock(g, block) ==
  [h \in DOMAIN rxBlocks \cup {g} |-> IF h = g THEN block ELSE rxBlocks[h]]

-----------------------------------------------------------------------------
Init ==
  /\ rpc = "reading" /\ nread = 0 /\ pendingData = <<>> /\ flushTimers = 0
  /\ nextGroupID = 0 /\ nextSeqNum = 0 /\ curM = FEC_M /\ consecutiveOk = 0
  /\ txBlocks = {} /\ harqCache = [s \in Seqs |-> NoPacket] /\ blocks = <<>>
  /\ wire = {} /\ naks = {} /\ lqrs = {} /\ closes = FALSE /\ lost = 0
  /\ started = FALSE
  /\ rxBlocks = [g \in {} |-> NewRxBlock] /\ nakLoops = {}
  /\ nextWriteGrp = 0 /\ maxRecvGrp = 0 /\ hasRecv = FALSE /\ closeRecv = FALSE
  /\ wpc = "wait" /\ wi = 0 /\ out = <<>>

-----------------------------------------------------------------------------
(* The sender.                                                             *)

\* Mutant: no clean-up.
KeptAllTxBlocks(g) == txBlocks

\* Entries of txBlocks that survive the clean-up when group g is flushed.
KeptTxBlocks(g) ==
  {id \in txBlocks : ~(Diff(g, id) > TxKeep /\ Diff(g, id) < TxStale)}

\* The HARQ cache after the data shards of block b of group g are cached.
CachedData(g, b) ==
  [s \in Seqs |-> LET i == (s - nextSeqNum) % SeqSpace
                  IN  IF i < FEC_K THEN Packet(g, i, b) ELSE harqCache[s]]

\* flushPendingBlockLocked with the non-empty block pd as pendingData.
FlushPendingBlockLocked(pd) ==
  LET g == nextGroupID
      b == Len(blocks) + 1
  IN  /\ blocks' = Append(blocks, pd)
      /\ nextGroupID' = Succ(g)
      /\ nextSeqNum' = (nextSeqNum + FEC_K) % SeqSpace
      /\ harqCache' = CachedData(g, b)
      /\ wire' = wire \cup {Packet(g, i, b) : i \in 0 .. (FEC_K + curM - 1)}
      /\ txBlocks' = KeptTxBlocks(g) \cup {g}
      /\ pendingData' = <<>>

NoFlush == UNCHANGED <<blocks, nextGroupID, nextSeqNum, harqCache, wire, txBlocks>>

\* Mutant: the timer is armed before the segment is appended, on an empty block.
ArmedWhenEmpty(pd) == IF Len(pd) = 0 THEN flushTimers + 1 ELSE flushTimers

\* The first segment of a block arms a flush timer.
Armed(pd) == IF Len(pd) = 1 THEN flushTimers + 1 ELSE flushTimers

\* readTCPRun: Conn.Read returned data.  Stopping the timer of a full block comes too
\* late when the callback is already waiting for muSend.
ReadTCP ==
  LET pd == Append(pendingData, nread + 1)
  IN  /\ rpc = "reading"
      /\ nread < MaxReads
      /\ nread' = nread + 1
      /\ \/ /\ Len(pd) < FEC_K
            /\ flushTimers' = Armed(pd)
            /\ pendingData' = pd
            /\ NoFlush
         \/ /\ Len(pd) >= FEC_K
            /\ flushTimers' \in {Armed(pd) - 1, Armed(pd)}
            /\ FlushPendingBlockLocked(pd)
      /\ UNCHANGED <<rpc, curM, consecutiveOk, naks, lqrs, closes, lost, receiverVars>>

\* flushPendingBlock: the callback of a block timer.
FlushPendingBlock ==
  /\ flushTimers > 0
  /\ flushTimers' = flushTimers - 1
  /\ \/ pendingData = <<>> /\ NoFlush /\ UNCHANGED pendingData
     \/ pendingData # <<>> /\ FlushPendingBlockLocked(pendingData)
  /\ UNCHANGED <<rpc, nread, curM, consecutiveOk, naks, lqrs, closes, lost, receiverVars>>

\* readTCPRun: Conn.Read returned EOF; the deferred function flushes the rest.
ReadEOF ==
  /\ rpc = "reading"
  /\ rpc' = "draining"
  /\ \/ pendingData = <<>> /\ NoFlush /\ UNCHANGED pendingData
     \/ pendingData # <<>> /\ FlushPendingBlockLocked(pendingData)
  /\ UNCHANGED <<nread, flushTimers, curM, consecutiveOk, naks, lqrs, closes, lost,
                 receiverVars>>

SendClose ==
  /\ rpc = "draining"
  /\ rpc' = "closing"
  /\ closes' = TRUE
  /\ UNCHANGED <<nread, pendingData, flushTimers, nextGroupID, nextSeqNum, curM,
                 consecutiveOk, txBlocks, harqCache, blocks, wire, naks, lqrs,
                 lost, receiverVars>>

\* Every sent block has been acknowledged by an LQR.
CloseAcked == txBlocks = {} /\ SendClose

\* Three seconds have passed since the shaper queue was empty.
CloseTimeout == txBlocks # {} /\ SendClose

\* The ticker of the CLOSE goroutine: retransmit CLOSE.
CloseTick ==
  /\ rpc = "closing"
  /\ closes' = TRUE
  /\ UNCHANGED <<senderVars, wire, naks, lqrs, lost, receiverVars>>

\* A NAK arrives; a hit in the cache is queued for retransmission.
HandleNak(s) ==
  /\ s \in naks
  /\ naks' = Taken(naks, s)
  /\ wire' = wire \cup ({harqCache[s]} \ {NoPacket})
  /\ UNCHANGED <<senderVars, lqrs, closes, lost, receiverVars>>

\* Mutant: parity is not limited to FEC_M.
AdaptParityUnlimited(losses) ==
  /\ curM' = IF losses > 0 /\ curM < losses + 1 THEN losses + 1 ELSE curM
  /\ consecutiveOk' = 0

\* The parity after a report of the given losses on an unacknowledged block.
AdaptParity(losses) ==
  IF losses = 0
    THEN IF consecutiveOk + 1 >= OkRun
           THEN /\ curM' = IF curM > 0 THEN curM - 1 ELSE curM
                /\ consecutiveOk' = 0
           ELSE /\ consecutiveOk' = consecutiveOk + 1
                /\ UNCHANGED curM
    ELSE LET newM == IF losses + 1 > FEC_M THEN FEC_M ELSE losses + 1
         IN  /\ consecutiveOk' = 0
             /\ curM' = IF curM < newM THEN newM ELSE curM

\* Mutant: a report acknowledges whatever is waiting for one.
HandleLQRAny(m) ==
  /\ m \in lqrs
  /\ lqrs' = Taken(lqrs, m)
  /\ AdaptParity(m.losses) /\ txBlocks' = {}
  /\ UNCHANGED <<rpc, nread, pendingData, flushTimers, nextGroupID, nextSeqNum,
                 harqCache, blocks, wire, naks, closes, lost, receiverVars>>

\* An LQR arrives.
HandleLQR(m) ==
  /\ m \in lqrs
  /\ lqrs' = Taken(lqrs, m)
  /\ IF m.grp \in txBlocks
       THEN AdaptParity(m.losses) /\ txBlocks' = txBlocks \ {m.grp}
       ELSE UNCHANGED <<curM, consecutiveOk, txBlocks>>
  /\ UNCHANGED <<rpc, nread, pendingData, flushTimers, nextGroupID, nextSeqNum,
                 harqCache, blocks, wire, naks, closes, lost, receiverVars>>

-----------------------------------------------------------------------------
(* The receiver.                                                           *)

recvClosed == wpc \in {"done", "failed"}

\* Session.Start, after the goroutines run and packets may already come in:
\* the first receive block is created unless some block exists.
StartRecv ==
  /\ ~started
  /\ started' = TRUE
  /\ rxBlocks' = IF DOMAIN rxBlocks = {} THEN WithBlock(0, NewRxBlock) ELSE rxBlocks
  /\ UNCHANGED <<senderVars, channelVars, nakLoops, nextWriteGrp, maxRecvGrp, hasRecv,
                 closeRecv, wpc, wi, out>>

\* The receive block of packet p after p is stored in it.
Received(p) ==
  LET block == IF p.grp \in DOMAIN rxBlocks THEN rxBlocks[p.grp] ELSE NewRxBlock
  IN  TryDecodeBlock(Store(block, p))

\* Mutant: packets of groups already written are not dropped.
HandleDataPacketLate(p) ==
  /\ p \in wire
  /\ wire' = Taken(wire, p)
  /\ IF recvClosed
       THEN UNCHANGED <<hasRecv, maxRecvGrp, rxBlocks>>
       ELSE /\ hasRecv' = TRUE
            /\ maxRecvGrp' = IF ~hasRecv \/ After(p.grp, maxRecvGrp)
                               THEN p.grp ELSE maxRecvGrp
            /\ rxBlocks' = WithBlock(p.grp, Received(p))
  /\ UNCHANGED <<senderVars, naks, lqrs, closes, lost, started, nakLoops, nextWriteGrp,
                 closeRecv, wpc, wi, out>>

HandleDataPacket(p) ==
  /\ p \in wire
  /\ wire' = Taken(wire, p)
  /\ IF recvClosed
       THEN UNCHANGED <<hasRecv, maxRecvGrp, rxBlocks>>
       ELSE /\ hasRecv' = TRUE
            /\ maxRecvGrp' = IF ~hasRecv \/ After(p.grp, maxRecvGrp)
                               THEN p.grp ELSE maxRecvGrp
            /\ rxBlocks' = IF After(nextWriteGrp, p.grp)
                             THEN rxBlocks ELSE WithBlock(p.grp, Received(p))
  /\ UNCHANGED <<senderVars, naks, lqrs, closes, lost, started, nakLoops, nextWriteGrp,
                 closeRecv, wpc, wi, out>>

\* handleLQRTimeout run by the block's LQR timer.
HandleLQRTimeout(g) ==
  /\ g \in DOMAIN rxBlocks
  /\ ~rxBlocks[g].reported
  /\ rxBlocks' = [rxBlocks EXCEPT ![g].reported = TRUE]
  /\ lqrs' = lqrs \cup {[grp |-> g, losses |-> Losses(rxBlocks[g])]}
  /\ nakLoops' = nakLoops \cup {g}
  /\ UNCHANGED <<senderVars, wire, naks, closes, lost, started, nextWriteGrp,
                 maxRecvGrp, hasRecv, closeRecv, wpc, wi, out>>

Incomplete(g) == g \in DOMAIN rxBlocks /\ ~rxBlocks[g].decoded

\* Data shard i of the incomplete block of group g is to be asked for.
Missing(g, i) == /\ Incomplete(g)
                 /\ rxBlocks[g].cnt < FEC_K
                 /\ rxBlocks[g].pkts[i] = 0

\* Mutant: the NAKs of a block are sent once and not repeated.
SendNakOnce(g) ==
  /\ g \in nakLoops
  /\ nakLoops' = nakLoops \ {g}
  /\ naks' = naks \cup {SeqNum(g, i) : i \in {j \in DataIdx : Missing(g, j)}}
  /\ UNCHANGED <<senderVars, wire, lqrs, closes, lost, started, rxBlocks, nextWriteGrp,
                 maxRecvGrp, hasRecv, closeRecv, wpc, wi, out>>

\* sendNakPeriodic: ends with the block, else asks for the missing data shards.
SendNakPeriodic(g) ==
  /\ g \in nakLoops
  /\ \/ /\ ~Incomplete(g)
        /\ nakLoops' = nakLoops \ {g}
        /\ UNCHANGED naks
     \/ /\ Incomplete(g)
        /\ naks' = naks \cup {SeqNum(g, i) : i \in {j \in DataIdx : Missing(g, j)}}
        /\ UNCHANGED nakLoops
  /\ UNCHANGED <<senderVars, wire, lqrs, closes, lost, started, rxBlocks, nextWriteGrp,
                 maxRecvGrp, hasRecv, closeRecv, wpc, wi, out>>

HandleClose ==
  /\ closes
  /\ closes' = Duplicates
  /\ closeRecv' = TRUE
  /\ UNCHANGED <<senderVars, wire, naks, lqrs, lost, started, rxBlocks, nakLoops,
                 nextWriteGrp, maxRecvGrp, hasRecv, wpc, wi, out>>

\* Mutant: the writer does not wait for the last shard.
NextIsNearlyComplete ==
  nextWriteGrp \in DOMAIN rxBlocks /\ rxBlocks[nextWriteGrp].cnt >= FEC_K - 1

NextIsDecoded ==
  nextWriteGrp \in DOMAIN rxBlocks /\ rxBlocks[nextWriteGrp].decoded

\* writeTCPRun: the next group is ready.
WriterTake ==
  /\ wpc = "wait"
  /\ NextIsDecoded
  /\ wpc' = "write" /\ wi' = 0
  /\ UNCHANGED <<senderVars, channelVars, started, rxBlocks, nakLoops, nextWriteGrp,
                 maxRecvGrp, hasRecv, closeRecv, out>>

\* The segment in data shard i of the block being written; <<>> for padding, and
\* for a slot that is nil.
ShardData(i) ==
  LET b == rxBlocks[nextWriteGrp].pkts[i]
  IN  IF b = 0 THEN <<>>
      ELSE IF b = Corrupt THEN <<Corrupt>>
      ELSE IF i < Len(blocks[b]) THEN <<blocks[b][i + 1]>> ELSE <<>>

\* writeTCPRun: write one shard to the TCP connection.
WriteShard ==
  /\ wpc = "write" /\ wi < FEC_K
  /\ out' = out \o ShardData(wi)
  /\ wi' = wi + 1
  /\ UNCHANGED <<senderVars, channelVars, started, rxBlocks, nakLoops, nextWriteGrp,
                 maxRecvGrp, hasRecv, closeRecv, wpc>>

\* writeTCPRun: Conn.Write failed.
WriteFails ==
  /\ wpc = "write" /\ wi < FEC_K
  /\ ShardData(wi) # <<>>
  /\ wpc' = "failed"
  /\ UNCHANGED <<senderVars, channelVars, started, rxBlocks, nakLoops, nextWriteGrp,
                 maxRecvGrp, hasRecv, closeRecv, wi, out>>

\* Mutant: the written block is neither dropped nor passed.
WriterCleanupInPlace ==
  /\ wpc = "write" /\ wi = FEC_K
  /\ wpc' = "wait" /\ wi' = 0
  /\ UNCHANGED <<senderVars, channelVars, started, rxBlocks, nakLoops, nextWriteGrp,
                 maxRecvGrp, hasRecv, closeRecv, out>>

\* writeTCPRun: report the written block if its timer has not, and drop it.
WriterCleanup ==
  LET g == nextWriteGrp
      block == rxBlocks[g]
  IN  /\ wpc = "write" /\ wi = FEC_K
      /\ wpc' = "wait" /\ wi' = 0
      /\ IF block.reported
           THEN UNCHANGED <<lqrs, nakLoops>>
           ELSE /\ lqrs' = lqrs \cup {[grp |-> g, losses |-> Losses(block)]}
                /\ nakLoops' = nakLoops \cup {g}
      /\ rxBlocks' = [h \in DOMAIN rxBlocks \ {g} |-> rxBlocks[h]]
      /\ nextWriteGrp' = Succ(g)
      /\ UNCHANGED <<senderVars, wire, naks, closes, lost, started, maxRecvGrp, hasRecv,
                     closeRecv, out>>

\* Mutant: the last group counts as written while it is the next to write.
NoneSeenAhead == ~hasRecv \/ ~After(maxRecvGrp, nextWriteGrp)

\* Mutant: a CLOSE before any data does not end the writer.
AllSeenWrittenIfAny == hasRecv /\ After(nextWriteGrp, maxRecvGrp)

\* Everything up to maxRecvGrp is written.
AllSeenWritten == ~hasRecv \/ After(nextWriteGrp, maxRecvGrp)

\* writeTCPRun: CLOSE was received and everything up to maxRecvGrp is written; the loop
\* returns and gives up muRecv.
WriterExit ==
  /\ wpc = "wait"
  /\ ~NextIsDecoded
  /\ closeRecv
  /\ AllSeenWritten
  /\ wpc' = "leaving"
  /\ UNCHANGED <<senderVars, channelVars, started, rxBlocks, nakLoops, nextWriteGrp,
                 maxRecvGrp, hasRecv, closeRecv, wi, out>>

\* The deferred function of writeTCPRun takes muRecv again and sets recvClosed.
WriterLeave ==
  /\ wpc = "leaving"
  /\ wpc' = "done"
  /\ UNCHANGED <<senderVars, channelVars, started, rxBlocks, nakLoops, nextWriteGrp,
                 maxRecvGrp, hasRecv, closeRecv, wi, out>>

-----------------------------------------------------------------------------
(* The network loses a datagram.                                           *)

\* The receiver has a packet of p's block, or another one is in flight.
AnotherSurvives(p) ==
  \/ p.grp \in DOMAIN rxBlocks \/ After(nextWriteGrp, p.grp)
  \/ \E q \in wire : q # p /\ q.blk = p.blk

Lose ==
  /\ lost < MaxLosses
  /\ lost' = lost + 1
  /\ \/ /\ \E p \in wire : /\ WholeBlockLoss \/ AnotherSurvives(p)
                           /\ wire' = wire \ {p}
        /\ UNCHANGED <<naks, lqrs, closes>>
     \/ /\ \E s \in naks : naks' = naks \ {s}
        /\ UNCHANGED <<wire, lqrs, closes>>
     \/ /\ \E m \in lqrs : lqrs' = lqrs \ {m}
        /\ UNCHANGED <<wire, naks, closes>>
     \/ /\ closes /\ closes' = FALSE
        /\ UNCHANGED <<wire, naks, lqrs>>
  /\ UNCHANGED <<senderVars, receiverVars>>

-----------------------------------------------------------------------------
DataPath ==
  \/ ReadTCP \/ FlushPendingBlock
  \/ \E s \in naks : HandleNak(s)
  \/ \E m \in lqrs : HandleLQR(m)
  \/ StartRecv
  \/ \E p \in wire : HandleDataPacket(p)
  \/ \E g \in Groups : HandleLQRTimeout(g) \/ SendNakPeriodic(g)
  \/ WriterTake \/ WriteShard \/ WriterCleanup
  \/ Lose

Ending ==
  \/ ReadEOF \/ CloseAcked \/ CloseTimeout \/ CloseTick
  \/ HandleClose \/ WriterExit \/ WriterLeave \/ WriteFails

Next == DataPath \/ Ending

Spec == Init /\ [][Next]_vars

\* Every goroutine, timer and datagram in flight makes progress; the network
\* stops losing datagrams when its budget is spent.
Fairness ==
  /\ WF_vars(FlushPendingBlock) /\ WF_vars(StartRecv)
  /\ \A s \in Seqs : WF_vars(HandleNak(s))
  /\ \A b \in 1 .. MaxReads, i \in Idx :
       WF_vars(HandleDataPacket(Packet((b - 1) % GroupSpace, i, b)))
  /\ \A g \in Groups : WF_vars(HandleLQRTimeout(g)) /\ WF_vars(SendNakPeriodic(g))
  /\ WF_vars(WriterTake \/ WriteShard \/ WriterCleanup)

\* The two TCP connections stay open and healthy.
OpenSpec == Init /\ [][DataPath]_vars /\ Fairness

\* The read loop has ended or may end; the CLOSE goroutine runs.
FairSpec ==
  /\ Spec /\ Fairness
  /\ WF_vars(CloseAcked \/ CloseTimeout) /\ WF_vars(CloseTick)
  /\ WF_vars(HandleClose) /\ WF_vars(WriterExit \/ WriterLeave)

-----------------------------------------------------------------------------
(* Properties.                                                             *)

Packets == [grp : Groups, idx : Idx, blk : Nat \ {0}]

RxBlockType == [pkts : [Idx -> Int], cnt : Nat,
                reported : BOOLEAN, decoded : BOOLEAN]

SenderTypeOK ==
  /\ rpc \in {"reading", "draining", "closing"}
  /\ nread \in 0 .. MaxReads
  /\ pendingData \in Seq(Nat) /\ Len(pendingData) < FEC_K
  /\ flushTimers \in Nat
  /\ nextGroupID \in Groups /\ nextSeqNum \in Seqs
  /\ curM \in 0 .. FEC_M /\ consecutiveOk \in 0 .. (OkRun - 1)
  /\ txBlocks \subseteq Groups
  /\ harqCache \in [Seqs -> Packets \cup {NoPacket}]
  /\ blocks \in Seq(Seq(Nat))

ChannelTypeOK ==
  /\ wire \subseteq Packets
  /\ naks \subseteq Seqs
  /\ lqrs \subseteq [grp : Groups, losses : Int]
  /\ closes \in BOOLEAN
  /\ lost \in 0 .. MaxLosses

ReceiverTypeOK ==
  /\ started \in BOOLEAN
  /\ DOMAIN rxBlocks \subseteq Groups
  /\ rxBlocks \in [DOMAIN rxBlocks -> RxBlockType]
  /\ nakLoops \subseteq Groups
  /\ nextWriteGrp \in Groups /\ maxRecvGrp \in Groups
  /\ hasRecv \in BOOLEAN /\ closeRecv \in BOOLEAN
  /\ wpc \in {"wait", "write", "leaving", "done", "failed"} /\ wi \in 0 .. FEC_K
  /\ out \in Seq(Int)

\* Every variable of both Sessions stays in its type: parity in 0..FEC_M, the
\* run of clean reports below OkRun, a pending block shorter than FEC_K.
TypeOK == SenderTypeOK /\ ChannelTypeOK /\ ReceiverTypeOK

\* The losses of a report (a byte on the wire) are at least 0 and at most the
\* number of packets of a block, whatever was reconstructed or duplicated: the
\* clamps in handleLQRTimeout never act.
LossesInRange == \A m \in lqrs : m.losses \in 0 .. (FEC_K + FEC_M)

\* The TCP output of writeTCPRun is a prefix of what readTCPRun read: nothing
\* is reordered, repeated, skipped or altered by loss, duplication,
\* reconstruction or retransmission.
OutIsPrefix == Len(out) <= nread /\ out = [j \in 1 .. Len(out) |-> j]

\* A data shard that a receive block still misses can be recovered: once the
\* sender has flushed the group, its HARQ cache holds that very shard under the
\* sequence number that sendNakPeriodic asks for.
NakFindsShard ==
  \A b \in 1 .. Len(blocks) : \A i \in DataIdx :
    LET g == (b - 1) % GroupSpace
    IN  g \in DOMAIN rxBlocks /\ rxBlocks[g].pkts[i] = 0 /\ ~After(nextWriteGrp, g)
          => harqCache[SeqNum(g, i)] = Packet(g, i, b)

\* writeTCPRun decides to end on CLOSE only when every block of which a packet has been
\* received is written.
SeenIsWritten ==
  [][wpc' = "leaving" /\ wpc # "leaving" =>
       \A g \in DOMAIN rxBlocks : rxBlocks[g].cnt = 0 \/ After(nextWriteGrp, g)]_vars

\* Data waiting in pendingData is never stranded: while the connection is read,
\* a flushPendingBlock callback is still to come.
PendingHasTimer == rpc = "reading" /\ pendingData # <<>> => flushTimers > 0

\* The clean-up in flushPendingBlockLocked bounds txBlocks, across the wrap of
\* the group number: no entry is more than TxKeep groups old.
TxBlocksRecent ==
  \A id \in txBlocks : Diff(nextGroupID, id) \in 1 .. (TxKeep + 1)

\* What one direction promises: the out-going stream of ByteStream, with the segments read
\* at one PEP and those written at the other.
Stream == INSTANCE ByteStream WITH MaxReads <- MaxReads, nread <- nread, out <- out
StreamSpec == Stream!Spec

\* Everything read is eventually written by writeTCPRun, whichever datagrams are
\* lost, while both TCP connections stay open.
Delivered == \A n \in 1 .. MaxReads : (nread >= n) ~> (Len(out) >= n)

\* Once the source connection has ended, the writer at the other PEP ends too,
\* and with it the destination connection is half-closed.
CloseEnds == (rpc # "reading") ~> recvClosed

\* "If we received CLOSE, and we have written everything up to maxRecvGrp, we can
\* safely terminate the loop" (writeTCPRun): a writer that ends on CLOSE has
\* written everything that was read.
CloseIsSafe == wpc = "done" => Len(out) = nread

\* A packet of group g has arrived.
Arrived(g) ==
  (g \in DOMAIN rxBlocks /\ rxBlocks[g].cnt > 0) \/ After(nextWriteGrp, g)

\* HandleLQR: a block is taken for acknowledged only after a packet of it has arrived.
\* Group 0 is excepted: Start creates its receive block, and with it the report, early.
ReportedHasArrived ==
  [][nextGroupID' = nextGroupID =>
       \A g \in txBlocks \ txBlocks' : g = 0 \/ Arrived(g)]_vars

\* HandleDataPacket: late and duplicated packets do not bring back a block that was
\* written, with its timer and its NAKs.  Only group 0, which Start may create late, can
\* stand behind the writer.
OnlyFirstBehindWriter == \A g \in DOMAIN rxBlocks : After(nextWriteGrp, g) => g = 0

\* "Wait for all sent blocks to be acknowledged by LQR from the receiver"
\* (readTCPRun): when the wait ends that way, a packet of every block has arrived.
AckedHasArrived ==
  [][CloseAcked => \A b \in 1 .. Len(blocks) : Arrived((b - 1) % GroupSpace)]_vars

\* "Initialize the first receive block (GroupID 0) to recover from early packet
\* loss" (Start): no receive block stands for a group already written.
NoBlockBehindWriter == \A g \in DOMAIN rxBlocks : ~After(nextWriteGrp, g)
=============================================================================
