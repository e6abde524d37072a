--------------------------- MODULE TransferProofs ---------------------------
(***************************************************************************)
(* Theorems about Transfer, for every value of its constants.              *)
(***************************************************************************)
EXTENDS Transfer, TLAPS, FiniteSetTheorems, SequenceTheorems

-----------------------------------------------------------------------------
(* Facts about the operators.                                              *)

\* The receive slots are finitely many.
LEMMA IdxFinite == IsFiniteSet(Idx)
<1>1. 0 \in Int /\ FEC_K + FEC_M - 1 \in Int
  BY TransferAssumption
<1> QED
  BY <1>1, FS_Interval DEF Idx

\* The losses of a report are an integer.
LEMMA LossesType ==
  ASSUME NEW block \in RxBlockType
  PROVE  Losses(block) \in Int
<1> DEFINE expected == DataIdx \cup
        {j \in Idx : \E i \in Idx \ DataIdx : block.pkts[i] # 0 /\ j <= i}
<1>1. expected \subseteq Idx
  BY TransferAssumption DEF Idx, DataIdx
<1>2. IsFiniteSet(expected)
  BY <1>1, IdxFinite, FS_Subset
<1>3. Cardinality(expected) \in Nat
  BY <1>2, FS_CardinalityType
<1> QED
  BY <1>3 DEF Losses, RxBlockType

\* Storing a packet yields a receive block.
LEMMA StoreType ==
  ASSUME NEW block \in RxBlockType, NEW p \in Packets
  PROVE  Store(block, p) \in RxBlockType
<1> DEFINE q == [block.pkts EXCEPT ![p.idx] = p.blk]
<1>1. /\ block.pkts \in [Idx -> Int] /\ block.cnt \in Nat
      /\ p.idx \in Idx /\ p.blk \in Int
  BY DEF RxBlockType, Packets
<1>2. q \in [Idx -> Int] /\ block.cnt + 1 \in Nat
  BY <1>1
<1> HIDE DEF q
<1>3. [block EXCEPT !.pkts = q, !.cnt = block.cnt + 1] \in RxBlockType
  BY <1>2, Zenon DEF RxBlockType
<1> QED
  BY <1>3 DEF Store, q

\* tryDecodeBlock yields a receive block.
LEMMA ReceivedType ==
  ASSUME NEW block \in RxBlockType, NEW p \in Packets
  PROVE  TryDecodeBlock(Store(block, p)) \in RxBlockType
<1>1. Store(block, p) \in RxBlockType
  BY StoreType
<1>2. ASSUME NEW b \in RxBlockType
      PROVE  TryDecodeBlock(b) \in RxBlockType
  <2>1. Codeword(b.pkts) \in Int
    BY <1>2 DEF Codeword, Corrupt, RxBlockType
  <2> QED
    BY <1>2, <2>1, Zenon DEF TryDecodeBlock, RxBlockType
<1> QED
  BY <1>1, <1>2

\* A slot of a receive block holds nothing, a corrupt payload or one of the
\* first n blocks, if the packets stored in it come from those.
LEMMA ReceivedSlots ==
  ASSUME NEW block \in RxBlockType, NEW p \in Packets, NEW n \in Nat,
         \A i \in Idx : block.pkts[i] \in -1 .. n, p.blk <= n
  PROVE  \A i \in Idx : TryDecodeBlock(Store(block, p)).pkts[i] \in -1 .. n
<1> DEFINE st == Store(block, p)
<1>1. st \in RxBlockType /\ \A i \in Idx : st.pkts[i] \in -1 .. n
  <2>1. st \in RxBlockType
    BY StoreType
  <2>2. p.idx \in Idx /\ p.blk \in -1 .. n /\ block.pkts \in [Idx -> Int]
    BY DEF Packets, RxBlockType
  <2>3. st.pkts = block.pkts \/ st.pkts = [block.pkts EXCEPT ![p.idx] = p.blk]
    BY DEF Store, RxBlockType
  <2> QED
    BY <2>1, <2>2, <2>3
<1> HIDE DEF st
<1>2. Codeword(st.pkts) \in -1 .. n
  BY <1>1 DEF Codeword, Corrupt
<1>3. \/ TryDecodeBlock(st) = st
      \/ TryDecodeBlock(st).pkts = [i \in Idx |-> IF i \in DataIdx /\ st.pkts[i] = 0
                                                   THEN Codeword(st.pkts) ELSE st.pkts[i]]
  BY <1>1 DEF TryDecodeBlock, RxBlockType
<1> QED
  BY <1>1, <1>2, <1>3 DEF st

\* A new receive block is one.
LEMMA NewRxBlockType == NewRxBlock \in RxBlockType
  BY DEF NewRxBlock, RxBlockType

-----------------------------------------------------------------------------
(* Type correctness.  It needs two more facts: the timer that readTCPRun   *)
(* stops when a block is full is one whose callback has not run            *)
(* (PendingHasTimer), and whatever the receiver holds was sent (Sourced).  *)

\* A payload in flight, in the cache or in a receive block comes from a flushed
\* block, and the block being written is not dropped by anyone else.
Sourced ==
  /\ \A p \in wire : p.blk <= Len(blocks)
  /\ \A s \in Seqs : harqCache[s].blk <= Len(blocks)
  /\ \A g \in DOMAIN rxBlocks : \A i \in Idx : rxBlocks[g].pkts[i] \in -1 .. Len(blocks)
  /\ wpc = "write" => nextWriteGrp \in DOMAIN rxBlocks

TypeInv == TypeOK /\ PendingHasTimer /\ Sourced

\* Flushing a block keeps the types of the variables it changes.
LEMMA FlushType ==
  ASSUME SenderTypeOK, wire \subseteq Packets, NEW pd \in Seq(Nat),
         FlushPendingBlockLocked(pd)
  PROVE  /\ blocks' \in Seq(Seq(Nat))
         /\ nextGroupID' \in Groups /\ nextSeqNum' \in Seqs
         /\ harqCache' \in [Seqs -> Packets \cup {NoPacket}]
         /\ wire' \subseteq Packets
         /\ txBlocks' \subseteq Groups
         /\ pendingData' = <<>>
<1> DEFINE g == nextGroupID
           b == Len(blocks) + 1
<1>0. g \in Groups /\ b \in Nat \ {0} /\ curM \in 0 .. FEC_M /\ nextSeqNum \in Seqs
  BY DEF SenderTypeOK
<1>1. blocks' \in Seq(Seq(Nat))
  BY DEF SenderTypeOK, FlushPendingBlockLocked
<1>2. nextGroupID' \in Groups
  BY <1>0, TransferAssumption DEF FlushPendingBlockLocked, Succ, Groups, GroupSpace
<1>3. nextSeqNum' \in Seqs
  BY <1>0, TransferAssumption DEF FlushPendingBlockLocked, Seqs
<1>4. ASSUME NEW i \in Idx PROVE Packet(g, i, b) \in Packets
  BY <1>0 DEF Packet, Packets
<1>5. harqCache' \in [Seqs -> Packets \cup {NoPacket}]
  <2>1. ASSUME NEW s \in Seqs, (s - nextSeqNum) % SeqSpace < FEC_K
        PROVE  (s - nextSeqNum) % SeqSpace \in Idx
    BY <1>0, <2>1, TransferAssumption DEF Seqs, Idx
  <2> QED
    BY <1>4, <2>1 DEF SenderTypeOK, FlushPendingBlockLocked, CachedData
<1>6. wire' \subseteq Packets
  <2>1. 0 .. (FEC_K + curM - 1) \subseteq Idx
    BY <1>0, TransferAssumption DEF Idx
  <2> QED
    BY <1>4, <2>1 DEF FlushPendingBlockLocked
<1>7. txBlocks' \subseteq Groups
  BY <1>0 DEF SenderTypeOK, FlushPendingBlockLocked, KeptTxBlocks
<1> QED
  BY <1>1, <1>2, <1>3, <1>5, <1>6, <1>7 DEF FlushPendingBlockLocked

\* Flushing a block keeps Sourced.
LEMMA FlushSourced ==
  ASSUME TypeOK, Sourced, NEW pd \in Seq(Nat), FlushPendingBlockLocked(pd),
         UNCHANGED receiverVars
  PROVE  Sourced'
<1>1. blocks \in Seq(Seq(Nat)) /\ Len(blocks) \in Nat /\ Len(blocks') = Len(blocks) + 1
  BY DEF TypeOK, SenderTypeOK, FlushPendingBlockLocked
<1>2. \A p \in wire' : p.blk <= Len(blocks')
  BY <1>1 DEF Sourced, FlushPendingBlockLocked, Packet, TypeOK, ChannelTypeOK, Packets
<1>3. ASSUME NEW s \in Seqs PROVE harqCache'[s].blk <= Len(blocks')
  <2> DEFINE i == (s - nextSeqNum) % SeqSpace
  <2>1. harqCache'[s] = IF i < FEC_K THEN Packet(nextGroupID, i, Len(blocks) + 1)
                                     ELSE harqCache[s]
    BY DEF FlushPendingBlockLocked, CachedData
  <2>2. harqCache[s].blk \in Nat /\ harqCache[s].blk <= Len(blocks)
    BY DEF Sourced, TypeOK, SenderTypeOK, Packets, NoPacket, Packet
  <2> HIDE DEF i
  <2> QED
    BY <1>1, <2>1, <2>2 DEF Packet
<1>4. \A g \in DOMAIN rxBlocks' : \A i \in Idx : rxBlocks'[g].pkts[i] \in -1 .. Len(blocks')
  BY <1>1 DEF Sourced, receiverVars
<1> QED
  BY <1>2, <1>3, <1>4 DEF Sourced, receiverVars

\* An action of the receiver's own leaves the sender's half of the invariant.
LEMMA SenderKeepsType ==
  ASSUME SenderTypeOK, PendingHasTimer, UNCHANGED senderVars
  PROVE  SenderTypeOK' /\ PendingHasTimer'
  BY DEF SenderTypeOK, PendingHasTimer, senderVars

\* ... and one that touches no receiver variable keeps the receiver's types.
LEMMA ReceiverKeepsType ==
  ASSUME ReceiverTypeOK, UNCHANGED receiverVars
  PROVE  ReceiverTypeOK'
  BY DEF ReceiverTypeOK, receiverVars

\* The actions that read from the source connection.
LEMMA ReadType ==
  ASSUME TypeInv, ReadTCP \/ FlushPendingBlock \/ ReadEOF
  PROVE  TypeInv'
<1>0. TypeOK /\ SenderTypeOK /\ ChannelTypeOK /\ ReceiverTypeOK /\ PendingHasTimer /\ Sourced
  BY DEF TypeInv, TypeOK
<1>1. UNCHANGED <<naks, lqrs, closes, lost, receiverVars>> /\ UNCHANGED <<curM, consecutiveOk>>
  BY DEF ReadTCP, FlushPendingBlock, ReadEOF
<1>2. ReceiverTypeOK'
  BY <1>0, <1>1, ReceiverKeepsType
<1>3. ASSUME NEW pd \in Seq(Nat), FlushPendingBlockLocked(pd),
             rpc' \in {"reading", "draining", "closing"}, nread' \in 0 .. MaxReads, flushTimers' \in Nat
      PROVE  TypeInv'
  <2>0. /\ blocks' \in Seq(Seq(Nat))
        /\ nextGroupID' \in Groups /\ nextSeqNum' \in Seqs
        /\ harqCache' \in [Seqs -> Packets \cup {NoPacket}]
        /\ txBlocks' \subseteq Groups
        /\ pendingData' = <<>> /\ <<>> \in Seq(Nat) /\ Len(<<>>) < FEC_K
    BY <1>0, <1>3, FlushType, TransferAssumption DEF ChannelTypeOK
  <2>1. SenderTypeOK'
    BY <1>0, <1>1, <1>3, <2>0 DEF SenderTypeOK
  <2>2. ChannelTypeOK'
    BY <1>0, <1>1, <1>3, FlushType DEF ChannelTypeOK
  <2>3. PendingHasTimer' /\ Sourced'
    BY <1>0, <1>1, <1>3, FlushType, FlushSourced DEF PendingHasTimer, ChannelTypeOK
  <2> QED
    BY <1>2, <2>1, <2>2, <2>3 DEF TypeInv, TypeOK
<1>4. ASSUME NoFlush,
             rpc' \in {"reading", "draining", "closing"}, nread' \in 0 .. MaxReads, flushTimers' \in Nat,
             pendingData' \in Seq(Nat), Len(pendingData') < FEC_K, PendingHasTimer'
      PROVE  TypeInv'
  <2>1. SenderTypeOK'
    BY <1>0, <1>1, <1>4 DEF SenderTypeOK, NoFlush
  <2>2. ChannelTypeOK'
    BY <1>0, <1>1, <1>4 DEF ChannelTypeOK, NoFlush
  <2>3. Sourced'
    BY <1>0, <1>1, <1>4 DEF Sourced, NoFlush, receiverVars
  <2> QED
    BY <1>2, <1>4, <2>1, <2>2, <2>3 DEF TypeInv, TypeOK
<1>5. CASE ReadTCP
  <2> DEFINE pd == Append(pendingData, nread + 1)
  <2>1. pendingData \in Seq(Nat) /\ nread \in Nat /\ flushTimers \in Nat
    BY <1>0, TransferAssumption DEF SenderTypeOK
  <2>2. pd \in Seq(Nat) /\ Len(pd) = Len(pendingData) + 1 /\ pd # <<>>
    BY <2>1
  <2>3. Len(pd) # 1 => flushTimers > 0
    BY <1>0, <1>5, <2>1, <2>2 DEF PendingHasTimer, ReadTCP
  <2>4. rpc' = rpc /\ rpc = "reading" /\ nread' \in 0 .. MaxReads
    BY <1>5, <2>1, TransferAssumption DEF ReadTCP
  <2> HIDE DEF pd
  <2>5. CASE Len(pd) < FEC_K /\ flushTimers' = Armed(pd) /\ pendingData' = pd /\ NoFlush
    <3>1. flushTimers' \in Nat /\ flushTimers' > 0
      BY <2>1, <2>2, <2>3, <2>5 DEF Armed
    <3> QED
      BY <1>4, <2>2, <2>4, <2>5, <3>1 DEF PendingHasTimer
  <2>6. CASE /\ Len(pd) >= FEC_K /\ flushTimers' \in {Armed(pd) - 1, Armed(pd)}
             /\ FlushPendingBlockLocked(pd)
    <3>1. flushTimers' \in Nat
      BY <2>1, <2>2, <2>3, <2>6 DEF Armed
    <3> QED
      BY <1>3, <2>2, <2>4, <2>6, <3>1
  <2> QED
    BY <1>5, <2>5, <2>6 DEF ReadTCP, pd
<1>6. CASE FlushPendingBlock
  <2>1. flushTimers' \in Nat /\ rpc' = rpc /\ nread' = nread
    BY <1>0, <1>6 DEF FlushPendingBlock, SenderTypeOK
  <2> QED
    BY <1>0, <1>3, <1>4, <1>6, <2>1 DEF FlushPendingBlock, SenderTypeOK, PendingHasTimer
<1>7. CASE ReadEOF
  BY <1>0, <1>3, <1>4, <1>7 DEF ReadEOF, SenderTypeOK, PendingHasTimer
<1> QED
  BY <1>5, <1>6, <1>7

\* The sender's handlers of NAK and LQR and its CLOSE.
LEMMA SenderType ==
  ASSUME TypeInv,
         \/ CloseAcked \/ CloseTimeout \/ CloseTick
         \/ \E s \in naks : HandleNak(s)
         \/ \E m \in lqrs : HandleLQR(m)
  PROVE  TypeInv'
<1>0. SenderTypeOK /\ ChannelTypeOK /\ ReceiverTypeOK /\ PendingHasTimer /\ Sourced
  BY DEF TypeInv, TypeOK
<1>1. CASE CloseAcked \/ CloseTimeout
  <2>1. SenderTypeOK' /\ PendingHasTimer'
    BY <1>0, <1>1 DEF CloseAcked, CloseTimeout, SendClose, SenderTypeOK, PendingHasTimer
  <2>2. ChannelTypeOK'
    BY <1>0, <1>1, Zenon DEF CloseAcked, CloseTimeout, SendClose, ChannelTypeOK
  <2>3. ReceiverTypeOK' /\ Sourced'
    BY <1>0, <1>1, ReceiverKeepsType DEF CloseAcked, CloseTimeout, SendClose, Sourced, receiverVars
  <2> QED
    BY <2>1, <2>2, <2>3 DEF TypeInv, TypeOK
<1>2. CASE CloseTick
  <2>1. ChannelTypeOK'
    BY <1>0, <1>2 DEF CloseTick, ChannelTypeOK
  <2>2. Sourced'
    BY <1>0, <1>2, Zenon DEF CloseTick, Sourced, senderVars, receiverVars
  <2> QED
    BY <1>0, <1>2, <2>1, <2>2, SenderKeepsType, ReceiverKeepsType
    DEF CloseTick, TypeInv, TypeOK
<1>3. ASSUME NEW s \in naks, HandleNak(s) PROVE TypeInv'
  <2>1. s \in Seqs /\ UNCHANGED <<senderVars, receiverVars>>
    BY <1>0, <1>3 DEF HandleNak, ChannelTypeOK
  <2>2. harqCache[s] # NoPacket => harqCache[s] \in Packets
    BY <1>0, <2>1 DEF SenderTypeOK
  <2>3. ChannelTypeOK'
    BY <1>0, <1>3, <2>2 DEF HandleNak, ChannelTypeOK, Taken
  <2>4. \A p \in wire' : p.blk <= Len(blocks)
    BY <1>0, <1>3, <2>1 DEF HandleNak, Sourced
  <2>5. Sourced'
    BY <1>0, <2>1, <2>4 DEF Sourced, senderVars, receiverVars
  <2> QED
    BY <1>0, <2>1, <2>3, <2>5, SenderKeepsType, ReceiverKeepsType DEF TypeInv, TypeOK
<1>4. ASSUME NEW m \in lqrs, HandleLQR(m) PROVE TypeInv'
  <2>1. m.losses \in Int
    BY <1>0 DEF ChannelTypeOK
  <2>2. /\ curM \in 0 .. FEC_M /\ consecutiveOk \in 0 .. (OkRun - 1)
        /\ lqrs' \subseteq lqrs /\ txBlocks' \subseteq txBlocks
    BY <1>0, <1>4 DEF HandleLQR, Taken, SenderTypeOK
  <2>3. AdaptParity(m.losses) => curM' \in 0 .. FEC_M /\ consecutiveOk' \in 0 .. (OkRun - 1)
    BY <2>1, <2>2, TransferAssumption DEF AdaptParity
  <2>4. SenderTypeOK' /\ PendingHasTimer'
    BY <1>0, <1>4, <2>2, <2>3 DEF HandleLQR, SenderTypeOK, PendingHasTimer
  <2>5. ChannelTypeOK'
    BY <1>0, <1>4, <2>2 DEF HandleLQR, ChannelTypeOK
  <2>6. ReceiverTypeOK' /\ Sourced'
    BY <1>0, <1>4, ReceiverKeepsType DEF HandleLQR, Sourced, receiverVars
  <2> QED
    BY <2>4, <2>5, <2>6 DEF TypeInv, TypeOK
<1> QED
  BY <1>1, <1>2, <1>3, <1>4

\* The receiver's handlers and timers, and the network.
LEMMA ReceiverType ==
  ASSUME TypeInv,
         \/ StartRecv \/ HandleClose \/ Lose
         \/ \E p \in wire : HandleDataPacket(p)
         \/ \E g \in Groups : HandleLQRTimeout(g) \/ SendNakPeriodic(g)
  PROVE  TypeInv'
<1>0. SenderTypeOK /\ ChannelTypeOK /\ ReceiverTypeOK /\ PendingHasTimer /\ Sourced
  BY DEF TypeInv, TypeOK
<1>1. SenderTypeOK' /\ PendingHasTimer' /\ blocks' = blocks /\ harqCache' = harqCache
  <2>1. UNCHANGED senderVars
    BY DEF StartRecv, HandleClose, Lose, HandleDataPacket, HandleLQRTimeout, SendNakPeriodic
  <2> QED
    BY <1>0, <2>1, SenderKeepsType DEF senderVars
<1>2. CASE StartRecv
  <2>1. 0 \in Groups
    BY TransferAssumption DEF Groups, GroupSpace
  <2>2. ReceiverTypeOK'
    BY <1>0, <1>2, <2>1, NewRxBlockType DEF StartRecv, WithBlock, ReceiverTypeOK
  <2>3. ChannelTypeOK'
    BY <1>0, <1>2 DEF StartRecv, ChannelTypeOK, channelVars
  <2>4. Len(blocks) \in Nat
    BY <1>0 DEF SenderTypeOK
  <2>5. Sourced'
    BY <1>0, <1>1, <1>2, <2>4 DEF StartRecv, WithBlock, NewRxBlock, Sourced, channelVars
  <2> QED
    BY <1>1, <2>2, <2>3, <2>5 DEF TypeInv, TypeOK
<1>3. CASE HandleClose
  <2>1. ReceiverTypeOK' /\ ChannelTypeOK'
    BY <1>0, <1>3, TransferAssumption DEF HandleClose, ReceiverTypeOK, ChannelTypeOK
  <2>2. Sourced'
    BY <1>0, <1>1, <1>3, Zenon DEF HandleClose, Sourced
  <2> QED
    BY <1>1, <2>1, <2>2 DEF TypeInv, TypeOK
<1>4. CASE Lose
  <2>1. /\ wire' \subseteq wire /\ naks' \subseteq naks /\ lqrs' \subseteq lqrs
        /\ closes' \in BOOLEAN /\ lost' = lost + 1 /\ lost < MaxLosses
        /\ UNCHANGED receiverVars
    BY <1>0, <1>4, Zenon DEF Lose, ChannelTypeOK
  <2>2. ChannelTypeOK'
    BY <1>0, <2>1, TransferAssumption DEF ChannelTypeOK
  <2>3. Sourced'
    BY <1>0, <1>1, <2>1, Zenon DEF Sourced, receiverVars
  <2> QED
    BY <1>0, <1>1, <2>1, <2>2, <2>3, ReceiverKeepsType DEF TypeInv, TypeOK
<1>5. ASSUME NEW p \in wire, HandleDataPacket(p) PROVE TypeInv'
  <2>1. p \in Packets /\ p.grp \in Groups
    BY <1>0 DEF ChannelTypeOK, Packets
  <2>2. /\ Len(blocks) \in Nat
        /\ \A i \in Idx : NewRxBlock.pkts[i] \in -1 .. Len(blocks)
    BY <1>0 DEF SenderTypeOK, NewRxBlock
  <2>3. /\ Received(p) \in RxBlockType
        /\ \A i \in Idx : Received(p).pkts[i] \in -1 .. Len(blocks)
    <3> DEFINE block == IF p.grp \in DOMAIN rxBlocks THEN rxBlocks[p.grp] ELSE NewRxBlock
    <3>1. /\ block \in RxBlockType /\ p.blk <= Len(blocks)
          /\ \A i \in Idx : block.pkts[i] \in -1 .. Len(blocks)
      BY <1>0, <2>2, NewRxBlockType DEF Sourced, ReceiverTypeOK
    <3>2. Received(p) = TryDecodeBlock(Store(block, p))
      BY Zenon DEF Received
    <3> HIDE DEF block
    <3> QED
      BY <2>1, <2>2, <3>1, <3>2, ReceivedType, ReceivedSlots, Zenon
  <2>4. rxBlocks' = rxBlocks \/ rxBlocks' = WithBlock(p.grp, Received(p))
    BY <1>5, Zenon DEF HandleDataPacket
  <2>5. /\ DOMAIN rxBlocks' \subseteq Groups /\ DOMAIN rxBlocks \subseteq DOMAIN rxBlocks'
        /\ rxBlocks' \in [DOMAIN rxBlocks' -> RxBlockType]
        /\ \A g \in DOMAIN rxBlocks' : \A i \in Idx : rxBlocks'[g].pkts[i] \in -1 .. Len(blocks)
    BY <1>0, <2>1, <2>3, <2>4 DEF WithBlock, ReceiverTypeOK, Sourced
  <2>6. wire' \subseteq wire /\ hasRecv' \in BOOLEAN /\ maxRecvGrp' \in Groups
    BY <1>0, <1>5, <2>1, Zenon DEF HandleDataPacket, Taken, ReceiverTypeOK
  <2>7. ReceiverTypeOK'
    BY <1>0, <1>5, <2>5, <2>6 DEF HandleDataPacket, ReceiverTypeOK
  <2>8. ChannelTypeOK'
    BY <1>0, <1>5, <2>6, Zenon DEF HandleDataPacket, ChannelTypeOK
  <2>9. Sourced'
    BY <1>0, <1>1, <1>5, <2>5, <2>6 DEF HandleDataPacket, Sourced
  <2> QED
    BY <1>1, <2>7, <2>8, <2>9 DEF TypeInv, TypeOK
<1>6. ASSUME NEW g \in Groups, HandleLQRTimeout(g) PROVE TypeInv'
  <2>1. g \in DOMAIN rxBlocks /\ rxBlocks[g] \in RxBlockType
    BY <1>0, <1>6 DEF HandleLQRTimeout, ReceiverTypeOK
  <2>2. ChannelTypeOK'
    BY <1>0, <1>6, <2>1, LossesType DEF HandleLQRTimeout, ChannelTypeOK
  <2> DEFINE reported == [rxBlocks[g] EXCEPT !.reported = TRUE]
  <2>3. reported \in RxBlockType /\ reported.pkts = rxBlocks[g].pkts
    BY <2>1, Zenon DEF RxBlockType
  <2>4. rxBlocks' = [rxBlocks EXCEPT ![g] = reported]
    BY <1>6 DEF HandleLQRTimeout
  <2> HIDE DEF reported
  <2>5. /\ DOMAIN rxBlocks' = DOMAIN rxBlocks
        /\ rxBlocks' \in [DOMAIN rxBlocks' -> RxBlockType]
        /\ \A h \in DOMAIN rxBlocks : rxBlocks'[h].pkts = rxBlocks[h].pkts
    BY <1>0, <2>1, <2>3, <2>4 DEF ReceiverTypeOK
  <2>6. ReceiverTypeOK'
    BY <1>0, <1>6, <2>5 DEF HandleLQRTimeout, ReceiverTypeOK
  <2>7. Sourced'
    BY <1>0, <1>1, <1>6, <2>5 DEF HandleLQRTimeout, Sourced
  <2> QED
    BY <1>1, <2>2, <2>6, <2>7 DEF TypeInv, TypeOK
<1>7. ASSUME NEW g \in Groups, SendNakPeriodic(g) PROVE TypeInv'
  <2>1. ASSUME NEW i \in DataIdx PROVE SeqNum(g, i) \in Seqs
    BY TransferAssumption DEF SeqNum, Seqs, DataIdx, Groups
  <2>2. naks' \subseteq Seqs /\ nakLoops' \subseteq nakLoops
    BY <1>0, <1>7, <2>1 DEF SendNakPeriodic, ChannelTypeOK
  <2>3. ReceiverTypeOK' /\ ChannelTypeOK'
    BY <1>0, <1>7, <2>2 DEF SendNakPeriodic, ReceiverTypeOK, ChannelTypeOK
  <2>4. Sourced'
    BY <1>0, <1>1, <1>7, Zenon DEF SendNakPeriodic, Sourced
  <2> QED
    BY <1>1, <2>3, <2>4 DEF TypeInv, TypeOK
<1> QED
  BY <1>2, <1>3, <1>4, <1>5, <1>6, <1>7

\* What is written is a segment of a flushed block, garbage, or nothing.
LEMMA ShardDataType ==
  ASSUME TypeInv, wpc = "write", wi \in DataIdx
  PROVE  ShardData(wi) \in Seq(Int)
<1> DEFINE b == rxBlocks[nextWriteGrp].pkts[wi]
<1>1. blocks \in Seq(Seq(Nat)) /\ b \in -1 .. Len(blocks) /\ wi \in Nat
  <2>1. wi \in Nat /\ wi \in Idx
    BY TransferAssumption DEF DataIdx, Idx
  <2>2. blocks \in Seq(Seq(Nat))
    BY DEF TypeInv, TypeOK, SenderTypeOK
  <2>3. nextWriteGrp \in DOMAIN rxBlocks
    BY DEF TypeInv, Sourced
  <2>4. b \in -1 .. Len(blocks)
    BY <2>1, <2>3 DEF TypeInv, Sourced
  <2> QED
    BY <2>1, <2>2, <2>4
<1>a. <<>> \in Seq(Int) /\ \A x \in Int : <<x>> \in Seq(Int)
  OBVIOUS
<1>b. ShardData(wi) = IF b = 0 THEN <<>>
                      ELSE IF b = -1 THEN <<-1>>
                      ELSE IF wi < Len(blocks[b]) THEN <<blocks[b][wi + 1]>> ELSE <<>>
  BY DEF ShardData, Corrupt
<1> HIDE DEF b
<1>2. CASE b >= 1
  <2>1. blocks[b] \in Seq(Nat)
    BY <1>1, <1>2
  <2>2. wi < Len(blocks[b]) => blocks[b][wi + 1] \in Nat
    BY <1>1, <2>1
  <2> QED
    BY <1>1, <1>2, <1>a, <1>b, <2>2
<1>3. CASE b < 1
  BY <1>1, <1>3, <1>a, <1>b
<1> QED
  BY <1>1, <1>2, <1>3

\* The steps of writeTCPRun.
LEMMA WriterType ==
  ASSUME TypeInv, WriterTake \/ WriteShard \/ WriteFails \/ WriterCleanup \/ WriterExit \/ WriterLeave
  PROVE  TypeInv'
<1>0. SenderTypeOK /\ ChannelTypeOK /\ ReceiverTypeOK /\ PendingHasTimer /\ Sourced
  BY DEF TypeInv, TypeOK
<1>1. /\ SenderTypeOK' /\ PendingHasTimer' /\ blocks' = blocks /\ harqCache' = harqCache
      /\ wire' = wire
  <2>1. UNCHANGED <<senderVars, wire>>
    BY DEF WriterTake, WriteShard, WriteFails, WriterCleanup, WriterExit, WriterLeave, channelVars
  <2> QED
    BY <1>0, <2>1, SenderKeepsType DEF senderVars
<1>2. CASE WriterTake
  <2>1. ReceiverTypeOK' /\ ChannelTypeOK'
    BY <1>0, <1>2, TransferAssumption DEF WriterTake, ReceiverTypeOK, ChannelTypeOK, channelVars
  <2>2. Sourced'
    BY <1>0, <1>1, <1>2, Zenon DEF WriterTake, NextIsDecoded, Sourced
  <2> QED
    BY <1>1, <2>1, <2>2 DEF TypeInv, TypeOK
<1>3. CASE WriteShard
  <2>1. wi \in DataIdx /\ wi + 1 \in 0 .. FEC_K
    <3>1. wi \in 0 .. FEC_K /\ wi < FEC_K
      BY <1>0, <1>3, Zenon DEF WriteShard, ReceiverTypeOK
    <3> QED
      BY <3>1, TransferAssumption DEF DataIdx
  <2>2. out' \in Seq(Int)
    BY <1>0, <1>3, <2>1, ShardDataType DEF WriteShard, ReceiverTypeOK
  <2>3. ReceiverTypeOK' /\ ChannelTypeOK'
    BY <1>0, <1>3, <2>1, <2>2 DEF WriteShard, ReceiverTypeOK, ChannelTypeOK, channelVars
  <2>4. Sourced'
    BY <1>0, <1>1, <1>3, Zenon DEF WriteShard, Sourced
  <2> QED
    BY <1>1, <2>3, <2>4 DEF TypeInv, TypeOK
<1>4. CASE WriteFails \/ WriterExit \/ WriterLeave
  <2>1. ReceiverTypeOK' /\ ChannelTypeOK'
    BY <1>0, <1>4, Zenon DEF WriteFails, WriterExit, WriterLeave, ReceiverTypeOK, ChannelTypeOK, channelVars
  <2>2. Sourced'
    BY <1>0, <1>1, <1>4, Zenon DEF WriteFails, WriterExit, WriterLeave, Sourced
  <2> QED
    BY <1>1, <2>1, <2>2 DEF TypeInv, TypeOK
<1>5. CASE WriterCleanup
  <2> DEFINE g == nextWriteGrp
  <2>1. g \in DOMAIN rxBlocks /\ g \in Groups /\ rxBlocks[g] \in RxBlockType
    BY <1>0, <1>5 DEF WriterCleanup, Sourced, ReceiverTypeOK
  <2>2. Succ(g) \in Groups
    BY <2>1, TransferAssumption DEF Succ, Groups, GroupSpace
  <2>3. ChannelTypeOK' /\ nakLoops' \subseteq Groups
    BY <1>0, <1>5, <2>1, LossesType DEF WriterCleanup, ChannelTypeOK, ReceiverTypeOK
  <2>4. /\ DOMAIN rxBlocks' \subseteq DOMAIN rxBlocks
        /\ \A h \in DOMAIN rxBlocks' : rxBlocks'[h] = rxBlocks[h]
        /\ rxBlocks' \in [DOMAIN rxBlocks' -> RxBlockType]
    BY <1>0, <1>5 DEF WriterCleanup, ReceiverTypeOK
  <2>5. ReceiverTypeOK'
    <3>1. /\ wpc' = "wait" /\ wi' = 0 /\ nextWriteGrp' = Succ(g)
          /\ UNCHANGED <<started, maxRecvGrp, hasRecv, closeRecv, out>>
      BY <1>5, Zenon DEF WriterCleanup
    <3>2. wpc' \in {"wait", "write", "leaving", "done", "failed"} /\ wi' \in 0 .. FEC_K
      BY <3>1, TransferAssumption
    <3> QED
      BY <1>0, <2>2, <2>3, <2>4, <3>1, <3>2, Zenon DEF ReceiverTypeOK
  <2>6. Sourced'
    BY <1>0, <1>1, <1>5, <2>4, Zenon DEF WriterCleanup, Sourced
  <2> QED
    BY <1>1, <2>3, <2>5, <2>6 DEF TypeInv, TypeOK
<1> QED
  BY <1>2, <1>3, <1>4, <1>5

\* The initial state is well typed.
LEMMA InitType == Init => TypeInv
<1> SUFFICES ASSUME Init PROVE TypeInv
  OBVIOUS
<1>1. NoPacket.blk = 0 /\ 0 \in Groups /\ 0 \in Seqs
  BY TransferAssumption DEF NoPacket, Packet, Groups, GroupSpace, Seqs
<1>2. SenderTypeOK /\ PendingHasTimer
  BY <1>1, TransferAssumption DEF Init, SenderTypeOK, PendingHasTimer
<1>3. ChannelTypeOK
  <2>1. closes \in BOOLEAN /\ wire = {} /\ naks = {} /\ lqrs = {}
    BY Zenon DEF Init
  <2>2. lost \in 0 .. MaxLosses
    BY TransferAssumption DEF Init
  <2> QED
    BY <2>1, <2>2 DEF ChannelTypeOK
<1>4. DOMAIN rxBlocks = {} /\ rxBlocks \in [{} -> RxBlockType]
  BY DEF Init
<1>5. ReceiverTypeOK
  <2>1. rxBlocks \in [DOMAIN rxBlocks -> RxBlockType] /\ DOMAIN rxBlocks \subseteq Groups
    BY <1>4
  <2>2. <<>> \in Seq(Int) /\ 0 \in 0 .. FEC_K
    BY TransferAssumption
  <2> QED
    BY <1>1, <2>1, <2>2 DEF Init, ReceiverTypeOK
<1>6. Len(blocks) = 0 /\ wire = {} /\ wpc # "write"
  BY DEF Init
<1>8. \A s \in Seqs : harqCache[s].blk = 0
  BY <1>1 DEF Init
<1>7. Sourced
  BY <1>4, <1>6, <1>8 DEF Sourced
<1> QED
  BY <1>2, <1>3, <1>5, <1>7 DEF TypeInv, TypeOK

\* Every step keeps the types.
LEMMA TypeStep == TypeInv /\ [Next]_vars => TypeInv'
<1> SUFFICES ASSUME TypeInv, [Next]_vars PROVE TypeInv'
  OBVIOUS
<1>1. CASE UNCHANGED vars
  <2>1. UNCHANGED <<senderVars, channelVars, receiverVars>>
    BY <1>1 DEF vars
  <2>2. ChannelTypeOK'
    BY <2>1 DEF channelVars, ChannelTypeOK, TypeInv, TypeOK
  <2>3. Sourced'
    BY <2>1 DEF senderVars, channelVars, receiverVars, Sourced, TypeInv
  <2> QED
    BY <2>1, <2>2, <2>3, SenderKeepsType, ReceiverKeepsType DEF TypeInv, TypeOK
<1>2. CASE Next
  BY <1>2, ReadType, SenderType, ReceiverType, WriterType DEF Next, DataPath, Ending
<1> QED
  BY <1>1, <1>2

\* Type correctness of both Sessions (TypeOK), for every block size, loss
\* pattern and width of the group and sequence numbers; and no data read by
\* readTCPRun is left without a flush callback (PendingHasTimer).
THEOREM TypeCorrect == Spec => [](TypeOK /\ PendingHasTimer)
<1>1. Init => TypeInv
  BY InitType
<1>2. TypeInv /\ [Next]_vars => TypeInv'
  BY TypeStep
<1>3. TypeInv => TypeOK /\ PendingHasTimer
  BY DEF TypeInv
<1> QED
  BY <1>1, <1>2, <1>3, PTL DEF Spec

\* readTCPRun, flushPendingBlock: while the connection is read, pending data has a flush
\* callback to come (PendingHasTimer), also when a callback that was stopped too late
\* finds the next block.
THEOREM PendingIsFlushed == Spec => []PendingHasTimer
<1>1. TypeOK /\ PendingHasTimer => PendingHasTimer
  OBVIOUS
<1> QED
  BY <1>1, TypeCorrect, PTL

-----------------------------------------------------------------------------
(* The clean-up of txBlocks, across the wrap of the group number.          *)

\* One flush: the entries flushPendingBlockLocked keeps age by one group.
LEMMA FlushRecent ==
  ASSUME TypeInv, TxBlocksRecent, NEW pd, FlushPendingBlockLocked(pd)
  PROVE  TxBlocksRecent'
<1> DEFINE g == nextGroupID
<1>1. g \in Groups /\ txBlocks \subseteq Groups
  BY DEF TypeInv, TypeOK, SenderTypeOK
<1>2. nextGroupID' = Succ(g) /\ txBlocks' = KeptTxBlocks(g) \cup {g}
  BY DEF FlushPendingBlockLocked
<1>3. Diff(Succ(g), g) = 1
  BY <1>1, TransferAssumption DEF Diff, Succ, Groups, GroupSpace
<1>4. ASSUME NEW k \in KeptTxBlocks(g) PROVE Diff(Succ(g), k) \in 1 .. (TxKeep + 1)
  <2>1. k \in Groups /\ Diff(g, k) \in 1 .. (TxKeep + 1)
    BY <1>1 DEF KeptTxBlocks, TxBlocksRecent
  <2>2. Diff(g, k) \in 1 .. TxKeep
    BY <2>1, TransferAssumption DEF KeptTxBlocks
  <2>3. Diff(Succ(g), k) = Diff(g, k) + 1
    BY <1>1, <2>1, <2>2, TransferAssumption DEF Diff, Succ, Groups, GroupSpace
  <2> QED
    BY <2>2, <2>3, TransferAssumption
<1>5. 1 \in 1 .. (TxKeep + 1)
  BY TransferAssumption
<1> QED
  BY <1>2, <1>3, <1>4, <1>5 DEF TxBlocksRecent

\* Every step of either Session keeps the entries of txBlocks recent.
LEMMA RecentStep == TypeInv /\ TxBlocksRecent /\ [Next]_vars => TxBlocksRecent'
<1> SUFFICES ASSUME TypeInv, TxBlocksRecent, [Next]_vars PROVE TxBlocksRecent'
  OBVIOUS
<1>1. CASE \E pd : FlushPendingBlockLocked(pd)
  BY <1>1, FlushRecent
<1>2. CASE nextGroupID' = nextGroupID /\ txBlocks' \subseteq txBlocks
  BY <1>2 DEF TxBlocksRecent
<1>3. ReadTCP \/ FlushPendingBlock \/ ReadEOF => TxBlocksRecent'
  BY <1>1, <1>2 DEF ReadTCP, FlushPendingBlock, ReadEOF, NoFlush
<1>4. ASSUME NEW m, HandleLQR(m) PROVE TxBlocksRecent'
  <2>1. nextGroupID' = nextGroupID /\ txBlocks' \subseteq txBlocks
    BY <1>4, Zenon DEF HandleLQR
  <2> QED
    BY <1>2, <2>1
<1>5. CloseAcked \/ CloseTimeout => TxBlocksRecent'
  BY <1>2 DEF CloseAcked, CloseTimeout, SendClose
<1>6. UNCHANGED senderVars => TxBlocksRecent'
  BY <1>2 DEF senderVars
<1>7. CASE DataPath
  BY <1>3, <1>4, <1>6, <1>7
  DEF DataPath, HandleNak, StartRecv, HandleDataPacket, HandleLQRTimeout,
      SendNakPeriodic, WriterTake, WriteShard, WriterCleanup, Lose
<1>8. CASE Ending
  BY <1>3, <1>5, <1>6, <1>8 DEF Ending, CloseTick, HandleClose, WriterExit, WriterLeave, WriteFails
<1> QED
  BY <1>6, <1>7, <1>8 DEF Next, vars

\* The clean-up in flushPendingBlockLocked bounds txBlocks for ever, also when the
\* group number has wrapped, although reports may be lost (TxBlocksRecent).
THEOREM TxBlocksBounded == Spec => []TxBlocksRecent
<1>1. Init => TypeInv /\ TxBlocksRecent
  BY InitType DEF Init, TxBlocksRecent
<1>2. TypeInv /\ TxBlocksRecent /\ [Next]_vars => TypeInv' /\ TxBlocksRecent'
  BY TypeStep, RecentStep
<1> QED
  BY <1>1, <1>2, PTL DEF Spec

-----------------------------------------------------------------------------
(* In-order delivery.  While fewer than Half blocks are flushed, group     *)
(* numbers do not wrap: group g carries block g + 1.  The invariant says   *)
(* so of every packet and slot, says which segments a block holds, and     *)
(* where writeTCPRun stands in the stream.                                 *)

\* The last segment of the b-th block of bs.
EndOf(bs, b) == IF b = 0 THEN 0 ELSE bs[b][Len(bs[b])]

\* The blocks and pendingData cut the segments read into consecutive pieces.
Numbered ==
  /\ nextGroupID = Len(blocks)
  /\ \A b \in 1 .. Len(blocks) :
       /\ Len(blocks[b]) \in 1 .. FEC_K
       /\ \A i \in 1 .. Len(blocks[b]) : blocks[b][i] = EndOf(blocks, b - 1) + i
  /\ \A b \in 0 .. Len(blocks) : b <= EndOf(blocks, b) /\ EndOf(blocks, b) <= nread
  /\ \A i \in 1 .. Len(pendingData) : pendingData[i] = EndOf(blocks, Len(blocks)) + i
  /\ nread = EndOf(blocks, Len(blocks)) + Len(pendingData)

\* What travels or is stored under group g belongs to block g + 1.
Genuine ==
  /\ \A p \in wire : p.blk = p.grp + 1
  /\ \A s \in Seqs : harqCache[s] # NoPacket => harqCache[s].blk = harqCache[s].grp + 1
  /\ \A g \in DOMAIN rxBlocks :
       /\ \A i \in Idx : rxBlocks[g].pkts[i] \in {0, g + 1}
       /\ rxBlocks[g].decoded => \A i \in DataIdx : rxBlocks[g].pkts[i] # 0

\* The writer has written the first nextWriteGrp blocks and wi shards of the next.
InStep ==
  /\ nextWriteGrp <= Len(blocks)
  /\ wpc \in {"wait", "leaving", "done"} => Len(out) = EndOf(blocks, nextWriteGrp)
  /\ wpc = "write" =>
       /\ NextIsDecoded
       /\ Len(out) = IF wi <= Len(blocks[nextWriteGrp + 1])
                       THEN EndOf(blocks, nextWriteGrp) + wi
                       ELSE EndOf(blocks, nextWriteGrp + 1)
  /\ Len(out) <= nread
  /\ \A j \in 1 .. Len(out) : out[j] = j

OrderInv == TypeInv /\ Numbered /\ Genuine /\ InStep

\* Appending a block does not move the ends of the earlier ones.
LEMMA EndOfAppend ==
  ASSUME NEW bs \in Seq(Seq(Nat)), NEW pd \in Seq(Nat)
  PROVE  /\ \A b \in 0 .. Len(bs) : EndOf(Append(bs, pd), b) = EndOf(bs, b)
         /\ EndOf(Append(bs, pd), Len(bs) + 1) = pd[Len(pd)]
  BY DEF EndOf

\* The blocks after a flush.
LEMMA AppendedBlock ==
  ASSUME NEW bs \in Seq(Seq(Nat)), NEW pd \in Seq(Nat)
  PROVE  /\ Append(bs, pd) \in Seq(Seq(Nat)) /\ Len(Append(bs, pd)) = Len(bs) + 1
         /\ Append(bs, pd)[Len(bs) + 1] = pd
         /\ \A b \in 1 .. Len(bs) : Append(bs, pd)[b] = bs[b]
  OBVIOUS

\* The output after a write of one segment.
LEMMA AppendedNumber ==
  ASSUME NEW s \in Seq(Int), NEW x \in Int
  PROVE  /\ Len(Append(s, x)) = Len(s) + 1 /\ Append(s, x)[Len(s) + 1] = x
         /\ \A j \in 1 .. Len(s) : Append(s, x)[j] = s[j]
  OBVIOUS

\* An end is a number.
LEMMA EndOfNat ==
  ASSUME NEW bs \in Seq(Seq(Nat)), NEW b \in 0 .. Len(bs),
         \A c \in 1 .. Len(bs) : Len(bs[c]) >= 1
  PROVE  EndOf(bs, b) \in Nat
<1>1. CASE b = 0
  BY <1>1 DEF EndOf
<1>2. CASE b # 0
  <2>1. b \in 1 .. Len(bs) /\ bs[b] \in Seq(Nat)
    BY <1>2
  <2>2. Len(bs[b]) \in 1 .. Len(bs[b])
    BY <2>1
  <2> QED
    BY <1>2, <2>1, <2>2 DEF EndOf
<1> QED
  BY <1>1, <1>2

\* Numbered: the ends of the blocks are numbers, and within what was read.
LEMMA NumberedEnds ==
  ASSUME Numbered, blocks \in Seq(Seq(Nat))
  PROVE  \A b \in 0 .. Len(blocks) :
           EndOf(blocks, b) \in Nat /\ b <= EndOf(blocks, b) /\ EndOf(blocks, b) <= nread
<1>1. /\ \A c \in 1 .. Len(blocks) : Len(blocks[c]) \in 1 .. FEC_K
      /\ \A b \in 0 .. Len(blocks) : b <= EndOf(blocks, b) /\ EndOf(blocks, b) <= nread
  BY Zenon DEF Numbered
<1>2. \A k \in 1 .. FEC_K : k >= 1
  BY TransferAssumption
<1>3. \A c \in 1 .. Len(blocks) : Len(blocks[c]) >= 1
  BY <1>1, <1>2, Zenon
<1> QED
  BY <1>1, <1>3, EndOfNat, Zenon

\* A flush continues the numbering and sends genuine packets.
LEMMA FlushOrder ==
  ASSUME MaxReads < Half, OrderInv,
         NEW pd \in Seq(Nat), Len(pd) \in 1 .. FEC_K,
         \A i \in 1 .. Len(pd) : pd[i] = EndOf(blocks, Len(blocks)) + i,
         nread' = EndOf(blocks, Len(blocks)) + Len(pd), nread' \in 0 .. MaxReads,
         nread <= nread', FlushPendingBlockLocked(pd), UNCHANGED receiverVars
  PROVE  Numbered' /\ Genuine' /\ InStep'
<1> DEFINE n == Len(blocks)
<1>0. /\ blocks \in Seq(Seq(Nat)) /\ n \in Nat /\ nread \in Nat
      /\ \A b \in 1 .. n : Len(blocks[b]) \in 1 .. FEC_K
      /\ nextGroupID = n
  <2>1. blocks \in Seq(Seq(Nat)) /\ nread \in 0 .. MaxReads
    BY DEF OrderInv, TypeInv, TypeOK, SenderTypeOK
  <2>2. nextGroupID = n /\ \A b \in 1 .. n : Len(blocks[b]) \in 1 .. FEC_K
    BY Zenon DEF OrderInv, Numbered
  <2> QED
    BY <2>1, <2>2, TransferAssumption
<1>1. /\ blocks' = Append(blocks, pd) /\ blocks' \in Seq(Seq(Nat)) /\ Len(blocks') = n + 1
      /\ blocks'[n + 1] = pd /\ \A b \in 1 .. n : blocks'[b] = blocks[b]
  <2>1. blocks' = Append(blocks, pd)
    BY Zenon DEF FlushPendingBlockLocked
  <2>2. /\ Append(blocks, pd) \in Seq(Seq(Nat)) /\ Len(Append(blocks, pd)) = n + 1
        /\ Append(blocks, pd)[n + 1] = pd
        /\ \A b \in 1 .. n : Append(blocks, pd)[b] = blocks[b]
    BY <1>0, AppendedBlock, Zenon
  <2> QED
    BY <2>1, <2>2, Zenon
<1>2. /\ \A b \in 0 .. n : EndOf(blocks', b) = EndOf(blocks, b) /\ EndOf(blocks, b) \in Nat
      /\ EndOf(blocks', n + 1) = EndOf(blocks, n) + Len(pd)
  <2>1. \A b \in 0 .. n : EndOf(blocks, b) \in Nat
    BY <1>0, EndOfNat
  <2>2. /\ \A b \in 0 .. n : EndOf(Append(blocks, pd), b) = EndOf(blocks, b)
        /\ EndOf(Append(blocks, pd), n + 1) = pd[Len(pd)]
    BY <1>0, EndOfAppend, Zenon
  <2>3. pd[Len(pd)] = EndOf(blocks, n) + Len(pd)
    <3>1. Len(pd) \in 1 .. Len(pd)
      BY TransferAssumption
    <3> QED
      BY <3>1, Zenon
  <2> QED
    BY <1>1, <2>1, <2>2, <2>3, Zenon
<1>3. n <= EndOf(blocks, n) /\ n < Half /\ nextGroupID' = n + 1
  <2>1. n <= EndOf(blocks, n) /\ EndOf(blocks, n) <= nread /\ nread <= MaxReads
    <3>1. \A b \in 0 .. n : b <= EndOf(blocks, b) /\ EndOf(blocks, b) <= nread
      BY Zenon DEF OrderInv, Numbered
    <3>2. nread \in 0 .. MaxReads
      BY Zenon DEF OrderInv, TypeInv, TypeOK, SenderTypeOK
    <3>3. n \in 0 .. n /\ nread <= MaxReads
      BY <1>0, <3>2, TransferAssumption
    <3> QED
      BY <3>1, <3>3, Zenon
  <2>2. EndOf(blocks, n) \in Nat
    BY <1>0, <1>2
  <2>3. n < Half
    BY <1>0, <2>1, <2>2, TransferAssumption
  <2>4. nextGroupID' = Succ(n)
    BY <1>0 DEF FlushPendingBlockLocked
  <2> QED
    BY <1>0, <2>1, <2>3, <2>4, TransferAssumption DEF Succ, GroupSpace
<1>4. Numbered'
  <2>1. \A b \in 1 .. n + 1 :
          /\ Len(blocks'[b]) \in 1 .. FEC_K
          /\ \A i \in 1 .. Len(blocks'[b]) : blocks'[b][i] = EndOf(blocks', b - 1) + i
    <3>1. ASSUME NEW b \in 1 .. n
          PROVE  /\ Len(blocks'[b]) \in 1 .. FEC_K
                 /\ \A i \in 1 .. Len(blocks'[b]) : blocks'[b][i] = EndOf(blocks', b - 1) + i
      <4>1. b - 1 \in 0 .. n /\ blocks'[b] = blocks[b] /\ EndOf(blocks', b - 1) = EndOf(blocks, b - 1)
        <5>1. b - 1 \in 0 .. n
          BY <1>0
        <5> QED
          BY <1>1, <1>2, <5>1, Zenon
      <4>2. /\ Len(blocks[b]) \in 1 .. FEC_K
            /\ \A i \in 1 .. Len(blocks[b]) : blocks[b][i] = EndOf(blocks, b - 1) + i
        BY DEF OrderInv, Numbered
      <4> QED
        BY <4>1, <4>2
    <3>2. /\ Len(blocks'[n + 1]) \in 1 .. FEC_K
          /\ \A i \in 1 .. Len(blocks'[n + 1]) :
               blocks'[n + 1][i] = EndOf(blocks', (n + 1) - 1) + i
      <4>1. EndOf(blocks', (n + 1) - 1) = EndOf(blocks, n)
        BY <1>0, <1>2
      <4> QED
        BY <1>1, <4>1
    <3>3. \A b \in 1 .. n + 1 : b \in 1 .. n \/ b = n + 1
      BY <1>0
    <3> QED
      BY <3>1, <3>2, <3>3
  <2>2. \A b \in 0 .. n + 1 : b <= EndOf(blocks', b) /\ EndOf(blocks', b) <= nread'
    <3>1. \A b \in 0 .. n : b <= EndOf(blocks, b) /\ EndOf(blocks, b) <= nread
      BY DEF OrderInv, Numbered
    <3>2. ASSUME NEW b \in 0 .. n PROVE b <= EndOf(blocks', b) /\ EndOf(blocks', b) <= nread'
      BY <1>0, <1>2, <3>1, TransferAssumption
    <3>3. n + 1 <= EndOf(blocks', n + 1) /\ EndOf(blocks', n + 1) <= nread'
      BY <1>0, <1>2, <1>3
    <3>4. \A b \in 0 .. n + 1 : b \in 0 .. n \/ b = n + 1
      BY <1>0
    <3> QED
      BY <3>2, <3>3, <3>4
  <2>3. pendingData' = <<>>
    BY DEF FlushPendingBlockLocked
  <2> QED
    <3>1. Len(pendingData') = 0
      BY <2>3
    <3>2. EndOf(blocks', n + 1) = nread'
      BY <1>2, Zenon
    <3>3. nread' = EndOf(blocks', n + 1) + Len(pendingData')
      BY <3>1, <3>2
    <3>4. \A i \in 1 .. Len(pendingData') : pendingData'[i] = EndOf(blocks', n + 1) + i
      BY <3>1
    <3> QED
      BY <1>1, <1>3, <2>1, <2>2, <3>3, <3>4, Zenon DEF Numbered
<1>5. Genuine'
  <2>1. \A p \in wire' : p.blk = p.grp + 1
    <3>1. wire' = wire \cup {Packet(n, i, n + 1) : i \in 0 .. (FEC_K + curM - 1)}
      BY <1>0 DEF FlushPendingBlockLocked
    <3>2. \A p \in wire : p.blk = p.grp + 1
      BY Zenon DEF OrderInv, Genuine
    <3>3. \A i : Packet(n, i, n + 1).blk = Packet(n, i, n + 1).grp + 1
      BY DEF Packet
    <3> HIDE DEF n
    <3> QED
      BY <3>1, <3>2, <3>3
  <2>2. \A s \in Seqs : harqCache'[s] # NoPacket => harqCache'[s].blk = harqCache'[s].grp + 1
    BY <1>0, Zenon DEF FlushPendingBlockLocked, CachedData, Packet, OrderInv, Genuine
  <2> QED
    BY <2>1, <2>2, Zenon DEF OrderInv, Genuine, receiverVars
<1>6. InStep'
  <2>0. nextWriteGrp \in Nat /\ nextWriteGrp <= n /\ Len(out) \in Nat
    BY DEF OrderInv, InStep, TypeInv, TypeOK, ReceiverTypeOK, Groups
  <2>1. wpc = "write" => nextWriteGrp < n
    <3> SUFFICES ASSUME wpc = "write" PROVE nextWriteGrp < n
      OBVIOUS
    <3>1. 0 \in DataIdx /\ 0 \in Idx
      BY TransferAssumption DEF DataIdx, Idx
    <3>2. rxBlocks[nextWriteGrp].pkts[0] = nextWriteGrp + 1
      BY <3>1 DEF OrderInv, InStep, NextIsDecoded, Genuine
    <3>3. rxBlocks[nextWriteGrp].pkts[0] <= n
      <4>1. rxBlocks[nextWriteGrp].pkts[0] \in -1 .. n
        BY <3>1, Zenon DEF OrderInv, InStep, NextIsDecoded, TypeInv, Sourced
      <4> QED
        BY <1>0, <4>1
    <3> QED
      BY <1>0, <2>0, <3>2, <3>3
  <2>2. EndOf(blocks', nextWriteGrp) = EndOf(blocks, nextWriteGrp)
    BY <1>0, <1>2, <2>0
  <2>3. wpc = "write" => /\ EndOf(blocks', nextWriteGrp + 1) = EndOf(blocks, nextWriteGrp + 1)
                         /\ blocks'[nextWriteGrp + 1] = blocks[nextWriteGrp + 1]
    BY SMTT(20), <1>0, <1>1, <1>2, <2>0, <2>1
  <2>4. nextWriteGrp <= Len(blocks') /\ Len(out) <= nread'
    BY SMTT(20), <1>0, <1>1, <2>0, TransferAssumption DEF OrderInv, InStep
  <2>5. UNCHANGED <<nextWriteGrp, rxBlocks, wpc, wi, out>>
    BY DEF receiverVars
  <2> QED
    BY <2>2, <2>3, <2>4, <2>5 DEF OrderInv, InStep, NextIsDecoded
<1> QED
  BY <1>4, <1>5, <1>6

\* Reading from the source connection keeps the order.
LEMMA ReadOrder ==
  ASSUME MaxReads < Half, OrderInv, ReadTCP \/ FlushPendingBlock \/ ReadEOF
  PROVE  OrderInv'
<1> DEFINE e == EndOf(blocks, Len(blocks))
<1>0. /\ TypeInv' /\ UNCHANGED receiverVars
      /\ TypeInv /\ Numbered /\ Genuine /\ InStep
  BY ReadType, Zenon DEF OrderInv, ReadTCP, FlushPendingBlock, ReadEOF
<1>1. /\ pendingData \in Seq(Nat) /\ Len(pendingData) < FEC_K /\ nread \in Nat
      /\ nread' \in 0 .. MaxReads /\ blocks \in Seq(Seq(Nat))
      /\ nread = e + Len(pendingData)
      /\ \A i \in 1 .. Len(pendingData) : pendingData[i] = e + i
  <2>1. /\ pendingData \in Seq(Nat) /\ Len(pendingData) < FEC_K /\ nread \in 0 .. MaxReads
        /\ nread' \in 0 .. MaxReads /\ blocks \in Seq(Seq(Nat))
    <3>1. SenderTypeOK /\ SenderTypeOK'
      BY <1>0 DEF TypeInv, TypeOK
    <3> QED
      BY <3>1 DEF SenderTypeOK
  <2>2. /\ nread = e + Len(pendingData)
        /\ \A i \in 1 .. Len(pendingData) : pendingData[i] = e + i
    BY <1>0, Zenon DEF Numbered
  <2>3. nread \in Nat
    BY <2>1, TransferAssumption
  <2> QED
    BY <2>1, <2>2, <2>3
<1>2. e \in Nat
  <2>1. Len(blocks) \in 0 .. Len(blocks)
    BY <1>1
  <2> QED
    BY <1>0, <1>1, <2>1, NumberedEnds, Zenon
<1> HIDE DEF e
<1>3. ASSUME NoFlush, nread' >= nread, nread' = e + Len(pendingData'),
             \A i \in 1 .. Len(pendingData') : pendingData'[i] = e + i
      PROVE  OrderInv'
  <2>1. UNCHANGED <<blocks, nextGroupID, harqCache, wire>>
    BY <1>3 DEF NoFlush
  <2>2. Genuine'
    BY <1>0, <2>1, Zenon DEF Genuine, receiverVars
  <2>3. \A b \in 0 .. Len(blocks) :
          EndOf(blocks, b) \in Nat /\ b <= EndOf(blocks, b) /\ EndOf(blocks, b) <= nread
    BY <1>0, <1>1, NumberedEnds, Zenon
  <2>a. \A b \in 0 .. Len(blocks) : b <= EndOf(blocks, b) /\ EndOf(blocks, b) <= nread'
    <3>0. nread \in Int /\ nread' \in Int /\ nread <= nread'
      <4>1. \A k \in 0 .. MaxReads : k \in Int
        OBVIOUS
      <4>2. nread' >= nread
        BY <1>3, Zenon
      <4> QED
        BY <1>1, <4>1, <4>2
    <3>1. ASSUME NEW x \in Nat, x <= nread PROVE x <= nread'
      BY <3>0, <3>1
    <3> QED
      BY <2>3, <3>1, Zenon
  <2>4. Numbered'
    BY <1>0, <1>3, <2>1, <2>a, Zenon DEF Numbered, e
  <2>5. Len(out) \in Nat
    BY <1>0 DEF TypeInv, TypeOK, ReceiverTypeOK
  <2>6. InStep'
    <3>1. Len(out) <= nread'
      <4>1. Len(out) <= nread
        BY <1>0, Zenon DEF InStep
      <4> QED
        BY <1>1, <1>3, <2>5, <4>1, TransferAssumption
    <3> QED
      BY <1>0, <2>1, <3>1, Zenon DEF InStep, NextIsDecoded, receiverVars
  <2> QED
    BY <1>0, <2>2, <2>4, <2>6 DEF OrderInv
<1>4. ASSUME pendingData # <<>>, FlushPendingBlockLocked(pendingData), nread' = nread
      PROVE  OrderInv'
  <2>1. Len(pendingData) \in 1 .. FEC_K
    BY <1>1, <1>4, EmptySeq, TransferAssumption
  <2> QED
    BY <1>0, <1>1, <1>4, <2>1, FlushOrder DEF OrderInv, e
<1>5. CASE ReadTCP
  <2> DEFINE pd == Append(pendingData, nread + 1)
  <2>1. /\ pd \in Seq(Nat) /\ Len(pd) = Len(pendingData) + 1 /\ nread' = nread + 1
        /\ \A i \in 1 .. Len(pd) : pd[i] = e + i
    <3>1. nread + 1 \in Nat /\ nread + 1 = e + (Len(pendingData) + 1) /\ Len(pendingData) \in Nat
      BY <1>1, <1>2
    <3>2. /\ pd \in Seq(Nat) /\ Len(pd) = Len(pendingData) + 1
          /\ pd[Len(pendingData) + 1] = nread + 1
          /\ \A i \in 1 .. Len(pendingData) : pd[i] = pendingData[i]
      BY <1>1, <3>1
    <3>3. \A i \in 1 .. Len(pd) : i \in 1 .. Len(pendingData) \/ i = Len(pendingData) + 1
      BY <3>1, <3>2
    <3> HIDE DEF pd
    <3> QED
      BY <1>1, <1>5, <3>1, <3>2, <3>3, Zenon DEF ReadTCP
  <2> HIDE DEF pd
  <2>2. nread' = e + Len(pd) /\ nread' >= nread
    BY <1>1, <1>2, <2>1
  <2>3. CASE pendingData' = pd /\ NoFlush
    BY <1>3, <2>1, <2>2, <2>3
  <2>4. CASE Len(pd) >= FEC_K /\ FlushPendingBlockLocked(pd)
    <3>1. Len(pd) \in 1 .. FEC_K
      BY <1>1, <2>1, <2>4, TransferAssumption
    <3> QED
      BY <1>0, <1>1, <2>1, <2>2, <2>4, <3>1, FlushOrder DEF OrderInv, e
  <2> QED
    BY <1>5, <2>3, <2>4 DEF ReadTCP, pd
<1>6. CASE FlushPendingBlock
  BY <1>1, <1>3, <1>4, <1>6 DEF FlushPendingBlock
<1>7. CASE ReadEOF
  BY <1>1, <1>3, <1>4, <1>7 DEF ReadEOF
<1> QED
  BY <1>5, <1>6, <1>7

\* Storing a packet of block v in a receive block of block v, and decoding.
LEMMA ReceivedGenuine ==
  ASSUME NEW block \in RxBlockType, NEW p \in Packets, NEW v \in Nat \ {0},
         \A i \in Idx : block.pkts[i] \in {0, v}, p.blk = v,
         block.decoded => \A i \in DataIdx : block.pkts[i] # 0
  PROVE  LET r == TryDecodeBlock(Store(block, p))
         IN  /\ \A i \in Idx : r.pkts[i] \in {0, v}
             /\ r.decoded => \A i \in DataIdx : r.pkts[i] # 0
             /\ block.decoded => r.decoded
<1> DEFINE st == Store(block, p)
<1>0. DataIdx \subseteq Idx
  BY TransferAssumption DEF DataIdx, Idx
<1>1. /\ st \in RxBlockType /\ st.decoded = block.decoded
      /\ \A i \in Idx : st.pkts[i] \in {0, v}
      /\ \A i \in Idx : block.pkts[i] # 0 => st.pkts[i] # 0
  <2>1. p.idx \in Idx /\ block.pkts \in [Idx -> Int]
    BY DEF Packets, RxBlockType
  <2>2. /\ st.decoded = block.decoded
        /\ st.pkts = block.pkts \/ st.pkts = [block.pkts EXCEPT ![p.idx] = v]
    BY DEF Store, RxBlockType
  <2> QED
    BY <2>1, <2>2, StoreType, Zenon
<1> HIDE DEF st
<1>2. EnoughShards(st.pkts) => Codeword(st.pkts) = v
  <2> SUFFICES ASSUME EnoughShards(st.pkts) PROVE Codeword(st.pkts) = v
    OBVIOUS
  <2>1. PICK i \in Idx : st.pkts[i] # 0
    <3> SUFFICES ASSUME {i \in Idx : st.pkts[i] # 0} = {} PROVE FALSE
      OBVIOUS
    <3>1. Cardinality({}) >= FEC_K
      BY DEF EnoughShards
    <3> QED
      BY SMTT(20), <3>1, FS_EmptySet, TransferAssumption
  <2>2. {st.pkts[j] : j \in Idx} \ {0} = {v}
    BY <1>1, <2>1
  <2> QED
    BY <2>2 DEF Codeword
<1>3. \/ TryDecodeBlock(st) = st
      \/ /\ EnoughShards(st.pkts)
         /\ TryDecodeBlock(st).pkts = [i \in Idx |-> IF i \in DataIdx /\ st.pkts[i] = 0
                                                      THEN Codeword(st.pkts) ELSE st.pkts[i]]
         /\ TryDecodeBlock(st).decoded
  BY <1>1 DEF TryDecodeBlock, RxBlockType
<1>4. CASE TryDecodeBlock(st) = st
  BY <1>0, <1>1, <1>4, Zenon DEF st
<1>5. CASE TryDecodeBlock(st) # st
  <2>1. v # 0 /\ \A i \in Idx : TryDecodeBlock(st).pkts[i] =
                             IF i \in DataIdx /\ st.pkts[i] = 0 THEN v ELSE st.pkts[i]
    BY <1>2, <1>3, <1>5, Zenon
  <2>2. /\ \A i \in Idx : TryDecodeBlock(st).pkts[i] \in {0, v}
        /\ \A i \in DataIdx : TryDecodeBlock(st).pkts[i] # 0
    BY <1>0, <1>1, <2>1
  <2> QED
    BY <1>3, <1>5, <2>2, Zenon DEF st
<1> QED
  BY <1>4, <1>5, Zenon

\* Steps that touch neither the blocks nor the writer keep the order if the
\* packets stay genuine.
LEMMA OtherOrder ==
  ASSUME OrderInv, TypeInv', Genuine', NextIsDecoded => NextIsDecoded',
         UNCHANGED <<blocks, nextGroupID, pendingData, nread, nextWriteGrp, wpc, wi, out>>
  PROVE  OrderInv'
<1>1. Numbered'
  BY Zenon DEF OrderInv, Numbered
<1>2. InStep'
  BY DEF OrderInv, InStep
<1> QED
  BY <1>1, <1>2 DEF OrderInv

\* The handlers, the timers and the network keep the order.
LEMMA HandlerOrder ==
  ASSUME OrderInv,
         \/ CloseAcked \/ CloseTimeout \/ CloseTick
         \/ \E s \in naks : HandleNak(s)
         \/ \E m \in lqrs : HandleLQR(m)
         \/ StartRecv \/ HandleClose \/ Lose
         \/ \E p \in wire : HandleDataPacket(p)
         \/ \E g \in Groups : HandleLQRTimeout(g) \/ SendNakPeriodic(g)
  PROVE  OrderInv'
<1>0. /\ TypeInv /\ TypeInv' /\ Genuine
      /\ SenderTypeOK /\ ChannelTypeOK /\ ReceiverTypeOK
  BY SenderType, ReceiverType DEF OrderInv, TypeInv, TypeOK
<1>1. /\ UNCHANGED <<blocks, nextGroupID, pendingData, nread, harqCache>>
      /\ UNCHANGED <<nextWriteGrp, wpc, wi, out>>
  BY Zenon DEF CloseAcked, CloseTimeout, SendClose, CloseTick, HandleNak, HandleLQR, StartRecv,
         HandleClose, Lose, HandleDataPacket, HandleLQRTimeout, SendNakPeriodic,
         senderVars, receiverVars
<1>2. ASSUME wire' \subseteq wire,
             DOMAIN rxBlocks \subseteq DOMAIN rxBlocks',
             \A g \in DOMAIN rxBlocks' :
               \/ g \in DOMAIN rxBlocks /\ rxBlocks'[g].pkts = rxBlocks[g].pkts
                                        /\ rxBlocks'[g].decoded = rxBlocks[g].decoded
               \/ g \notin DOMAIN rxBlocks /\ rxBlocks'[g] = NewRxBlock
      PROVE  OrderInv'
  <2>1. /\ \A i \in Idx : NewRxBlock.pkts[i] = 0
        /\ ~NewRxBlock.decoded
    BY DEF NewRxBlock
  <2>2. Genuine'
    <3>1. ASSUME NEW g \in DOMAIN rxBlocks'
          PROVE  /\ \A i \in Idx : rxBlocks'[g].pkts[i] \in {0, g + 1}
                 /\ rxBlocks'[g].decoded => \A i \in DataIdx : rxBlocks'[g].pkts[i] # 0
      <4>1. CASE /\ g \in DOMAIN rxBlocks /\ rxBlocks'[g].pkts = rxBlocks[g].pkts
                 /\ rxBlocks'[g].decoded = rxBlocks[g].decoded
        BY <1>0, <4>1, Zenon DEF Genuine
      <4>2. CASE rxBlocks'[g] = NewRxBlock
        BY <2>1, <4>2, Zenon
      <4> QED
        BY <1>2, <4>1, <4>2, Zenon
    <3> QED
      BY <1>0, <1>1, <1>2, <3>1, Zenon DEF Genuine
  <2>3. NextIsDecoded => NextIsDecoded'
    BY <1>1, <1>2, Zenon DEF NextIsDecoded
  <2> QED
    BY <1>0, <1>1, <2>2, <2>3, OtherOrder
<1>3. CASE CloseAcked \/ CloseTimeout \/ CloseTick \/ HandleClose \/ Lose
  BY <1>2, <1>3, Zenon
  DEF CloseAcked, CloseTimeout, SendClose, CloseTick, HandleClose, Lose, receiverVars
<1>4. CASE \E m \in lqrs : HandleLQR(m)
  BY <1>2, <1>4, Zenon DEF HandleLQR, receiverVars
<1>5. CASE StartRecv
  BY <1>2, <1>5, Zenon DEF StartRecv, WithBlock, channelVars
<1>6. ASSUME NEW g \in Groups, SendNakPeriodic(g) PROVE OrderInv'
  BY <1>2, <1>6 DEF SendNakPeriodic
<1>7. ASSUME NEW g \in Groups, HandleLQRTimeout(g) PROVE OrderInv'
  <2>1. g \in DOMAIN rxBlocks /\ rxBlocks[g] \in RxBlockType
    BY <1>0, <1>7 DEF HandleLQRTimeout, ReceiverTypeOK
  <2> DEFINE reported == [rxBlocks[g] EXCEPT !.reported = TRUE]
  <2>2. reported.pkts = rxBlocks[g].pkts /\ reported.decoded = rxBlocks[g].decoded
    BY <2>1 DEF RxBlockType
  <2>3. rxBlocks' = [rxBlocks EXCEPT ![g] = reported] /\ wire' = wire
    BY <1>7 DEF HandleLQRTimeout
  <2> HIDE DEF reported
  <2>4. /\ DOMAIN rxBlocks' = DOMAIN rxBlocks
        /\ \A h \in DOMAIN rxBlocks : /\ rxBlocks'[h].pkts = rxBlocks[h].pkts
                                      /\ rxBlocks'[h].decoded = rxBlocks[h].decoded
    BY <1>0, <2>1, <2>2, <2>3 DEF ReceiverTypeOK
  <2> QED
    BY <1>2, <2>3, <2>4
<1>8. ASSUME NEW s \in naks, HandleNak(s) PROVE OrderInv'
  <2>1. s \in Seqs /\ wire' = wire \cup ({harqCache[s]} \ {NoPacket}) /\ rxBlocks' = rxBlocks
    BY <1>0, <1>8 DEF HandleNak, ChannelTypeOK, receiverVars
  <2>2. \A p \in wire' : p.blk = p.grp + 1
    BY <1>0, <2>1, Zenon DEF Genuine
  <2>3. Genuine' /\ (NextIsDecoded => NextIsDecoded')
    BY <1>0, <1>1, <2>1, <2>2, Zenon DEF Genuine, NextIsDecoded
  <2> QED
    BY <1>0, <1>1, <2>3, OtherOrder
<1>9. ASSUME NEW p \in wire, HandleDataPacket(p) PROVE OrderInv'
  <2>1. /\ p \in Packets /\ p.grp \in Groups /\ p.grp + 1 \in Nat \ {0} /\ p.blk = p.grp + 1
    BY <1>0, Zenon DEF ChannelTypeOK, Packets, Genuine, Groups
  <2> DEFINE block == IF p.grp \in DOMAIN rxBlocks THEN rxBlocks[p.grp] ELSE NewRxBlock
             r == Received(p)
  <2>2. /\ block \in RxBlockType
        /\ \A i \in Idx : block.pkts[i] \in {0, p.grp + 1}
        /\ block.decoded => \A i \in DataIdx : block.pkts[i] # 0
    <3>1. CASE p.grp \in DOMAIN rxBlocks
      BY <1>0, <3>1 DEF Genuine, ReceiverTypeOK
    <3>2. CASE p.grp \notin DOMAIN rxBlocks
      BY <3>2, NewRxBlockType, Zenon DEF NewRxBlock
    <3> QED
      BY <3>1, <3>2, Zenon
  <2>3. /\ \A i \in Idx : r.pkts[i] \in {0, p.grp + 1}
        /\ r.decoded => \A i \in DataIdx : r.pkts[i] # 0
        /\ p.grp \in DOMAIN rxBlocks /\ rxBlocks[p.grp].decoded => r.decoded
    <3>1. r = TryDecodeBlock(Store(block, p))
      BY Zenon DEF Received
    <3>2. p.grp \in DOMAIN rxBlocks => block = rxBlocks[p.grp]
      OBVIOUS
    <3> DEFINE v == p.grp + 1
    <3>3. /\ v \in Nat \ {0} /\ p.blk = v
          /\ \A i \in Idx : block.pkts[i] \in {0, v}
      BY <2>1, <2>2, Zenon
    <3> HIDE DEF block, r, v
    <3>4. /\ \A i \in Idx : TryDecodeBlock(Store(block, p)).pkts[i] \in {0, v}
          /\ TryDecodeBlock(Store(block, p)).decoded =>
               \A i \in DataIdx : TryDecodeBlock(Store(block, p)).pkts[i] # 0
          /\ block.decoded => TryDecodeBlock(Store(block, p)).decoded
      BY <2>1, <2>2, <3>3, ReceivedGenuine, Zenon
    <3> QED
      BY <3>1, <3>2, <3>4, Zenon DEF v
  <2>4. rxBlocks' = rxBlocks \/ rxBlocks' = WithBlock(p.grp, r)
    BY <1>9, Zenon DEF HandleDataPacket
  <2>5. wire' \subseteq wire
    BY <1>9, Zenon DEF HandleDataPacket, Taken
  <2> HIDE DEF block, r
  <2>6. \A g \in DOMAIN rxBlocks' :
          /\ \A i \in Idx : rxBlocks'[g].pkts[i] \in {0, g + 1}
          /\ rxBlocks'[g].decoded => \A i \in DataIdx : rxBlocks'[g].pkts[i] # 0
    <3>1. CASE rxBlocks' = rxBlocks
      BY <1>0, <3>1, Zenon DEF Genuine
    <3>2. CASE rxBlocks' = WithBlock(p.grp, r)
      <4>1. ASSUME NEW g \in DOMAIN rxBlocks'
            PROVE  (g = p.grp /\ rxBlocks'[g] = r) \/ (g \in DOMAIN rxBlocks /\ rxBlocks'[g] = rxBlocks[g])
        BY <3>2 DEF WithBlock
      <4>2. ASSUME NEW g \in DOMAIN rxBlocks', g = p.grp, rxBlocks'[g] = r
            PROVE  /\ \A i \in Idx : rxBlocks'[g].pkts[i] \in {0, g + 1}
                   /\ rxBlocks'[g].decoded => \A i \in DataIdx : rxBlocks'[g].pkts[i] # 0
        BY <2>3, <4>2
      <4>3. ASSUME NEW g \in DOMAIN rxBlocks', g \in DOMAIN rxBlocks, rxBlocks'[g] = rxBlocks[g]
            PROVE  /\ \A i \in Idx : rxBlocks'[g].pkts[i] \in {0, g + 1}
                   /\ rxBlocks'[g].decoded => \A i \in DataIdx : rxBlocks'[g].pkts[i] # 0
        BY <1>0, <4>3, Zenon DEF Genuine
      <4> QED
        BY <4>1, <4>2, <4>3, Zenon
    <3> QED
      BY <2>4, <3>1, <3>2, Zenon
  <2>7. Genuine'
    BY <1>0, <1>1, <2>5, <2>6, Zenon DEF Genuine
  <2>8. NextIsDecoded => NextIsDecoded'
    BY <1>1, <2>3, <2>4 DEF WithBlock, NextIsDecoded
  <2> QED
    BY <1>0, <1>1, <2>7, <2>8, OtherOrder
<1> QED
  BY <1>3, <1>4, <1>5, <1>6, <1>7, <1>8, <1>9

\* What writeTCPRun writes next: the segment after the last one written, or
\* nothing when the shard is padding.
LEMMA ShardDataInOrder ==
  ASSUME OrderInv, wpc = "write", wi \in DataIdx
  PROVE  /\ nextWriteGrp + 1 \in 1 .. Len(blocks)
         /\ blocks[nextWriteGrp + 1] \in Seq(Nat)
         /\ ShardData(wi) = IF wi < Len(blocks[nextWriteGrp + 1])
                              THEN <<EndOf(blocks, nextWriteGrp) + wi + 1>> ELSE <<>>
<1> DEFINE w == nextWriteGrp
           b == w + 1
<1>0. /\ wi \in Nat /\ wi \in Idx /\ w \in Nat /\ blocks \in Seq(Seq(Nat))
      /\ Numbered /\ Genuine /\ NextIsDecoded
  <2>1. Numbered /\ Genuine /\ NextIsDecoded /\ w \in Groups /\ blocks \in Seq(Seq(Nat))
    BY DEF OrderInv, InStep, TypeInv, TypeOK, ReceiverTypeOK, SenderTypeOK
  <2>2. wi \in Nat /\ wi \in Idx
    BY TransferAssumption DEF DataIdx, Idx
  <2> QED
    BY <2>1, <2>2 DEF Groups
<1>1. rxBlocks[w].pkts[wi] = b
  BY <1>0 DEF NextIsDecoded, Genuine
<1>2. b \in 1 .. Len(blocks)
  BY <1>0, <1>1 DEF NextIsDecoded, OrderInv, TypeInv, Sourced
<1>3. blocks[b] \in Seq(Nat)
  BY <1>0, <1>2
<1>4. ShardData(wi) = IF wi < Len(blocks[b]) THEN <<blocks[b][wi + 1]>> ELSE <<>>
  BY <1>0, <1>1, <1>2 DEF ShardData, Corrupt
<1>5. wi < Len(blocks[b]) => blocks[b][wi + 1] = EndOf(blocks, w) + (wi + 1)
  <2>1. \A i \in 1 .. Len(blocks[b]) : blocks[b][i] = EndOf(blocks, b - 1) + i
    BY <1>0, <1>2 DEF Numbered
  <2>2. b - 1 = w /\ (wi < Len(blocks[b]) => wi + 1 \in 1 .. Len(blocks[b]))
    BY <1>0, <1>3
  <2> QED
    BY <2>1, <2>2
<1>6. EndOf(blocks, w) \in Nat
  <2>1. w \in 0 .. Len(blocks)
    BY <1>0, <1>2
  <2> QED
    BY <1>0, <2>1, EndOfNat DEF Numbered
<1> QED
  BY SMTT(20), <1>0, <1>2, <1>3, <1>4, <1>5, <1>6

\* The steps of writeTCPRun keep the order.
LEMMA WriterOrder ==
  ASSUME MaxReads < Half, OrderInv,
         WriterTake \/ WriteShard \/ WriteFails \/ WriterCleanup \/ WriterExit \/ WriterLeave
  PROVE  OrderInv'
<1> DEFINE w == nextWriteGrp
           e == EndOf(blocks, w)
<1>0. TypeInv' /\ TypeInv /\ Numbered /\ Genuine /\ InStep
  BY WriterType DEF OrderInv
<1>1. /\ UNCHANGED <<blocks, nextGroupID, pendingData, nread, harqCache, wire>>
      /\ Numbered'
  <2>1. UNCHANGED <<blocks, nextGroupID, pendingData, nread, harqCache, wire>>
    BY Zenon DEF WriterTake, WriteShard, WriteFails, WriterCleanup, WriterExit, WriterLeave, senderVars, channelVars
  <2> QED
    BY <1>0, <2>1, Zenon DEF Numbered
<1>2. /\ wi \in 0 .. FEC_K /\ w \in Nat /\ w <= Len(blocks) /\ Len(blocks) \in Nat
      /\ out \in Seq(Int) /\ Len(out) \in Nat /\ nread \in Nat /\ nread <= MaxReads
      /\ blocks \in Seq(Seq(Nat)) /\ FEC_K \in Nat \ {0}
  <2>1. /\ w \in Groups /\ wi \in 0 .. FEC_K /\ out \in Seq(Int)
        /\ blocks \in Seq(Seq(Nat)) /\ nread \in 0 .. MaxReads /\ w <= Len(blocks)
    BY <1>0, Zenon DEF TypeInv, TypeOK, SenderTypeOK, ReceiverTypeOK, InStep
  <2> QED
    BY <2>1, TransferAssumption DEF Groups
<1>3. e \in Nat /\ e <= nread
  <2>1. w \in 0 .. Len(blocks)
    BY <1>2
  <2>2. \A c \in 1 .. Len(blocks) : Len(blocks[c]) >= 1
    BY <1>0 DEF Numbered
  <2>3. EndOf(blocks, w) <= nread
    BY <1>0, <2>1, Zenon DEF Numbered
  <2> QED
    BY <1>2, <2>1, <2>2, <2>3, EndOfNat
<1>4. rxBlocks' = rxBlocks => Genuine'
  BY <1>0, <1>1, Zenon DEF Genuine
<1>5. CASE WriterTake
  <2>1. InStep'
    <3>1. 0 \in DataIdx /\ 0 \in Idx
      BY TransferAssumption DEF DataIdx, Idx
    <3>2. w \in DOMAIN rxBlocks /\ rxBlocks[w].decoded
      BY <1>5 DEF WriterTake, NextIsDecoded
    <3>3. rxBlocks[w].pkts[0] \in {0, w + 1} /\ rxBlocks[w].pkts[0] # 0
      BY <1>0, <3>1, <3>2, Zenon DEF Genuine
    <3>4. rxBlocks[w].pkts[0] \in -1 .. Len(blocks)
      <4>1. Sourced
        BY <1>0 DEF TypeInv
      <4> QED
        BY <3>1, <3>2, <4>1 DEF Sourced
    <3>5. w + 1 \in 1 .. Len(blocks)
      BY <1>2, <3>3, <3>4
    <3>6. Len(blocks[w + 1]) \in Nat
      BY <1>2, <3>5
    <3>7. Len(out) = e + 0 /\ 0 <= Len(blocks[w + 1])
      BY <1>0, <1>3, <1>5, <3>6 DEF WriterTake, InStep
    <3> QED
      BY <1>0, <1>1, <1>5, <3>7, Zenon DEF WriterTake, InStep, NextIsDecoded
  <2> QED
    BY <1>0, <1>1, <1>4, <1>5, <2>1 DEF WriterTake, OrderInv
<1>6. CASE WriteShard
  <2>1. wi \in DataIdx /\ wi \in Nat
    BY <1>2, <1>6 DEF WriteShard, DataIdx
  <2>2. /\ w + 1 \in 1 .. Len(blocks) /\ Len(blocks[w + 1]) \in Nat
        /\ ShardData(wi) = IF wi < Len(blocks[w + 1]) THEN <<e + wi + 1>> ELSE <<>>
    <3>1. /\ w + 1 \in 1 .. Len(blocks) /\ blocks[w + 1] \in Seq(Nat)
          /\ ShardData(wi) = IF wi < Len(blocks[w + 1]) THEN <<e + wi + 1>> ELSE <<>>
      BY <1>6, <2>1, ShardDataInOrder, Zenon DEF WriteShard
    <3>2. Len(blocks[w + 1]) \in Nat
      BY <3>1
    <3> QED
      BY <3>1, <3>2, Zenon
  <2>3. /\ blocks[w + 1][Len(blocks[w + 1])] = e + Len(blocks[w + 1])
        /\ EndOf(blocks, w + 1) = e + Len(blocks[w + 1]) /\ e + Len(blocks[w + 1]) <= nread
    <3>1. /\ Len(blocks[w + 1]) \in 1 .. Len(blocks[w + 1]) /\ (w + 1) - 1 = w
      <4>1. Len(blocks[w + 1]) \in 1 .. FEC_K
        BY <1>0, <2>2, Zenon DEF Numbered
      <4> QED
        BY <1>2, <4>1
    <3>2. blocks[w + 1][Len(blocks[w + 1])] = e + Len(blocks[w + 1])
      BY <1>0, <2>2, <3>1, Zenon DEF Numbered
    <3>3. EndOf(blocks, w + 1) = blocks[w + 1][Len(blocks[w + 1])]
      BY <1>2 DEF EndOf
    <3>4. EndOf(blocks, w + 1) <= nread
      <4>1. w + 1 \in 0 .. Len(blocks)
        BY <1>2, <2>2
      <4> QED
        BY <1>0, <4>1, Zenon DEF Numbered
    <3> QED
      BY <3>2, <3>3, <3>4, Zenon
  <2> DEFINE l == Len(blocks[w + 1])
  <2>4. Len(out) = IF wi <= l THEN e + wi ELSE e + l
    BY <1>0, <1>6, <2>3, Zenon DEF WriteShard, InStep
  <2>5. ASSUME Len(out') = IF wi + 1 <= l THEN e + (wi + 1) ELSE e + l, Len(out') <= nread,
               \A j \in 1 .. Len(out') : out'[j] = j
        PROVE  OrderInv'
    <3>1. /\ UNCHANGED <<rxBlocks, nextWriteGrp, wpc>> /\ wi' = wi + 1
          /\ wpc = "write" /\ NextIsDecoded
      BY <1>0, <1>6, Zenon DEF WriteShard, InStep
    <3>2. InStep'
      BY <1>1, <1>2, <2>3, <2>5, <3>1, Zenon DEF InStep, NextIsDecoded
    <3> QED
      BY <1>0, <1>1, <1>4, <3>1, <3>2 DEF OrderInv
  <2>6. \A j \in 1 .. Len(out) : out[j] = j
    BY <1>0 DEF InStep
  <2>7. l \in Nat /\ EndOf(blocks, w + 1) = e + l /\ e + l <= nread
    BY <2>2, <2>3, Zenon
  <2>8. out' = IF wi < l THEN out \o <<e + wi + 1>> ELSE out \o <<>>
    BY <1>6, <2>2, Zenon DEF WriteShard
  <2> HIDE DEF e, l
  <2>9. CASE wi < l
    <3> DEFINE x == e + wi + 1
    <3>1. Len(out) = e + wi /\ x \in Int /\ x <= nread
      BY <1>2, <1>3, <2>1, <2>4, <2>7, <2>9
    <3>2. out' = Append(out, x)
      <4>1. Append(out, x) = out \o <<x>>
        BY <1>2, <3>1, AppendIsConcat, Zenon
      <4> QED
        BY <2>8, <2>9, <4>1, Zenon
    <3>3. /\ Len(out') = Len(out) + 1 /\ out'[Len(out) + 1] = x
          /\ \A j \in 1 .. Len(out) : out'[j] = out[j]
      BY <1>2, <3>1, <3>2, AppendedNumber, Zenon
    <3>4. \A j \in 1 .. Len(out') : j \in 1 .. Len(out) \/ j = Len(out) + 1
      BY <1>2, <3>3
    <3>5. \A j \in 1 .. Len(out') : out'[j] = j
      BY <1>3, <2>1, <2>6, <3>1, <3>3, <3>4
    <3>6. Len(out') = x /\ wi + 1 <= l /\ x = e + (wi + 1)
      BY <1>3, <2>1, <2>7, <2>9, <3>1, <3>3
    <3> HIDE DEF x
    <3> QED
      BY <2>5, <3>1, <3>5, <3>6
  <2>10. CASE ~(wi < l)
    <3>1. out' = out /\ Len(out) = e + l /\ ~(wi + 1 <= l)
      BY <1>2, <1>3, <2>1, <2>4, <2>7, <2>8, <2>10, ConcatEmptySeq
    <3> QED
      BY <2>5, <2>6, <2>7, <3>1
  <2> QED
    BY <2>9, <2>10
<1>7. CASE WriteFails \/ WriterExit \/ WriterLeave
  <2>1. InStep'
    BY <1>0, <1>1, <1>7, Zenon DEF WriteFails, WriterExit, WriterLeave, InStep
  <2> QED
    BY <1>0, <1>1, <1>4, <1>7, <2>1, Zenon DEF WriteFails, WriterExit, WriterLeave, OrderInv
<1>8. CASE WriterCleanup
  <2>1. wpc = "write" /\ wi = FEC_K /\ wpc' = "wait" /\ out' = out /\ nextWriteGrp' = Succ(w)
    BY <1>8, Zenon DEF WriterCleanup
  <2>2. /\ DOMAIN rxBlocks' \subseteq DOMAIN rxBlocks
        /\ \A h \in DOMAIN rxBlocks' : rxBlocks'[h] = rxBlocks[h]
    BY <1>8, Zenon DEF WriterCleanup
  <2>3. Genuine'
    BY <1>0, <1>1, <2>2, Zenon DEF Genuine
  <2>4. 0 \in DataIdx /\ 0 \in Idx
    BY TransferAssumption DEF DataIdx, Idx
  <2>5. rxBlocks[w].pkts[0] = w + 1 /\ rxBlocks[w].pkts[0] <= Len(blocks)
    <3>1. w \in DOMAIN rxBlocks /\ rxBlocks[w].decoded
      BY <1>0, <2>1 DEF InStep, NextIsDecoded
    <3> DEFINE x == rxBlocks[w].pkts[0]
               l == Len(blocks)
    <3>2. x \in {0, w + 1} /\ x # 0
      BY <1>0, <2>4, <3>1, Zenon DEF Genuine
    <3>3. x \in -1 .. l
      <4>1. Sourced
        BY <1>0 DEF TypeInv
      <4> QED
        BY <2>4, <3>1, <4>1 DEF Sourced
    <3>4. w \in Nat /\ l \in Nat
      BY <1>2
    <3> HIDE DEF x, l
    <3>5. x = w + 1 /\ x <= l
      BY <3>2, <3>3, <3>4
    <3> QED
      BY <3>5 DEF x, l
  <2>6. w + 1 \in 1 .. Len(blocks) /\ Len(blocks[w + 1]) \in 1 .. FEC_K
    <3>1. w + 1 \in 1 .. Len(blocks)
      <4>1. w + 1 <= Len(blocks)
        BY <2>5, Zenon
      <4> QED
        BY <1>2, <4>1
    <3> QED
      BY <1>0, <3>1, Zenon DEF Numbered
  <2>7. w + 1 <= nread
    <3>1. w + 1 \in 0 .. Len(blocks)
      BY <1>2, <2>6
    <3>2. /\ EndOf(blocks, w + 1) \in Nat
          /\ w + 1 <= EndOf(blocks, w + 1) /\ EndOf(blocks, w + 1) <= nread
      BY <1>0, <1>2, <3>1, NumberedEnds, Zenon
    <3> QED
      BY <1>2, <3>2
  <2>8. nextWriteGrp' = w + 1
    BY <1>2, <2>1, <2>7, TransferAssumption DEF Succ, GroupSpace
  <2>9. Len(out) = EndOf(blocks, w + 1)
    <3>1. Len(out) = IF wi <= Len(blocks[w + 1]) THEN e + wi ELSE EndOf(blocks, w + 1)
      BY <1>0, <2>1 DEF InStep
    <3>2. Len(blocks[w + 1]) \in 1 .. Len(blocks[w + 1]) /\ (w + 1) - 1 = w
      BY <1>2, <2>6
    <3>3. blocks[w + 1][Len(blocks[w + 1])] = e + Len(blocks[w + 1])
      BY <1>0, <2>6, <3>2, Zenon DEF Numbered
    <3>4. EndOf(blocks, w + 1) = e + Len(blocks[w + 1])
      <4>1. w + 1 # 0
        BY <1>2
      <4> QED
        BY <3>3, <4>1, Zenon DEF EndOf
    <3>5. wi <= Len(blocks[w + 1]) => wi = Len(blocks[w + 1])
      BY <2>1, <2>6, TransferAssumption
    <3> HIDE DEF e
    <3> QED
      BY <3>1, <3>4, <3>5
  <2>10. InStep'
    <3>1. w + 1 <= Len(blocks) /\ wpc' # "write"
      BY <1>2, <2>1, <2>6
    <3> QED
      BY <1>0, <1>1, <2>1, <2>8, <2>9, <3>1, Zenon DEF InStep
  <2> QED
    BY <1>0, <1>1, <2>3, <2>10 DEF OrderInv
<1> QED
  BY <1>5, <1>6, <1>7, <1>8

\* Nothing is in the wrong order at first.
LEMMA InitOrder == Init => OrderInv
<1> SUFFICES ASSUME Init PROVE OrderInv
  OBVIOUS
<1>1. TypeInv
  BY InitType
<1>2. Len(blocks) = 0 /\ Len(pendingData) = 0 /\ Len(out) = 0 /\ DOMAIN rxBlocks = {}
  BY DEF Init
<1>3. Numbered
  BY <1>2 DEF Init, Numbered, EndOf
<1>4. \A s \in Seqs : harqCache[s] = NoPacket
  BY DEF Init
<1>5. Genuine
  BY <1>2, <1>4, Zenon DEF Init, Genuine
<1>6. InStep
  BY <1>2 DEF Init, InStep, EndOf
<1> QED
  BY <1>1, <1>3, <1>5, <1>6 DEF OrderInv

\* Every step keeps the order.
LEMMA OrderStep ==
  ASSUME MaxReads < Half
  PROVE  OrderInv /\ [Next]_vars => OrderInv'
<1> SUFFICES ASSUME OrderInv, [Next]_vars PROVE OrderInv'
  OBVIOUS
<1>1. CASE UNCHANGED vars
  <2>1. UNCHANGED <<senderVars, channelVars, receiverVars>>
    BY <1>1 DEF vars
  <2>2. TypeInv'
    BY <1>1, TypeStep DEF OrderInv
  <2>3. Genuine'
    BY <2>1, Zenon DEF senderVars, channelVars, receiverVars, Genuine, OrderInv
  <2>4. NextIsDecoded => NextIsDecoded'
    BY <2>1 DEF receiverVars, NextIsDecoded
  <2> QED
    BY <2>1, <2>2, <2>3, <2>4, OtherOrder DEF senderVars, receiverVars
<1>2. CASE Next
  BY <1>2, ReadOrder, HandlerOrder, WriterOrder DEF Next, DataPath, Ending
<1> QED
  BY <1>1, <1>2

\* The output of writeTCPRun is a prefix of the input of readTCPRun
\* (OutIsPrefix), whatever the network loses, duplicates and reorders, as long
\* as the session carries fewer blocks than half the group number space.
THEOREM InOrderDelivery ==
  ASSUME MaxReads < Half
  PROVE  Spec => []OutIsPrefix
<1>1. Init => OrderInv
  BY InitOrder
<1>2. OrderInv /\ [Next]_vars => OrderInv'
  BY OrderStep
<1>3. OrderInv => OutIsPrefix
  <2> SUFFICES ASSUME OrderInv PROVE OutIsPrefix
    OBVIOUS
  <2>1. out \in Seq(Int) /\ Len(out) <= nread /\ \A j \in 1 .. Len(out) : out[j] = j
    BY DEF OrderInv, TypeInv, TypeOK, ReceiverTypeOK, InStep
  <2>2. out = [j \in 1 .. Len(out) |-> out[j]]
    BY <2>1
  <2> QED
    BY <2>1, <2>2 DEF OutIsPrefix
<1> QED
  BY <1>1, <1>2, <1>3, PTL DEF Spec

\* One direction of a session implements the ByteStream (StreamSpec): Conn.Read is
\* its Read, a Conn.Write its Deliver, and every other step leaves it alone.
THEOREM Refinement ==
  ASSUME MaxReads < Half
  PROVE  Spec => StreamSpec
<1>1. Init => Stream!Init
  BY DEF Init, Stream!Init
<1>2. OrderInv /\ OrderInv' /\ [Next]_vars => [Stream!Next]_Stream!vars
  <2> SUFFICES ASSUME OrderInv, OrderInv', [Next]_vars
               PROVE  Stream!Next \/ (nread' = nread /\ out' = out)
    BY DEF Stream!vars
  <2>1. CASE ReadTCP
    BY <2>1 DEF ReadTCP, receiverVars, Stream!Next, Stream!Read
  <2>2. CASE WriteShard
    <3>0. nread' = nread /\ out' = out \o ShardData(wi) /\ wpc = "write" /\ wi < FEC_K
      BY <2>2 DEF WriteShard, senderVars
    <3>a. wi \in 0 .. FEC_K
      BY DEF OrderInv, TypeInv, TypeOK, ReceiverTypeOK
    <3>1. nread' = nread /\ out' = out \o ShardData(wi) /\ wpc = "write" /\ wi \in DataIdx
      BY <3>0, <3>a, TransferAssumption DEF DataIdx
    <3>2. out \in Seq(Int) /\ out' \in Seq(Int)
      BY DEF OrderInv, TypeInv, TypeOK, ReceiverTypeOK
    <3>3. Len(out') <= nread' /\ \A j \in 1 .. Len(out') : out'[j] = j
      BY DEF OrderInv, InStep
    <3>4. CASE ShardData(wi) = <<>>
      BY <3>1, <3>2, <3>4, ConcatEmptySeq
    <3>5. CASE ShardData(wi) # <<>>
      <4>0. PICK v : ShardData(wi) = <<v>>
        BY <3>5, Zenon DEF ShardData
      <4>1. v \in Int
        BY <3>1, <4>0, ShardDataType DEF OrderInv
      <4>2. out' = Append(out, v)
        BY <3>1, <3>2, <4>0, <4>1, AppendIsConcat
      <4>3. Len(out') = Len(out) + 1 /\ out'[Len(out) + 1] = v
        BY <3>2, <4>1, <4>2, AppendProperties
      <4>4. v = Len(out) + 1 /\ Len(out) < nread
        <5>1. nread \in 0 .. MaxReads
          BY DEF OrderInv, TypeInv, TypeOK, SenderTypeOK
        <5>2. Len(out) \in Nat
          BY <3>2
        <5>3. Len(out) + 1 \in 1 .. Len(out')
          BY <4>3, <5>2
        <5> QED
          BY <3>1, <3>3, <4>3, <5>1, <5>2, <5>3, TransferAssumption
      <4> QED
        BY <3>1, <4>2, <4>4 DEF Stream!Next, Stream!Deliver
    <3> QED
      BY <3>4, <3>5
  <2>3. CASE UNCHANGED vars
    BY <2>3 DEF vars, senderVars, receiverVars
  <2>4. CASE \/ FlushPendingBlock \/ ReadEOF \/ CloseAcked \/ CloseTimeout \/ CloseTick
             \/ \E s \in naks : HandleNak(s)
             \/ \E m \in lqrs : HandleLQR(m)
             \/ Lose
    BY <2>4, Zenon DEF FlushPendingBlock, ReadEOF, CloseAcked, CloseTimeout, SendClose, CloseTick,
                HandleNak, HandleLQR, Lose, senderVars, receiverVars
  <2>5. CASE \/ StartRecv \/ HandleClose
             \/ \E p \in wire : HandleDataPacket(p)
             \/ \E g \in Groups : HandleLQRTimeout(g) \/ SendNakPeriodic(g)
             \/ WriterTake \/ WriteFails \/ WriterCleanup \/ WriterExit \/ WriterLeave
    BY <2>5, Zenon DEF StartRecv, HandleClose, HandleDataPacket, HandleLQRTimeout, SendNakPeriodic,
                WriterTake, WriteFails, WriterCleanup, WriterExit, WriterLeave, senderVars
  <2> QED
    BY <2>1, <2>2, <2>3, <2>4, <2>5 DEF Next, DataPath, Ending
<1>3. Init => OrderInv
  BY InitOrder
<1>4. OrderInv /\ [Next]_vars => OrderInv'
  BY OrderStep
<1> QED
  BY <1>1, <1>2, <1>3, <1>4, PTL DEF Spec, StreamSpec, Stream!Spec
=============================================================================
