--------------------------- MODULE FeedbackProofs ---------------------------
(***************************************************************************)
(* The feedback between the two halves of Transfer: what the receiver      *)
(* reports and asks for, and what the sender and the writer conclude.      *)
(***************************************************************************)
EXTENDS TransferProofs

-----------------------------------------------------------------------------
(* Receive blocks: the counter against the slots.                          *)

Filled(block) == {i \in Idx : block.pkts[i] # 0}

\* cnt counts packets, each in a slot of its own; a reconstructed slot is not counted,
\* and there is none without a packet.
Counted(block) ==
  /\ block.cnt <= Cardinality(Filled(block))
  /\ block.cnt = 0 => \A i \in Idx : block.pkts[i] = 0

\* The filled slots are finitely many.
LEMMA FilledFinite ==
  ASSUME NEW block
  PROVE  IsFiniteSet(Filled(block)) /\ Cardinality(Filled(block)) \in Nat
<1>1. Filled(block) \in SUBSET Idx
  BY DEF Filled
<1> QED
  BY <1>1, IdxFinite, FS_Subset, FS_CardinalityType

\* Storing a packet keeps the count, and counts it.
LEMMA StoreCounted ==
  ASSUME NEW block \in RxBlockType, NEW p \in Packets, Counted(block)
  PROVE  Counted(Store(block, p)) /\ Store(block, p).cnt > 0
<1>0. /\ block.pkts \in [Idx -> Int] /\ block.cnt \in Nat
      /\ p.idx \in Idx /\ p.blk \in Int /\ p.blk # 0
  BY DEF RxBlockType, Packets
<1>1. CASE block.pkts[p.idx] # 0
  <2>1. Store(block, p) = block /\ block.cnt # 0
    BY <1>0, <1>1 DEF Store, Counted
  <2> QED
    BY <1>0, <2>1
<1>2. CASE block.pkts[p.idx] = 0
  <2> DEFINE st == Store(block, p)
  <2>1. st.pkts = [block.pkts EXCEPT ![p.idx] = p.blk] /\ st.cnt = block.cnt + 1
    BY <1>2 DEF Store, RxBlockType
  <2> HIDE DEF st
  <2>2. Filled(st) = Filled(block) \cup {p.idx} /\ p.idx \notin Filled(block)
    BY <1>0, <1>2, <2>1 DEF Filled
  <2>3. Cardinality(Filled(st)) = Cardinality(Filled(block)) + 1
    BY <2>2, FilledFinite, FS_AddElement, Zenon
  <2>4. Cardinality(Filled(block)) \in Nat
    BY FilledFinite
  <2> QED
    BY <1>0, <2>1, <2>3, <2>4 DEF Counted, st
<1> QED
  BY <1>1, <1>2

\* Reconstruction fills slots and does not count them.
LEMMA DecodeCounted ==
  ASSUME NEW block \in RxBlockType, Counted(block), block.cnt > 0
  PROVE  Counted(TryDecodeBlock(block)) /\ TryDecodeBlock(block).cnt > 0
<1> DEFINE dec == TryDecodeBlock(block)
<1>0. block.cnt \in Nat /\ block.pkts \in [Idx -> Int]
  BY DEF RxBlockType
<1>1. dec.cnt = block.cnt
  BY DEF TryDecodeBlock, RxBlockType
<1>2. \A i \in Idx : block.pkts[i] # 0 => dec.pkts[i] = block.pkts[i]
  <2>1. \/ dec = block
        \/ dec.pkts = [i \in Idx |-> IF i \in DataIdx /\ block.pkts[i] = 0
                                       THEN Codeword(block.pkts) ELSE block.pkts[i]]
    BY DEF TryDecodeBlock, RxBlockType
  <2> HIDE DEF dec
  <2> QED
    BY <2>1
<1> HIDE DEF dec
<1>3. Filled(block) \in SUBSET Filled(dec)
  BY <1>2 DEF Filled
<1>4. /\ Cardinality(Filled(block)) <= Cardinality(Filled(dec))
      /\ Cardinality(Filled(block)) \in Nat /\ Cardinality(Filled(dec)) \in Nat
  BY <1>3, FilledFinite, FS_Subset
<1> QED
  BY <1>0, <1>1, <1>4 DEF Counted, dec

\* The losses that a report states are a number of packets of a block.
LEMMA LossesBound ==
  ASSUME NEW block \in RxBlockType, Counted(block)
  PROVE  Losses(block) \in 0 .. (FEC_K + FEC_M)
<1> DEFINE expected == DataIdx \cup
        {j \in Idx : \E i \in Idx \ DataIdx : block.pkts[i] # 0 /\ j <= i}
<1>1. Filled(block) \subseteq expected
  BY TransferAssumption DEF Filled, Idx
<1>2. expected \in SUBSET Idx
  BY TransferAssumption DEF Idx, DataIdx
<1>3. Losses(block) = Cardinality(expected) - block.cnt
  BY DEF Losses
<1> HIDE DEF expected
<1>4. IsFiniteSet(expected) /\ Cardinality(expected) <= Cardinality(Idx)
  BY <1>2, IdxFinite, FS_Subset
<1>5. Cardinality(expected) \in Nat /\ Cardinality(Filled(block)) <= Cardinality(expected)
  BY <1>1, <1>4, FS_Subset, FS_CardinalityType
<1>6. Cardinality(Idx) = FEC_K + FEC_M
  <2>1. 0 \in Int /\ FEC_K + FEC_M - 1 \in Int /\ FEC_K + FEC_M > 0
    BY TransferAssumption
  <2> QED
    BY <2>1, FS_Interval, TransferAssumption DEF Idx
<1>7. block.cnt \in Nat /\ block.cnt <= Cardinality(Filled(block)) /\ Cardinality(Filled(block)) \in Nat
  BY FilledFinite DEF Counted, RxBlockType
<1> QED
  BY <1>3, <1>4, <1>5, <1>6, <1>7, TransferAssumption

-----------------------------------------------------------------------------
(* What a step does to the receive blocks and to the reports in flight.    *)

Kept        == UNCHANGED <<rxBlocks, nextWriteGrp>>
Started     == /\ DOMAIN rxBlocks = {} /\ rxBlocks' = WithBlock(0, NewRxBlock)
               /\ UNCHANGED nextWriteGrp
Stored(p)   == /\ ~After(nextWriteGrp, p.grp) /\ rxBlocks' = WithBlock(p.grp, Received(p))
               /\ UNCHANGED nextWriteGrp
Reported(g) == /\ rxBlocks' = [rxBlocks EXCEPT ![g].reported = TRUE] /\ UNCHANGED nextWriteGrp
Dropped     == /\ rxBlocks' = [h \in DOMAIN rxBlocks \ {nextWriteGrp} |-> rxBlocks[h]]
               /\ nextWriteGrp' = Succ(nextWriteGrp)

\* A report of group g.
ReportOf(g) == [grp |-> g, losses |-> Losses(rxBlocks[g])]

\* Receive blocks are created by Start or a packet, marked by their timer and dropped by
\* the writer.
LEMMA RxSteps ==
  ASSUME [Next]_vars
  PROVE  \/ Kept \/ Started \/ Dropped
         \/ \E p \in wire : HandleDataPacket(p) /\ Stored(p)
         \/ \E g \in DOMAIN rxBlocks : Reported(g)
<1>1. CASE UNCHANGED vars
  BY <1>1 DEF vars, receiverVars, Kept
<1>2. CASE \/ ReadTCP \/ FlushPendingBlock \/ ReadEOF \/ CloseAcked \/ CloseTimeout \/ CloseTick
           \/ \E s \in naks : HandleNak(s)
           \/ \E m \in lqrs : HandleLQR(m)
           \/ Lose
  BY <1>2, Zenon DEF ReadTCP, FlushPendingBlock, ReadEOF, CloseAcked, CloseTimeout, SendClose,
                     CloseTick, HandleNak, HandleLQR, Lose, receiverVars, Kept
<1>3. CASE \/ HandleClose \/ WriterTake \/ WriteShard \/ WriteFails \/ WriterExit \/ WriterLeave
           \/ \E g \in Groups : SendNakPeriodic(g)
  BY <1>3, Zenon DEF HandleClose, WriterTake, WriteShard, WriteFails, WriterExit, WriterLeave,
                     SendNakPeriodic, Kept
<1>4. CASE StartRecv
  BY <1>4 DEF StartRecv, Started, Kept
<1>5. ASSUME NEW p \in wire, HandleDataPacket(p) PROVE Kept \/ Stored(p)
  BY <1>5 DEF HandleDataPacket, Kept, Stored
<1>6. ASSUME NEW g \in Groups, HandleLQRTimeout(g) PROVE g \in DOMAIN rxBlocks /\ Reported(g)
  BY <1>6 DEF HandleLQRTimeout, Reported
<1>7. CASE WriterCleanup
  BY <1>7 DEF WriterCleanup, Dropped
<1> QED
  BY <1>1, <1>2, <1>3, <1>4, <1>5, <1>6, <1>7 DEF Next, DataPath, Ending

\* Reports are made of a receive block by its timer or by the writer.
LEMMA LqrSteps ==
  ASSUME TypeInv, [Next]_vars
  PROVE  \A m \in lqrs' : \/ m \in lqrs
                          \/ \E g \in DOMAIN rxBlocks : HandleLQRTimeout(g) /\ m = ReportOf(g)
                          \/ WriterCleanup /\ m = ReportOf(nextWriteGrp)
<1>0. wpc = "write" => nextWriteGrp \in DOMAIN rxBlocks
  BY DEF TypeInv, Sourced
<1>1. CASE UNCHANGED vars
  BY <1>1 DEF vars, channelVars
<1>2. CASE \/ ReadTCP \/ FlushPendingBlock \/ ReadEOF \/ CloseAcked \/ CloseTimeout \/ CloseTick
           \/ \E s \in naks : HandleNak(s)
  BY <1>2, Zenon DEF ReadTCP, FlushPendingBlock, ReadEOF, CloseAcked, CloseTimeout, SendClose,
                     CloseTick, HandleNak
<1>3. CASE (\E m \in lqrs : HandleLQR(m)) \/ Lose
  BY <1>3 DEF HandleLQR, Taken, Lose
<1>4. CASE \/ HandleClose \/ WriterTake \/ WriteShard \/ WriteFails \/ WriterExit \/ WriterLeave
           \/ \E g \in Groups : SendNakPeriodic(g)
           \/ StartRecv \/ \E p \in wire : HandleDataPacket(p)
  BY <1>4, Zenon DEF HandleClose, WriterTake, WriteShard, WriteFails, WriterExit, WriterLeave,
                     SendNakPeriodic, StartRecv, HandleDataPacket, channelVars
<1>5. ASSUME NEW g \in Groups, HandleLQRTimeout(g)
      PROVE  g \in DOMAIN rxBlocks /\ lqrs' = lqrs \cup {ReportOf(g)}
  BY <1>5 DEF HandleLQRTimeout, ReportOf
<1>6. CASE WriterCleanup
  <2>1. lqrs' \subseteq lqrs \cup {ReportOf(nextWriteGrp)}
    BY <1>6 DEF WriterCleanup, ReportOf
  <2> QED
    BY <1>6, <2>1
<1>7. CASE \E g \in Groups : HandleLQRTimeout(g)
  BY <1>5, <1>7
<1> QED
  BY <1>1, <1>2, <1>3, <1>4, <1>6, <1>7 DEF Next, DataPath, Ending

-----------------------------------------------------------------------------
(* Without an assumption on the number of groups.                          *)

\* A block other than the first exists only because of a packet.
BlocksCounted ==
  \A g \in DOMAIN rxBlocks : Counted(rxBlocks[g]) /\ (g # 0 => rxBlocks[g].cnt > 0)

\* What is known of the block that a packet is stored in.
LEMMA ReceivedCounted ==
  ASSUME TypeInv, BlocksCounted, NEW p \in wire
  PROVE  Counted(Received(p)) /\ Received(p).cnt > 0 /\ Received(p) \in RxBlockType
<1> DEFINE block == IF p.grp \in DOMAIN rxBlocks THEN rxBlocks[p.grp] ELSE NewRxBlock
<1>0. p \in Packets
  BY DEF TypeInv, TypeOK, ChannelTypeOK
<1>1. NewRxBlock \in RxBlockType /\ Counted(NewRxBlock)
  <2>1. NewRxBlock.cnt = 0 /\ \A i \in Idx : NewRxBlock.pkts[i] = 0
    BY DEF NewRxBlock
  <2>2. Cardinality(Filled(NewRxBlock)) \in Nat
    BY FilledFinite
  <2> QED
    BY <2>1, <2>2, NewRxBlockType DEF Counted
<1>2. block \in RxBlockType /\ Counted(block)
  BY <1>1 DEF BlocksCounted, TypeInv, TypeOK, ReceiverTypeOK
<1>3. Received(p) = TryDecodeBlock(Store(block, p))
  BY DEF Received
<1> HIDE DEF block
<1> QED
  BY <1>0, <1>2, <1>3, StoreType, StoreCounted, DecodeCounted, ReceivedType

\* Every step keeps the counts.
LEMMA CountStep ==
  ASSUME TypeInv, BlocksCounted, [Next]_vars
  PROVE  BlocksCounted'
<1>1. CASE Kept
  BY <1>1 DEF Kept, BlocksCounted
<1>2. CASE Started
  <2>1. DOMAIN rxBlocks' = {0} /\ rxBlocks'[0] = NewRxBlock
    BY <1>2 DEF Started, WithBlock
  <2>2. NewRxBlock.cnt = 0 /\ \A i \in Idx : NewRxBlock.pkts[i] = 0
    BY DEF NewRxBlock
  <2>3. Cardinality(Filled(NewRxBlock)) \in Nat
    BY FilledFinite
  <2>4. Counted(NewRxBlock)
    BY <2>2, <2>3 DEF Counted
  <2> QED
    BY <2>1, <2>4 DEF BlocksCounted
<1>3. CASE Dropped
  BY <1>3 DEF Dropped, BlocksCounted
<1>4. ASSUME NEW p \in wire, Stored(p) PROVE BlocksCounted'
  <2>1. DOMAIN rxBlocks' = DOMAIN rxBlocks \cup {p.grp}
    BY <1>4 DEF Stored, WithBlock
  <2>2. rxBlocks'[p.grp] = Received(p) /\ \A h \in DOMAIN rxBlocks : h # p.grp => rxBlocks'[h] = rxBlocks[h]
    BY <1>4 DEF Stored, WithBlock
  <2>3. Counted(Received(p)) /\ Received(p).cnt > 0
    BY ReceivedCounted
  <2> QED
    BY <2>1, <2>2, <2>3, Zenon DEF BlocksCounted
<1>5. ASSUME NEW g \in DOMAIN rxBlocks, Reported(g) PROVE BlocksCounted'
  <2>1. DOMAIN rxBlocks' = DOMAIN rxBlocks /\ \A h \in DOMAIN rxBlocks : h # g => rxBlocks'[h] = rxBlocks[h]
    BY <1>5 DEF Reported
  <2>2. rxBlocks[g] \in RxBlockType
    BY DEF TypeInv, TypeOK, ReceiverTypeOK
  <2>3. rxBlocks'[g].pkts = rxBlocks[g].pkts /\ rxBlocks'[g].cnt = rxBlocks[g].cnt
    BY <1>5, <2>2 DEF Reported, RxBlockType
  <2>4. Counted(rxBlocks'[g]) /\ (g # 0 => rxBlocks'[g].cnt > 0)
    BY <2>3 DEF BlocksCounted, Counted, Filled
  <2>5. ASSUME NEW h \in DOMAIN rxBlocks'
        PROVE  Counted(rxBlocks'[h]) /\ (h # 0 => rxBlocks'[h].cnt > 0)
    <3>1. CASE h = g
      BY <2>4, <3>1
    <3>2. CASE h # g
      BY <2>1, <3>2 DEF BlocksCounted
    <3> QED
      BY <3>1, <3>2
  <2> QED
    BY <2>5, Zenon DEF BlocksCounted
<1> QED
  BY <1>1, <1>2, <1>3, <1>4, <1>5, RxSteps

\* The counts hold at first.
LEMMA CountInit == Init => BlocksCounted
  BY DEF Init, BlocksCounted

\* handleLQRTimeout, writeTCPRun: the losses that a report states are between 0 and the
\* number of packets of a block (LossesInRange), whatever was lost, duplicated or
\* reconstructed, so the clamps to the range of a byte never act.
THEOREM ReportsInRange == Spec => []LossesInRange
<1> DEFINE Inv == TypeInv /\ BlocksCounted /\ LossesInRange
<1>1. Init => Inv
  BY InitType, CountInit DEF Init, LossesInRange
<1>2. Inv /\ [Next]_vars => Inv'
  <2> SUFFICES ASSUME Inv, [Next]_vars PROVE Inv'
    OBVIOUS
  <2>1. TypeInv' /\ BlocksCounted'
    BY TypeStep, CountStep
  <2>2. ASSUME NEW g \in DOMAIN rxBlocks PROVE ReportOf(g).losses \in 0 .. (FEC_K + FEC_M)
    <3>1. rxBlocks[g] \in RxBlockType /\ Counted(rxBlocks[g])
      BY DEF BlocksCounted, TypeInv, TypeOK, ReceiverTypeOK
    <3> QED
      BY <3>1, LossesBound DEF ReportOf
  <2>3. WriterCleanup => nextWriteGrp \in DOMAIN rxBlocks
    BY DEF WriterCleanup, TypeInv, Sourced
  <2>4. LossesInRange'
    BY <2>2, <2>3, LqrSteps DEF LossesInRange
  <2> QED
    BY <2>1, <2>4
<1> QED
  BY <1>1, <1>2, PTL DEF Spec

\* The writer moves on by one group: what is behind it then was behind it before, or is
\* the group just written.
LEMMA AfterSucc ==
  ASSUME NEW g \in Groups, NEW h \in Groups, After(Succ(g), h), h # g
  PROVE  After(g, h)
  BY TransferAssumption DEF After, Diff, Succ, Groups, GroupSpace

\* HandleDataPacket, Start, writeTCPRun: late and duplicated packets never bring back a
\* receive block that was written (OnlyFirstBehindWriter), also across the wrap of the
\* group number.
THEOREM WrittenStaysWritten == Spec => []OnlyFirstBehindWriter
<1> DEFINE Inv == TypeInv /\ OnlyFirstBehindWriter
<1>1. Init => Inv
  BY InitType DEF Init, OnlyFirstBehindWriter
<1>2. Inv /\ [Next]_vars => Inv'
  <2> SUFFICES ASSUME Inv, [Next]_vars PROVE OnlyFirstBehindWriter'
    BY TypeStep
  <2>1. CASE Kept
    BY <2>1 DEF Kept, OnlyFirstBehindWriter, After, Diff
  <2>2. CASE Started
    <3>1. DOMAIN rxBlocks' = {0}
      BY <2>2 DEF Started, WithBlock
    <3> QED
      BY <3>1 DEF OnlyFirstBehindWriter
  <2>3. CASE Dropped
    <3>1. DOMAIN rxBlocks' = DOMAIN rxBlocks \ {nextWriteGrp} /\ nextWriteGrp' = Succ(nextWriteGrp)
      BY <2>3 DEF Dropped
    <3>2. DOMAIN rxBlocks \subseteq Groups /\ nextWriteGrp \in Groups
      BY DEF TypeInv, TypeOK, ReceiverTypeOK
    <3>3. ASSUME NEW h \in DOMAIN rxBlocks', After(Succ(nextWriteGrp), h) PROVE h = 0
      BY <3>1, <3>2, <3>3, AfterSucc DEF OnlyFirstBehindWriter
    <3> QED
      BY <3>1, <3>3, Zenon DEF OnlyFirstBehindWriter
  <2>4. ASSUME NEW p \in wire, Stored(p) PROVE OnlyFirstBehindWriter'
    <3>1. /\ DOMAIN rxBlocks' = DOMAIN rxBlocks \cup {p.grp} /\ nextWriteGrp' = nextWriteGrp
          /\ ~After(nextWriteGrp, p.grp)
      BY <2>4 DEF Stored, WithBlock
    <3> QED
      BY <3>1, Zenon DEF OnlyFirstBehindWriter
  <2>5. ASSUME NEW g \in DOMAIN rxBlocks, Reported(g) PROVE OnlyFirstBehindWriter'
    <3>1. DOMAIN rxBlocks' = DOMAIN rxBlocks /\ nextWriteGrp' = nextWriteGrp
      BY <2>5 DEF Reported
    <3> QED
      BY <3>1, Zenon DEF OnlyFirstBehindWriter
  <2> QED
    BY <2>1, <2>2, <2>3, <2>4, <2>5, RxSteps
<1> QED
  BY <1>1, <1>2, PTL DEF Spec

-----------------------------------------------------------------------------
(* As long as group numbers do not wrap.                                   *)

\* A report is of a group that has arrived, or of the first; maxRecvGrp is the last group
\* of which a packet has arrived.
SeenInv ==
  /\ \A m \in lqrs : m.grp = 0 \/ (m.grp <= Len(blocks) /\ Arrived(m.grp))
  /\ \A g \in DOMAIN rxBlocks : rxBlocks[g].cnt > 0 => hasRecv /\ g <= maxRecvGrp
  /\ maxRecvGrp <= Len(blocks)

AllInv == OrderInv /\ BlocksCounted /\ SeenInv

\* The numbers that the session works with are in the lower half.
InLowerHalf ==
  /\ Len(blocks) \in Nat /\ Len(blocks) < Half
  /\ nextWriteGrp \in Nat /\ nextWriteGrp <= Len(blocks)
  /\ \A p \in wire : p.grp \in Nat /\ p.grp < Len(blocks)

\* At most one group is used for each segment read.
LEMMA LowerHalf == MaxReads < Half /\ OrderInv => InLowerHalf
<1> SUFFICES ASSUME MaxReads < Half, OrderInv PROVE InLowerHalf
  OBVIOUS
<1>1. Len(blocks) \in Nat /\ nread \in 0 .. MaxReads
  BY DEF OrderInv, TypeInv, TypeOK, SenderTypeOK
<1>2. Len(blocks) \in 0 .. Len(blocks)
  BY <1>1
<1>3. EndOf(blocks, Len(blocks)) \in Nat
  <2>1. blocks \in Seq(Seq(Nat)) /\ \A c \in 1 .. Len(blocks) : Len(blocks[c]) >= 1
    BY DEF OrderInv, TypeInv, TypeOK, SenderTypeOK, Numbered
  <2> QED
    BY <1>2, <2>1, EndOfNat
<1>4. Len(blocks) <= EndOf(blocks, Len(blocks)) /\ EndOf(blocks, Len(blocks)) <= nread
  BY <1>2 DEF OrderInv, Numbered
<1>5. Len(blocks) < Half
  BY <1>1, <1>3, <1>4, TransferAssumption
<1>6. nextWriteGrp \in Nat /\ nextWriteGrp <= Len(blocks)
  BY TransferAssumption DEF OrderInv, InStep, TypeInv, TypeOK, ReceiverTypeOK, Groups, GroupSpace
<1>7. ASSUME NEW p \in wire PROVE p.grp \in Nat /\ p.grp < Len(blocks)
  <2>1. p \in Packets /\ p.blk = p.grp + 1 /\ p.blk <= Len(blocks)
    BY DEF OrderInv, TypeInv, TypeOK, ChannelTypeOK, Genuine, Sourced
  <2>2. p.grp \in Nat
    BY <2>1, TransferAssumption DEF Packets, Groups, GroupSpace
  <2> QED
    BY <1>1, <2>1, <2>2
<1> QED
  BY <1>1, <1>5, <1>6, <1>7 DEF InLowerHalf

\* In the lower half, After is >.
LEMMA AfterIsGreater ==
  ASSUME NEW a \in Nat, NEW b \in Nat, a < Half, b < Half
  PROVE  After(a, b) <=> a > b
  BY TransferAssumption DEF After, Diff, GroupSpace

\* In the lower half, the next group number is the next number.
LEMMA SuccIsNext ==
  ASSUME NEW a \in Nat, a + 1 < Half
  PROVE  Succ(a) = a + 1
  BY TransferAssumption DEF Succ, GroupSpace

\* What a packet does to maxRecvGrp.
Seen(p) == /\ hasRecv' = TRUE
           /\ maxRecvGrp' = IF ~hasRecv \/ After(p.grp, maxRecvGrp) THEN p.grp ELSE maxRecvGrp

\* Only a packet changes maxRecvGrp, and only a packet fills a slot.
LEMMA SeenSteps ==
  ASSUME [Next]_vars
  PROVE  \/ /\ UNCHANGED <<hasRecv, maxRecvGrp>>
            /\ Kept \/ Started \/ Dropped \/ \E g \in DOMAIN rxBlocks : Reported(g)
         \/ \E p \in wire : Seen(p) /\ (Kept \/ Stored(p))
<1>1. CASE \E p \in wire : HandleDataPacket(p)
  BY <1>1 DEF HandleDataPacket, Seen, Kept, Stored
<1>2. CASE ~\E p \in wire : HandleDataPacket(p)
  <2>1. Kept \/ Started \/ Dropped \/ \E g \in DOMAIN rxBlocks : Reported(g)
    BY <1>2, RxSteps
  <2>2. CASE UNCHANGED vars
    BY <2>1, <2>2 DEF vars, receiverVars
  <2>3. CASE \/ ReadTCP \/ FlushPendingBlock \/ ReadEOF \/ CloseAcked \/ CloseTimeout \/ CloseTick
             \/ \E s \in naks : HandleNak(s)
             \/ \E m \in lqrs : HandleLQR(m)
             \/ Lose
    <3>1. UNCHANGED <<hasRecv, maxRecvGrp>>
      BY <2>3, Zenon DEF ReadTCP, FlushPendingBlock, ReadEOF, CloseAcked, CloseTimeout, SendClose,
                         CloseTick, HandleNak, HandleLQR, Lose, receiverVars
    <3> QED
      BY <2>1, <3>1
  <2>4. CASE \/ HandleClose \/ WriterTake \/ WriteShard \/ WriteFails \/ WriterExit \/ WriterLeave
             \/ StartRecv \/ WriterCleanup
             \/ \E g \in Groups : HandleLQRTimeout(g) \/ SendNakPeriodic(g)
    <3>1. UNCHANGED <<hasRecv, maxRecvGrp>>
      BY <2>4, Zenon DEF HandleClose, WriterTake, WriteShard, WriteFails, WriterExit, WriterLeave,
                         SendNakPeriodic, HandleLQRTimeout, StartRecv, WriterCleanup
    <3> QED
      BY <2>1, <3>1
  <2> QED
    BY <1>2, <2>1, <2>2, <2>3, <2>4 DEF Next, DataPath, Ending, vars, receiverVars
<1> QED
  BY <1>1, <1>2

\* No flushed block is forgotten.
LEMMA BlocksGrow ==
  ASSUME TypeInv, [Next]_vars
  PROVE  Len(blocks) \in Nat /\ Len(blocks') \in Nat /\ Len(blocks) <= Len(blocks')
<1>1. blocks \in Seq(Seq(Nat)) /\ blocks' \in Seq(Seq(Nat))
  BY TypeStep DEF TypeInv, TypeOK, SenderTypeOK
<1>2. CASE blocks' = blocks
  BY <1>1, <1>2
<1>3. ASSUME NEW pd, FlushPendingBlockLocked(pd) PROVE Len(blocks') = Len(blocks) + 1
  BY <1>1, <1>3 DEF FlushPendingBlockLocked
<1>4. CASE ReadTCP \/ FlushPendingBlock \/ ReadEOF
  <2>1. NoFlush \/ \E pd : FlushPendingBlockLocked(pd)
    BY <1>4 DEF ReadTCP, FlushPendingBlock, ReadEOF
  <2>2. CASE NoFlush
    BY <1>2, <2>2 DEF NoFlush
  <2>3. CASE \E pd : FlushPendingBlockLocked(pd)
    BY <1>1, <1>3, <2>3
  <2> QED
    BY <2>1, <2>2, <2>3
<1>5. CASE CloseAcked \/ CloseTimeout \/ \E m \in lqrs : HandleLQR(m)
  BY <1>2, <1>5 DEF CloseAcked, CloseTimeout, SendClose, HandleLQR
<1>6. CASE UNCHANGED senderVars
  BY <1>2, <1>6 DEF senderVars
<1>7. CASE DataPath
  BY <1>4, <1>5, <1>6, <1>7
  DEF DataPath, HandleNak, StartRecv, HandleDataPacket, HandleLQRTimeout,
      SendNakPeriodic, WriterTake, WriteShard, WriterCleanup, Lose
<1>8. CASE Ending
  BY <1>4, <1>5, <1>6, <1>8
  DEF Ending, CloseTick, HandleClose, WriterExit, WriterLeave, WriteFails
<1> QED
  BY <1>6, <1>7, <1>8 DEF Next, vars

\* A group that has arrived stays so: its block is kept until it is written.
LEMMA ArrivedStays ==
  ASSUME MaxReads < Half, OrderInv, OrderInv', BlocksCounted, [Next]_vars,
         NEW g \in Groups, g <= Len(blocks), Arrived(g)
  PROVE  Arrived(g)'
<1>0. /\ Len(blocks) \in Nat /\ Len(blocks) < Half
      /\ nextWriteGrp \in Nat /\ nextWriteGrp <= Len(blocks)
      /\ g \in Nat /\ g < Half
  BY LowerHalf, TransferAssumption DEF Groups, GroupSpace, InLowerHalf
<1>1. /\ nextWriteGrp' \in Nat /\ nextWriteGrp' < Half
  <2>1. InLowerHalf'
    BY LowerHalf, PTL
  <2> QED
    BY <2>1, TransferAssumption DEF InLowerHalf
<1>2. nextWriteGrp < nextWriteGrp' => Dropped
  BY <1>0, RxSteps DEF Kept, Started, Stored, Reported
<1>3. nextWriteGrp <= nextWriteGrp' /\ (Dropped => nextWriteGrp < nextWriteGrp')
  <2>1. CASE Dropped
    <3>1. nextWriteGrp' = Succ(nextWriteGrp)
      BY <2>1 DEF Dropped
    <3>2. Succ(nextWriteGrp) = nextWriteGrp + 1
      BY <1>0, TransferAssumption DEF Succ, GroupSpace
    <3> QED
      BY <1>0, <3>1, <3>2
  <2>2. CASE ~Dropped
    BY <1>0, <2>2, RxSteps DEF Kept, Started, Stored, Reported
  <2> QED
    BY <2>1, <2>2
<1>4. CASE After(nextWriteGrp, g)
  <2>0. nextWriteGrp < Half
    BY <1>0, TransferAssumption
  <2>1. nextWriteGrp' > g
    BY <1>0, <1>1, <1>3, <1>4, <2>0, AfterIsGreater
  <2>2. After(nextWriteGrp', g)
    BY <1>0, <1>1, <2>1, AfterIsGreater
  <2> QED
    BY <2>2 DEF Arrived, After, Diff
<1>5. CASE g \in DOMAIN rxBlocks /\ rxBlocks[g].cnt > 0
  <2>1. CASE Dropped
    <3>1. CASE g = nextWriteGrp
      <4>1. nextWriteGrp' > g
        BY <1>0, <1>1, <1>3, <2>1, <3>1
      <4> QED
        BY <1>0, <1>1, <4>1, AfterIsGreater DEF Arrived
    <3>2. CASE g # nextWriteGrp
      BY <1>5, <2>1, <3>2 DEF Dropped, Arrived
    <3> QED
      BY <3>1, <3>2
  <2>2. CASE Kept
    BY <1>5, <2>2 DEF Kept, Arrived
  <2>3. CASE Started
    BY <1>5, <2>3 DEF Started
  <2>4. ASSUME NEW p \in wire, Stored(p) PROVE Arrived(g)'
    <3>1. g \in DOMAIN rxBlocks' /\ rxBlocks'[g] \in {rxBlocks[g], Received(p)}
      BY <1>5, <2>4 DEF Stored, WithBlock
    <3>2. Received(p).cnt > 0
      BY ReceivedCounted DEF OrderInv
    <3> QED
      BY <1>5, <3>1, <3>2 DEF Arrived
  <2>5. ASSUME NEW h \in DOMAIN rxBlocks, Reported(h) PROVE Arrived(g)'
    <3>1. rxBlocks[h] \in RxBlockType
      BY DEF OrderInv, TypeInv, TypeOK, ReceiverTypeOK
    <3>2. g \in DOMAIN rxBlocks' /\ rxBlocks'[g].cnt = rxBlocks[g].cnt
      BY <1>5, <2>5, <3>1 DEF Reported, RxBlockType
    <3> QED
      BY <1>5, <3>2 DEF Arrived
  <2> QED
    BY <2>1, <2>2, <2>3, <2>4, <2>5, RxSteps
<1> QED
  BY <1>4, <1>5 DEF Arrived

\* Every step keeps SeenInv.
LEMMA SeenStep ==
  ASSUME MaxReads < Half, AllInv, OrderInv', [Next]_vars
  PROVE  SeenInv'
<1>0. /\ OrderInv /\ BlocksCounted /\ SeenInv /\ TypeInv
      /\ DOMAIN rxBlocks \subseteq Groups /\ Groups \subseteq Nat
      /\ maxRecvGrp \in Nat /\ maxRecvGrp <= Len(blocks)
  <2>1. /\ OrderInv /\ BlocksCounted /\ SeenInv /\ TypeInv
        /\ maxRecvGrp <= Len(blocks)
    BY DEF AllInv, SeenInv, OrderInv
  <2>2. DOMAIN rxBlocks \subseteq Groups /\ maxRecvGrp \in Groups
    BY <2>1 DEF TypeInv, TypeOK, ReceiverTypeOK
  <2>3. Groups \subseteq Nat
    BY TransferAssumption DEF Groups, GroupSpace
  <2> QED
    BY <2>1, <2>2, <2>3
<1>1. /\ Len(blocks) \in Nat /\ Len(blocks') \in Nat /\ Len(blocks) <= Len(blocks')
      /\ Len(blocks) < Half
  <2>1. Len(blocks) < Half
    BY <1>0, LowerHalf, Zenon DEF InLowerHalf
  <2>2. TypeInv => Len(blocks) \in Nat /\ Len(blocks') \in Nat /\ Len(blocks) <= Len(blocks')
    BY BlocksGrow
  <2> QED
    BY <1>0, <2>1, <2>2
<1>2. ASSUME NEW m \in lqrs' PROVE m.grp = 0 \/ (m.grp <= Len(blocks') /\ Arrived(m.grp)')
  <2>1. ASSUME NEW g \in Groups, g <= Len(blocks), Arrived(g)
        PROVE  g <= Len(blocks') /\ Arrived(g)'
    BY <1>0, <1>1, <2>1, ArrivedStays
  <2>2. CASE m \in lqrs
    <3>1. m.grp \in Groups
      BY <1>0, <2>2 DEF TypeInv, TypeOK, ChannelTypeOK
    <3>2. m.grp = 0 \/ (m.grp <= Len(blocks) /\ Arrived(m.grp))
      BY <1>0, <2>2 DEF SeenInv
    <3> QED
      BY <2>1, <3>1, <3>2
  <2>3. ASSUME NEW g \in DOMAIN rxBlocks, m = ReportOf(g)
        PROVE  m.grp = 0 \/ (m.grp <= Len(blocks') /\ Arrived(m.grp)')
    <3>1. m.grp = g
      BY <2>3 DEF ReportOf
    <3>2. CASE g # 0
      <4>1. rxBlocks[g].cnt > 0 /\ g \in Groups
        BY <1>0, <3>2 DEF BlocksCounted
      <4>2. g <= maxRecvGrp /\ Arrived(g)
        BY <1>0, <4>1, Zenon DEF SeenInv, Arrived
      <4>3. g \in Nat /\ maxRecvGrp \in Nat /\ maxRecvGrp <= Len(blocks)
        BY <1>0, <4>1, Zenon
      <4>4. g <= Len(blocks)
        BY <1>1, <4>2, <4>3
      <4> QED
        BY <2>1, <3>1, <4>1, <4>2, <4>4
    <3> QED
      BY <3>1, <3>2
  <2>4. WriterCleanup => nextWriteGrp \in DOMAIN rxBlocks
    BY <1>0 DEF WriterCleanup, TypeInv, Sourced
  <2>5. \/ m \in lqrs
        \/ \E g \in DOMAIN rxBlocks : m = ReportOf(g)
    BY <1>0, <2>4, LqrSteps, Zenon
  <2> QED
    BY <2>2, <2>3, <2>5
<1>3. CASE /\ UNCHANGED <<hasRecv, maxRecvGrp>>
           /\ Kept \/ Started \/ Dropped \/ \E g \in DOMAIN rxBlocks : Reported(g)
  <2>1. ASSUME NEW g \in DOMAIN rxBlocks', rxBlocks'[g].cnt > 0
        PROVE  g \in DOMAIN rxBlocks /\ rxBlocks[g].cnt > 0
    <3>1. CASE Kept
      BY <2>1, <3>1 DEF Kept
    <3>2. CASE Started
      <4>1. DOMAIN rxBlocks' = {0} /\ rxBlocks'[0].cnt = 0
        BY <3>2 DEF Started, WithBlock, NewRxBlock
      <4> QED
        BY <2>1, <4>1
    <3>3. CASE Dropped
      BY <2>1, <3>3 DEF Dropped
    <3>4. ASSUME NEW h \in DOMAIN rxBlocks, Reported(h)
          PROVE  g \in DOMAIN rxBlocks /\ rxBlocks[g].cnt > 0
      <4>1. rxBlocks[h] \in RxBlockType
        BY <1>0 DEF TypeInv, TypeOK, ReceiverTypeOK
      <4>2. g \in DOMAIN rxBlocks /\ rxBlocks'[g].cnt = rxBlocks[g].cnt
        BY <2>1, <3>4, <4>1 DEF Reported, RxBlockType
      <4> QED
        BY <2>1, <4>2
    <3> QED
      BY <1>3, <3>1, <3>2, <3>3, <3>4
  <2>2. \A g \in DOMAIN rxBlocks' : rxBlocks'[g].cnt > 0 => hasRecv' /\ g <= maxRecvGrp'
    BY <1>0, <1>3, <2>1 DEF SeenInv
  <2>3. maxRecvGrp' <= Len(blocks')
    BY <1>0, <1>1, <1>3
  <2> QED
    BY <1>2, <2>2, <2>3, Zenon DEF SeenInv
<1>4. ASSUME NEW p \in wire, Seen(p), Kept \/ Stored(p)
      PROVE  SeenInv'
  <2>1. p.grp \in Nat /\ p.grp < Len(blocks)
    BY <1>0, LowerHalf DEF InLowerHalf
  <2>2. p.grp < Half /\ maxRecvGrp < Half
    BY <1>0, <1>1, <2>1, TransferAssumption
  <2>3. After(p.grp, maxRecvGrp) <=> p.grp > maxRecvGrp
    BY <1>0, <2>1, <2>2, AfterIsGreater
  <2>4. /\ hasRecv' /\ maxRecvGrp' \in Nat /\ p.grp <= maxRecvGrp'
        /\ hasRecv => maxRecvGrp <= maxRecvGrp'
    BY <1>0, <1>4, <2>1, <2>3 DEF Seen
  <2>5. maxRecvGrp' <= Len(blocks')
    BY <1>0, <1>1, <1>4, <2>1 DEF Seen
  <2>6. ASSUME NEW g \in DOMAIN rxBlocks', rxBlocks'[g].cnt > 0
        PROVE  g <= maxRecvGrp'
    <3>1. CASE g = p.grp
      BY <2>4, <3>1
    <3>2. CASE g # p.grp
      <4>1. g \in DOMAIN rxBlocks /\ rxBlocks[g].cnt > 0
        BY <1>4, <2>6, <3>2 DEF Kept, Stored, WithBlock
      <4>2. hasRecv /\ g <= maxRecvGrp /\ g \in Nat
        BY <1>0, <4>1 DEF SeenInv
      <4> QED
        BY <1>0, <2>4, <4>2
    <3> QED
      BY <3>1, <3>2
  <2> QED
    BY <1>2, <2>4, <2>5, <2>6, Zenon DEF SeenInv
<1> QED
  BY <1>3, <1>4, SeenSteps

\* AllInv is inductive.
LEMMA AllStep ==
  ASSUME MaxReads < Half
  PROVE  AllInv /\ [Next]_vars => AllInv'
  BY OrderStep, CountStep, SeenStep DEF AllInv, OrderInv

\* AllInv holds at first.
LEMMA AllInit == Init => AllInv
<1> SUFFICES ASSUME Init PROVE AllInv
  OBVIOUS
<1>1. SeenInv
  BY DEF Init, SeenInv
<1> QED
  BY <1>1, InitOrder, CountInit DEF AllInv

\* HandleLQR: a block counts as acknowledged only after a packet of it has arrived
\* (ReportedHasArrived), as long as group numbers do not wrap: no report is made of a
\* group that was not received, and what a report was made of stays or is written.
THEOREM AckedAfterArrival ==
  ASSUME MaxReads < Half
  PROVE  Spec => ReportedHasArrived
<1>1. Init => AllInv
  BY AllInit
<1>2. AllInv /\ [Next]_vars => AllInv'
  BY AllStep
<1>3. AllInv /\ [Next]_vars =>
        [nextGroupID' = nextGroupID => \A g \in txBlocks \ txBlocks' : g = 0 \/ Arrived(g)]_vars
  <2> SUFFICES ASSUME AllInv, [Next]_vars, nextGroupID' = nextGroupID,
                      NEW g \in txBlocks, g \notin txBlocks'
               PROVE  g = 0 \/ Arrived(g)
    OBVIOUS
  <2>1. ASSUME NEW pd PROVE ~FlushPendingBlockLocked(pd)
    <3>1. nextGroupID \in Groups
      BY DEF AllInv, OrderInv, TypeInv, TypeOK, SenderTypeOK
    <3>2. Succ(nextGroupID) # nextGroupID
      BY <3>1, TransferAssumption DEF Succ, Groups, GroupSpace
    <3> QED
      BY <3>2 DEF FlushPendingBlockLocked
  <2>2. \/ \E m \in lqrs : HandleLQR(m)
        \/ UNCHANGED txBlocks
    <3>1. CASE ReadTCP \/ FlushPendingBlock \/ ReadEOF
      BY <2>1, <3>1 DEF ReadTCP, FlushPendingBlock, ReadEOF, NoFlush
    <3>2. CASE CloseAcked \/ CloseTimeout
      BY <3>2 DEF CloseAcked, CloseTimeout, SendClose
    <3>3. CASE UNCHANGED senderVars
      BY <3>3 DEF senderVars
    <3>4. CASE DataPath
      BY <3>1, <3>3, <3>4
      DEF DataPath, HandleNak, StartRecv, HandleDataPacket, HandleLQRTimeout,
          SendNakPeriodic, WriterTake, WriteShard, WriterCleanup, Lose
    <3>5. CASE Ending
      BY <3>1, <3>2, <3>3, <3>5
      DEF Ending, CloseTick, HandleClose, WriterExit, WriterLeave, WriteFails
    <3> QED
      BY <3>3, <3>4, <3>5 DEF Next, vars
  <2>3. PICK m \in lqrs : HandleLQR(m)
    BY <2>2
  <2>4. g = m.grp
    BY <2>3 DEF HandleLQR
  <2> QED
    BY <2>4 DEF AllInv, SeenInv
<1> QED
  BY <1>1, <1>2, <1>3, PTL DEF Spec, ReportedHasArrived

\* writeTCPRun: when the writer decides to end on CLOSE, every block of which a packet was
\* received is written (SeenIsWritten), as long as group numbers do not wrap.
THEOREM EndsAfterWhatWasSeen ==
  ASSUME MaxReads < Half
  PROVE  Spec => SeenIsWritten
<1>1. Init => AllInv
  BY AllInit
<1>2. AllInv /\ [Next]_vars => AllInv'
  BY AllStep
<1>3. AllInv /\ [Next]_vars =>
        [wpc' = "leaving" /\ wpc # "leaving" =>
           \A g \in DOMAIN rxBlocks : rxBlocks[g].cnt = 0 \/ After(nextWriteGrp, g)]_vars
  <2> SUFFICES ASSUME AllInv, [Next]_vars, wpc' = "leaving", wpc # "leaving",
                      NEW g \in DOMAIN rxBlocks, rxBlocks[g].cnt # 0
               PROVE  After(nextWriteGrp, g)
    OBVIOUS
  <2>1. WriterExit
    <3>1. CASE \/ ReadTCP \/ FlushPendingBlock \/ ReadEOF \/ CloseAcked \/ CloseTimeout \/ CloseTick
               \/ \E s \in naks : HandleNak(s)
               \/ \E m \in lqrs : HandleLQR(m)
               \/ Lose
      BY <3>1, Zenon DEF ReadTCP, FlushPendingBlock, ReadEOF, CloseAcked, CloseTimeout, SendClose,
                         CloseTick, HandleNak, HandleLQR, Lose, receiverVars
    <3>2. CASE \/ HandleClose \/ WriterTake \/ WriteShard \/ WriteFails \/ WriterLeave
               \/ StartRecv \/ WriterCleanup
               \/ \E h \in Groups : HandleLQRTimeout(h) \/ SendNakPeriodic(h)
               \/ \E p \in wire : HandleDataPacket(p)
      BY <3>2 DEF HandleClose, WriterTake, WriteShard, WriteFails, WriterLeave, StartRecv,
                  WriterCleanup, HandleLQRTimeout, SendNakPeriodic, HandleDataPacket
    <3> QED
      BY <3>1, <3>2 DEF Next, DataPath, Ending, vars, receiverVars
  <2>2. rxBlocks[g].cnt > 0 /\ g \in Nat /\ maxRecvGrp \in Nat
    <3>1. rxBlocks[g] \in RxBlockType /\ g \in Groups /\ maxRecvGrp \in Groups
      BY DEF AllInv, OrderInv, TypeInv, TypeOK, ReceiverTypeOK
    <3> QED
      BY <3>1, TransferAssumption DEF RxBlockType, Groups, GroupSpace
  <2>3. hasRecv /\ g <= maxRecvGrp /\ maxRecvGrp <= Len(blocks)
    BY <2>2 DEF AllInv, SeenInv
  <2>4. Len(blocks) \in Nat /\ Len(blocks) < Half /\ nextWriteGrp \in Nat /\ nextWriteGrp <= Len(blocks)
    BY LowerHalf, Zenon DEF AllInv, InLowerHalf
  <2>5. nextWriteGrp < Half /\ maxRecvGrp < Half /\ g < Half
    BY <2>2, <2>3, <2>4, TransferAssumption
  <2>6. nextWriteGrp > maxRecvGrp
    BY <2>1, <2>2, <2>3, <2>4, <2>5, AfterIsGreater DEF WriterExit, AllSeenWritten
  <2>7. nextWriteGrp > g
    BY <2>2, <2>3, <2>4, <2>6
  <2> QED
    BY <2>2, <2>4, <2>5, <2>7, AfterIsGreater
<1> QED
  BY <1>1, <1>2, <1>3, PTL DEF Spec, SeenIsWritten

-----------------------------------------------------------------------------
(* Sequence numbers and the HARQ cache.                                    *)

\* Division with remainder.
LEMMA ModSplit ==
  ASSUME NEW S \in Nat \ {0}, NEW x \in Int
  PROVE  x % S \in 0 .. (S - 1) /\ \E q \in Int : x = q * S + (x % S)
<1>1. x % S \in 0 .. (S - 1)
  OBVIOUS
<1>2. x = (x \div S) * S + (x % S) /\ x \div S \in Int
  OBVIOUS
<1> QED
  BY <1>1, <1>2, Zenon

\* A multiple of S that is nearer to 0 than S is 0.
LEMMA SmallMultiple ==
  ASSUME NEW S \in Nat \ {0}, NEW d \in Int, d * S < S, -S < d * S
  PROVE  d = 0
<1>1. CASE d >= 1
  <2>1. (d - 1) * S >= 0
    BY <1>1
  <2> QED
    BY <2>1
<1>2. CASE d <= -1
  <2>1. (-d - 1) * S >= 0
    BY <1>2
  <2>2. (-d - 1) * S = -(d * S) - S
    OBVIOUS
  <2> QED
    BY <2>1, <2>2
<1> QED
  BY <1>1, <1>2

\* The remainder is unique.
LEMMA ModUnique ==
  ASSUME NEW S \in Nat \ {0}, NEW q \in Int, NEW r \in 0 .. (S - 1), NEW x \in Int,
         x = q * S + r
  PROVE  x % S = r
<1>1. PICK p \in Int : x = p * S + (x % S)
  BY ModSplit, Zenon
<1>2. x % S \in 0 .. (S - 1)
  BY ModSplit
<1>3. (p - q) * S = r - (x % S)
  BY <1>1, <1>2
<1>4. p - q = 0
  BY <1>2, <1>3, SmallMultiple
<1> QED
  BY <1>1, <1>2, <1>3, <1>4

\* The receiver's number of a shard, counted from the sender's next number, is the
\* distance between the two in data packets, up to turns of the sequence space.
LEMMA SeqOffset ==
  ASSUME NEW g \in Nat, NEW n \in Nat, NEW i \in DataIdx
  PROVE  /\ SeqNum(g, i) \in Seqs
         /\ \E q \in Int : SeqNum(g, i) - ((FEC_K * n) % SeqSpace)
                            = q * SeqSpace + (FEC_K * g + i - FEC_K * n)
<1> DEFINE S == SeqSpace
           a == (g * FEC_K) % S
           s == (a + i) % S
           m == (FEC_K * n) % S
<1>0. S \in Nat \ {0} /\ FEC_K \in Nat \ {0} /\ i \in Nat
  BY TransferAssumption DEF DataIdx
<1>1. g * FEC_K \in Int /\ FEC_K * n \in Int
  BY <1>0
<1>2. a \in 0 .. (S - 1) /\ \E q \in Int : g * FEC_K = q * S + a
  BY <1>0, <1>1, ModSplit, Zenon
<1>3. m \in 0 .. (S - 1) /\ \E q \in Int : FEC_K * n = q * S + m
  BY <1>0, <1>1, ModSplit, Zenon
<1>4. s \in 0 .. (S - 1) /\ \E q \in Int : a + i = q * S + s
  <2>1. a + i \in Int
    BY <1>0, <1>2
  <2> QED
    BY <1>0, <2>1, ModSplit, Zenon
<1>5. SeqNum(g, i) = s
  BY DEF SeqNum
<1> HIDE DEF S, a, s, m
<1>6. PICK q1 \in Int : g * FEC_K = q1 * S + a
  BY <1>2
<1>7. PICK q2 \in Int : a + i = q2 * S + s
  BY <1>4
<1>8. PICK q3 \in Int : FEC_K * n = q3 * S + m
  BY <1>3
<1>9. s - m = (q3 - q1 - q2) * S + (FEC_K * g + i - FEC_K * n)
  <2>1. /\ q1 * S \in Int /\ q2 * S \in Int /\ q3 * S \in Int
        /\ (q3 - q1 - q2) * S = q3 * S - q1 * S - q2 * S
        /\ g * FEC_K = FEC_K * g /\ FEC_K * g \in Int
    BY <1>0
  <2> QED
    BY <1>0, <1>1, <1>2, <1>3, <1>4, <1>6, <1>7, <1>8, <2>1
<1> QED
  BY <1>4, <1>5, <1>9 DEF Seqs, S, m

\* A block being cached goes where the receiver will ask for it.
LEMMA CacheHit ==
  ASSUME NEW n \in Nat, NEW i \in DataIdx
  PROVE  (SeqNum(n, i) - ((FEC_K * n) % SeqSpace)) % SeqSpace = i
<1> DEFINE x == SeqNum(n, i) - ((FEC_K * n) % SeqSpace)
<1>1. PICK q \in Int : x = q * SeqSpace + (FEC_K * n + i - FEC_K * n)
  BY SeqOffset
<1>2. SeqSpace \in Nat \ {0} /\ FEC_K * n \in Int /\ i \in 0 .. (SeqSpace - 1)
  BY TransferAssumption DEF DataIdx
<1> HIDE DEF x
<1>3. x = q * SeqSpace + i /\ x \in Int
  BY <1>1, <1>2
<1>4. x % SeqSpace = i
  BY <1>2, <1>3, ModUnique
<1> QED
  BY <1>4 DEF x

\* ... and does not overwrite a block that is near enough.
LEMMA CacheSpared ==
  ASSUME NEW n \in Nat, NEW b \in 1 .. n, NEW i \in DataIdx,
         FEC_K * (n - b + 2) <= SeqSpace
  PROVE  (SeqNum(b - 1, i) - ((FEC_K * n) % SeqSpace)) % SeqSpace >= FEC_K
<1> DEFINE x == SeqNum(b - 1, i) - ((FEC_K * n) % SeqSpace)
           w == FEC_K * (n - b + 1) - i
<1>0. /\ SeqSpace \in Nat \ {0} /\ FEC_K \in Nat \ {0} /\ i \in Nat /\ i < FEC_K
      /\ n - b + 1 \in Nat \ {0} /\ b - 1 \in Nat
  BY TransferAssumption DEF DataIdx
<1>1. PICK q \in Int : x = q * SeqSpace + (FEC_K * (b - 1) + i - FEC_K * n)
  BY <1>0, SeqOffset, Zenon
<1>2. /\ FEC_K * (n - b + 1) \in Nat /\ FEC_K <= FEC_K * (n - b + 1)
      /\ FEC_K * (n - b + 2) = FEC_K * (n - b + 1) + FEC_K
      /\ FEC_K * (b - 1) - FEC_K * n = -(FEC_K * (n - b + 1))
      /\ FEC_K * (b - 1) \in Int /\ FEC_K * n \in Int
  <2> DEFINE d == n - b + 1
  <2>1. d \in Nat \ {0} /\ n - b + 2 = d + 1 /\ b - 1 = n - d
    BY <1>0
  <2> HIDE DEF d
  <2>2. FEC_K * d \in Nat /\ FEC_K <= FEC_K * d /\ FEC_K * (d + 1) = FEC_K * d + FEC_K
    BY <1>0, <2>1
  <2>3. FEC_K * (n - d) = FEC_K * n - FEC_K * d /\ FEC_K * n \in Int
    BY <1>0, <2>1
  <2> QED
    BY <2>1, <2>2, <2>3 DEF d
<1>3. w \in 1 .. (SeqSpace - FEC_K)
  BY <1>0, <1>2
<1>4. x = q * SeqSpace - w
  <2>1. q * SeqSpace \in Int
    BY <1>0
  <2>2. FEC_K * (b - 1) + i - FEC_K * n = -w
    BY <1>0, <1>2
  <2> QED
    BY <1>0, <1>1, <1>3, <2>1, <2>2
<1> HIDE DEF x, w
<1>5. x = (q - 1) * SeqSpace + (SeqSpace - w) /\ x \in Int /\ q - 1 \in Int
  <2>1. q * SeqSpace \in Int /\ (q - 1) * SeqSpace = q * SeqSpace - SeqSpace
    BY <1>0
  <2> QED
    BY <1>0, <1>3, <1>4, <2>1
<1>6. SeqSpace - w \in 0 .. (SeqSpace - 1) /\ SeqSpace - w >= FEC_K
  BY <1>0, <1>3
<1> DEFINE p == q - 1
           r == SeqSpace - w
<1>7. x = p * SeqSpace + r /\ x \in Int /\ p \in Int /\ r \in 0 .. (SeqSpace - 1)
  BY <1>5, <1>6
<1> HIDE DEF p, r
<1>8. x % SeqSpace = r
  BY <1>0, <1>7, ModUnique
<1> QED
  BY <1>6, <1>8 DEF x, r

\* The cache holds the last blocks that fit in the sequence space, each shard under the
\* number that the receiver computes for it.
CacheInv ==
  /\ nextSeqNum = (FEC_K * Len(blocks)) % SeqSpace
  /\ \A b \in 1 .. Len(blocks) :
       FEC_K * (Len(blocks) - b + 1) <= SeqSpace =>
         \A i \in DataIdx : harqCache[SeqNum(b - 1, i)] = Packet(b - 1, i, b)

\* Flushing a block keeps CacheInv.
LEMMA FlushCache ==
  ASSUME OrderInv, CacheInv, NEW pd, FlushPendingBlockLocked(pd)
  PROVE  CacheInv'
<1> DEFINE n == Len(blocks)
<1>0. /\ blocks \in Seq(Seq(Nat)) /\ n \in Nat /\ nextGroupID = n
      /\ nextSeqNum = (FEC_K * n) % SeqSpace
  BY DEF OrderInv, TypeInv, TypeOK, SenderTypeOK, Numbered, CacheInv
<1>1. Len(blocks') = n + 1
  BY <1>0 DEF FlushPendingBlockLocked
<1>2. nextSeqNum' = (FEC_K * (n + 1)) % SeqSpace
  <2> DEFINE m == (FEC_K * n) % SeqSpace
             r == (FEC_K * (n + 1)) % SeqSpace
  <2>1. SeqSpace \in Nat \ {0} /\ FEC_K \in Nat
        /\ FEC_K * n \in Int /\ FEC_K * (n + 1) = FEC_K * n + FEC_K
    BY <1>0, TransferAssumption
  <2>2. nextSeqNum' = (m + FEC_K) % SeqSpace
    BY <1>0 DEF FlushPendingBlockLocked
  <2>3. m \in 0 .. (SeqSpace - 1) /\ \E q \in Int : FEC_K * n = q * SeqSpace + m
    BY <2>1, ModSplit, Zenon
  <2>4. FEC_K * (n + 1) \in Int
    BY <2>1
  <2>5. r \in 0 .. (SeqSpace - 1) /\ \E q \in Int : FEC_K * (n + 1) = q * SeqSpace + r
    BY <2>1, <2>4, ModSplit, Zenon
  <2> HIDE DEF m, r, n
  <2>6. PICK q1 \in Int : FEC_K * n = q1 * SeqSpace + m
    BY <2>3
  <2>7. PICK q2 \in Int : FEC_K * (n + 1) = q2 * SeqSpace + r
    BY <2>5
  <2>8. m + FEC_K = (q2 - q1) * SeqSpace + r /\ m + FEC_K \in Int /\ q2 - q1 \in Int
    <3>1. /\ q1 * SeqSpace \in Int /\ q2 * SeqSpace \in Int
          /\ (q2 - q1) * SeqSpace = q2 * SeqSpace - q1 * SeqSpace
      BY <2>1
    <3> QED
      BY <2>1, <2>3, <2>5, <2>6, <2>7, <3>1
  <2>9. (m + FEC_K) % SeqSpace = r
    <3> DEFINE x == m + FEC_K
               p == q2 - q1
    <3>1. x = p * SeqSpace + r /\ x \in Int /\ p \in Int
      BY <2>8
    <3> HIDE DEF x, p
    <3>2. x % SeqSpace = r
      BY <2>1, <2>5, <3>1, ModUnique
    <3> QED
      BY <3>2 DEF x
  <2> QED
    BY <2>2, <2>9 DEF r
<1>3. ASSUME NEW b \in 1 .. (n + 1), FEC_K * (n + 1 - b + 1) <= SeqSpace, NEW i \in DataIdx
      PROVE  harqCache'[SeqNum(b - 1, i)] = Packet(b - 1, i, b)
  <2> DEFINE s == SeqNum(b - 1, i)
             k == (s - nextSeqNum) % SeqSpace
  <2>1. s \in Seqs
    BY <1>0, SeqOffset
  <2>2. harqCache'[s] = IF k < FEC_K THEN Packet(n, k, n + 1) ELSE harqCache[s]
    BY <1>0, <2>1, Zenon DEF FlushPendingBlockLocked, CachedData
  <2>3. CASE b = n + 1
    <3>1. b - 1 = n
      BY <1>0, <2>3
    <3>2. k = i
      BY <1>0, <3>1, CacheHit
    <3>3. i < FEC_K
      BY TransferAssumption DEF DataIdx
    <3> QED
      BY <2>2, <2>3, <3>1, <3>2, <3>3
  <2>4. CASE b # n + 1
    <3>1. b \in 1 .. n /\ n + 1 - b + 1 = n - b + 2
      BY <1>0, <2>4
    <3>2. k >= FEC_K
      BY <1>0, <1>3, <3>1, CacheSpared
    <3>3. FEC_K * (n - b + 1) <= SeqSpace
      <4> DEFINE d == n - b + 1
      <4>1. d \in Nat /\ n + 1 - b + 1 = d + 1
        BY <1>0, <3>1
      <4> HIDE DEF d
      <4>2. FEC_K * (d + 1) = FEC_K * d + FEC_K /\ FEC_K * d \in Nat /\ FEC_K \in Nat
        BY <4>1, TransferAssumption
      <4>3. FEC_K * (d + 1) <= SeqSpace
        BY <1>3, <4>1
      <4>4. FEC_K * d <= SeqSpace
        BY <4>2, <4>3, TransferAssumption
      <4> QED
        BY <4>4 DEF d
    <3>4. k \in Int
      BY <1>0, <2>1, SeqOffset, TransferAssumption DEF Seqs
    <3>5. harqCache'[s] = harqCache[s]
      BY <2>2, <3>2, <3>4, TransferAssumption
    <3> QED
      BY <3>1, <3>3, <3>5 DEF CacheInv
  <2> QED
    BY <2>3, <2>4
<1> QED
  BY <1>1, <1>2, <1>3 DEF CacheInv

\* Only flushing a block changes the cache.
LEMMA CacheStep ==
  ASSUME OrderInv, CacheInv, [Next]_vars
  PROVE  CacheInv'
<1>1. CASE \E pd : FlushPendingBlockLocked(pd)
  BY <1>1, FlushCache
<1>2. CASE UNCHANGED <<blocks, nextSeqNum, harqCache>>
  BY <1>2 DEF CacheInv
<1>3. CASE ReadTCP \/ FlushPendingBlock \/ ReadEOF
  BY <1>1, <1>2, <1>3 DEF ReadTCP, FlushPendingBlock, ReadEOF, NoFlush
<1>4. CASE CloseAcked \/ CloseTimeout \/ \E m \in lqrs : HandleLQR(m)
  BY <1>2, <1>4 DEF CloseAcked, CloseTimeout, SendClose, HandleLQR
<1>5. CASE UNCHANGED senderVars
  BY <1>2, <1>5 DEF senderVars
<1>6. CASE DataPath
  BY <1>3, <1>4, <1>5, <1>6
  DEF DataPath, HandleNak, StartRecv, HandleDataPacket, HandleLQRTimeout,
      SendNakPeriodic, WriterTake, WriteShard, WriterCleanup, Lose
<1>7. CASE Ending
  BY <1>3, <1>4, <1>5, <1>7
  DEF Ending, CloseTick, HandleClose, WriterExit, WriterLeave, WriteFails
<1> QED
  BY <1>5, <1>6, <1>7 DEF Next, vars

\* flushPendingBlockLocked, sendNakPeriodic, HandleNak: as long as the data packets of the
\* blocks that the receiver has not written fit in the sequence space, every NAK for a
\* missing shard finds that very shard in the cache (NakFindsShard): the receiver's
\* reckoning of the number agrees with the sender's, across any number of wraps of the
\* sequence number.
THEOREM NakIsAnswered ==
  ASSUME MaxReads < Half
  PROVE  Spec => [](FEC_K * (Len(blocks) - nextWriteGrp) <= SeqSpace => NakFindsShard)
<1>1. Init => OrderInv /\ CacheInv
  <2> SUFFICES ASSUME Init PROVE OrderInv /\ CacheInv
    OBVIOUS
  <2>1. nextSeqNum = 0 /\ Len(blocks) = 0
    BY DEF Init
  <2>2. (FEC_K * 0) % SeqSpace = 0
    BY TransferAssumption
  <2> QED
    BY <2>1, <2>2, InitOrder DEF CacheInv
<1>2. OrderInv /\ CacheInv /\ [Next]_vars => OrderInv' /\ CacheInv'
  BY OrderStep, CacheStep
<1>3. OrderInv /\ CacheInv =>
        (FEC_K * (Len(blocks) - nextWriteGrp) <= SeqSpace => NakFindsShard)
  <2> SUFFICES ASSUME OrderInv, CacheInv, FEC_K * (Len(blocks) - nextWriteGrp) <= SeqSpace,
                      NEW b \in 1 .. Len(blocks), NEW i \in DataIdx,
                      ~After(nextWriteGrp, (b - 1) % GroupSpace)
               PROVE  harqCache[SeqNum((b - 1) % GroupSpace, i)]
                        = Packet((b - 1) % GroupSpace, i, b)
    BY Zenon DEF NakFindsShard
  <2> DEFINE n == Len(blocks)
  <2>1. n \in Nat /\ n < Half /\ nextWriteGrp \in Nat /\ nextWriteGrp <= n
    BY LowerHalf, Zenon DEF InLowerHalf
  <2>2. (b - 1) % GroupSpace = b - 1
    <3>1. GroupSpace \in Nat \ {0} /\ b - 1 \in 0 .. (GroupSpace - 1) /\ b - 1 \in Int
      BY <2>1, TransferAssumption DEF GroupSpace
    <3>2. b - 1 = 0 * GroupSpace + (b - 1)
      BY <3>1
    <3> QED
      BY <3>1, <3>2, ModUnique
  <2>3. nextWriteGrp <= b - 1
    <3>1. b - 1 \in Nat /\ b - 1 < Half /\ nextWriteGrp < Half
      BY <2>1, TransferAssumption
    <3>2. ~(nextWriteGrp > b - 1)
      BY <2>1, <2>2, <3>1, AfterIsGreater
    <3> QED
      BY <2>1, <3>1, <3>2
  <2>4. FEC_K * (n - b + 1) <= SeqSpace
    <3> DEFINE d == n - b + 1
               e == n - nextWriteGrp
    <3>1. d \in Nat /\ e \in Nat /\ d <= e /\ FEC_K * e <= SeqSpace
      BY <2>1, <2>3
    <3> HIDE DEF d, e
    <3>2. FEC_K * d <= FEC_K * e /\ FEC_K * d \in Nat /\ FEC_K * e \in Nat
      BY <3>1, TransferAssumption
    <3>3. FEC_K * d <= SeqSpace
      BY <3>1, <3>2, TransferAssumption
    <3> QED
      BY <3>3 DEF d
  <2> QED
    BY <2>2, <2>4, Zenon DEF CacheInv
<1> QED
  BY <1>1, <1>2, <1>3, PTL DEF Spec
=============================================================================
