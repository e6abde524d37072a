---------------------------- MODULE PacingProofs ----------------------------
(***************************************************************************)
(* The shaper is a queue, it does not overrun the link, CLOSE comes after  *)
(* the data, and backpressure bounds the queue, for every block size,      *)
(* limit and link.                                                         *)
(***************************************************************************)
EXTENDS Pacing, SequenceTheorems, FiniteSetTheorems, TLAPS

Packets == [num : Nat, grp : Nat]

ShaperType ==
  /\ queue \in Seq(Packets) /\ pkts \in Seq(Packets) /\ sent \in Seq(Nat) /\ accepted \in Nat
  /\ spc \in {"top", "waiting", "all", "sleep", "fetch", "send", "done"}
  /\ spc # "send" => pkts = <<>>
  /\ burstSize \in Nat /\ size \in Nat

SenderType == curM \in 0 .. FEC_M /\ blocks \in Nat /\ txBlocks \subseteq Nat \ {0}

\* Steps that put packets into the queue, and steps that leave queue and burst alone.
Puts  == \E n \in Nat \ {0}, g \in Nat : EnqueueMany(n, g)
Woken == spc' = spc \/ (spc = "waiting" /\ spc' = "top")

-----------------------------------------------------------------------------
\* What EnqueueMany does to the queue.
LEMMA EnqueueEffect ==
  ASSUME queue \in Seq(Packets), accepted \in Nat, NEW n \in Nat, NEW g \in Nat,
         EnqueueMany(n, g), ~stopped
  PROVE  /\ queue' \in Seq(Packets)
         /\ Len(queue') = Len(queue) + n
         /\ accepted' = accepted + n
         /\ \A j \in 1 .. Len(queue) : queue'[j] = queue[j]
         /\ \A j \in 1 .. n : queue'[Len(queue) + j] = [num |-> accepted + j, grp |-> g]
<1>p. PICK new : new = [j \in 1 .. n |-> [num |-> accepted + j, grp |-> g]]
  BY Zenon
<1>1. queue' = queue \o new /\ accepted' = accepted + n
  BY <1>p DEF EnqueueMany
<1>2. new \in Seq(Packets) /\ Len(new) = n
  BY <1>p DEF Packets
<1>3. \A j \in 1 .. n : new[j] = [num |-> accepted + j, grp |-> g]
  BY <1>p
<1>4. queue' \in Seq(Packets) /\ Len(queue') = Len(queue) + n
  BY <1>1, <1>2, ConcatProperties, Zenon
<1>5. \A j \in 1 .. Len(queue) : queue'[j] = queue[j]
  BY <1>1, <1>2
<1>6. \A j \in 1 .. n : queue'[Len(queue) + j] = new[j]
  BY <1>1, <1>2
<1> QED
  BY <1>1, <1>3, <1>4, <1>5, <1>6

\* Every step of the Session puts packets, is a step of Run, or leaves both alone.
LEMMA StepKinds ==
  ASSUME accepted \in Nat, SenderType, [Next]_vars
  PROVE  \/ Puts /\ UNCHANGED <<pkts, sent>>
         \/ RunStep /\ UNCHANGED senderVars
         \/ Woken /\ UNCHANGED <<queue, accepted, pkts, sent>>
<1>1. ASSUME Flush PROVE Puts
  <2>1. FEC_K + curM \in Nat \ {0} /\ accepted + 1 \in Nat
    BY PacingAssumption DEF SenderType
  <2> QED
    BY <1>1, <2>1 DEF Flush, Puts
<1>2. ASSUME NoFlush PROVE Woken /\ UNCHANGED <<queue, accepted>>
  BY <1>2 DEF NoFlush, Woken, queueVars
<1>3. CASE ReadTCP
  BY <1>1, <1>2, <1>3 DEF ReadTCP
<1>4. CASE ReadEOF
  BY <1>1, <1>2, <1>4 DEF ReadEOF, FlushIf
<1>5. CASE FlushPendingBlock
  BY <1>1, <1>2, <1>5 DEF FlushPendingBlock, FlushIf
<1>6. CASE HandleNak
  BY <1>6 DEF HandleNak, Puts
<1>7. CASE Run
  BY <1>7 DEF Run
<1>8. CASE Tick
  BY <1>8 DEF Tick, Elapse, Woken, queueVars
<1>9. CASE Reader \/ CloseRest \/ UNCHANGED vars
  BY <1>9 DEF Reader, CheckQueue, DrainDone, SendClose, ReaderAborts, CloseRest, Woken, vars,
              shaperVars, queueVars, runVars
<1>10. CASE ReadFails \/ CloseCancel \/ \E g \in txBlocks : HandleLQR(g)
  BY <1>10 DEF ReadFails, CloseCancel, HandleLQR, Woken, queueVars, runVars
<1>11. CASE CloseStop
  BY <1>11 DEF CloseStop, Stop, Signal, Woken, queueVars
<1> QED
  BY <1>3, <1>4, <1>5, <1>6, <1>7, <1>8, <1>9, <1>10, <1>11 DEF Next, Closer

\* What RunFetch does: it cuts the queue in two.
LEMMA FetchEffect ==
  ASSUME ShaperType, RunFetch
  PROVE  /\ pkts' \in Seq(Packets) /\ queue' \in Seq(Packets)
         /\ Len(pkts') <= size /\ Len(pkts') + Len(queue') = Len(queue)
         /\ \A j \in 1 .. Len(pkts') : pkts'[j] = queue[j]
         /\ \A j \in 1 .. Len(queue') : queue'[j] = queue[Len(pkts') + j]
<1>n. PICK n : n = IF Len(queue) > size THEN size ELSE Len(queue)
  OBVIOUS
<1>1. n \in 0 .. Len(queue) /\ n <= size
  BY <1>n DEF ShaperType
<1>2. pkts' = SubSeq(queue, 1, n) /\ queue' = SubSeq(queue, n + 1, Len(queue))
  BY <1>n DEF RunFetch, Rest
<1>3. /\ pkts' \in Seq(Packets) /\ Len(pkts') = n
      /\ \A j \in 1 .. n : pkts'[j] = queue[j]
  BY <1>1, <1>2, SubSeqProperties DEF ShaperType
<1>4. /\ queue' \in Seq(Packets) /\ Len(queue') = Len(queue) - n
      /\ \A j \in 1 .. Len(queue) - n : queue'[j] = queue[n + j]
  BY <1>1, <1>2, SubSeqProperties DEF ShaperType
<1>5. Len(queue) \in Nat /\ size \in Nat
  BY DEF ShaperType
<1>6. Len(pkts') <= size /\ Len(pkts') + Len(queue') = Len(queue)
  BY <1>1, <1>3, <1>4, <1>5
<1>7. \A j \in 1 .. Len(queue') : queue'[j] = queue[Len(pkts') + j]
  BY <1>3, <1>4
<1> QED
  BY <1>3, <1>4, <1>6, <1>7

\* The types are kept.
LEMMA RunTypes ==
  ASSUME ShaperType, RunStep
  PROVE  ShaperType'
<1>1. CASE RunTop
  BY <1>1 DEF RunTop, ShaperType, queueVars, paramVars
<1>2. CASE RunAll
  BY <1>2 DEF RunAll, ShaperType, paramVars
<1>3. CASE RunAbort
  BY <1>3 DEF RunAbort, ShaperType, queueVars, paramVars
<1>4. CASE RunFetch
  BY <1>4, FetchEffect, Zenon DEF RunFetch, ShaperType, paramVars
<1>5. CASE RunSend
  <2>1. CASE pkts = <<>> \/ cancelled
    <3>1. pkts' = <<>> /\ pkts' \in Seq(Packets) /\ size' = 0 /\ spc' \in {"top", "done"}
      BY <1>5, <2>1, EmptySeq, Zenon DEF RunSend
    <3> QED
      BY <1>5, <2>1, <3>1 DEF RunSend, ShaperType, queueVars, paramVars
  <2>2. CASE ~(pkts = <<>> \/ cancelled)
    <3>1. Head(pkts) \in Packets /\ Tail(pkts) \in Seq(Packets)
      BY <2>2, HeadTailProperties DEF ShaperType
    <3>2. sent' \in Seq(Nat)
      <4>1. Head(pkts).num \in Nat /\ sent \in Seq(Nat)
        BY <3>1 DEF ShaperType, Packets
      <4>2. sent' = Append(sent, Head(pkts).num)
        BY <1>5, <2>2 DEF RunSend
      <4> QED
        BY <4>1, <4>2, AppendProperties
    <3> QED
      BY <1>5, <2>2, <3>1, <3>2, Zenon DEF RunSend, ShaperType, queueVars, paramVars
  <2> QED
    BY <2>1, <2>2
<1> QED
  BY <1>1, <1>2, <1>3, <1>4, <1>5 DEF RunStep

\* A step that puts packets, or leaves queue and burst alone, keeps the types of both.
LEMMA OtherTypes ==
  ASSUME ShaperType, burstSize' \in Nat, size' = size,
         \/ Puts /\ UNCHANGED <<pkts, sent>>
         \/ Woken /\ UNCHANGED <<queue, accepted, pkts, sent>>
  PROVE  ShaperType'
<1>1. CASE Woken /\ UNCHANGED <<queue, accepted, pkts, sent>>
  BY <1>1 DEF Woken, ShaperType
<1>2. CASE Puts /\ UNCHANGED <<pkts, sent>>
  <2>1. PICK n \in Nat \ {0}, g \in Nat : EnqueueMany(n, g)
    BY <1>2 DEF Puts
  <2>2. CASE stopped
    BY <1>2, <2>1, <2>2 DEF EnqueueMany, queueVars, ShaperType
  <2>3. CASE ~stopped
    <3>1. queue' \in Seq(Packets) /\ accepted' \in Nat
      <4>1. queue \in Seq(Packets) /\ accepted \in Nat /\ n \in Nat
        BY DEF ShaperType
      <4>2. queue' \in Seq(Packets) /\ accepted' = accepted + n
        BY <2>1, <2>3, <4>1, EnqueueEffect
      <4> QED
        BY <4>1, <4>2
    <3> QED
      BY <1>2, <2>1, <2>3, <3>1 DEF EnqueueMany, Signal, ShaperType
  <2> QED
    BY <2>2, <2>3
<1> QED
  BY <1>1, <1>2

\* curM and the burst size stay in range, and only Run changes what it has read.
LEMMA SenderTypes ==
  ASSUME SenderType, accepted \in Nat, burstSize \in Nat, [Next]_vars
  PROVE  SenderType' /\ burstSize' \in Nat /\ (RunStep \/ size' = size)
<1>1. ASSUME Flush \/ NoFlush PROVE blocks' \in Nat /\ txBlocks' \subseteq Nat \ {0}
  <2>1. blocks + 1 \in Nat /\ accepted + 1 \in Nat \ {0} /\ blocks \in Nat /\ txBlocks \subseteq Nat \ {0}
    BY DEF SenderType
  <2>2. CASE Flush
    BY <2>1, <2>2 DEF Flush
  <2>3. CASE NoFlush
    BY <2>1, <2>3 DEF NoFlush
  <2> QED
    BY <1>1, <2>2, <2>3
<1>2. CASE ReadTCP
  BY <1>1, <1>2 DEF ReadTCP, SenderType, paramVars
<1>3. CASE ReadEOF
  BY <1>1, <1>3 DEF ReadEOF, FlushIf, SenderType, paramVars
<1>4. CASE FlushPendingBlock
  BY <1>1, <1>4 DEF FlushPendingBlock, FlushIf, SenderType, paramVars
<1>5. CASE HandleNak
  BY <1>5 DEF HandleNak, SenderType, paramVars
<1>6. CASE \E g \in txBlocks : HandleLQR(g)
  BY <1>6, PacingAssumption
     DEF HandleLQR, UpdateShaperParams, UpdateParams, SenderType, paramVars, runVars
<1>7. CASE Run
  BY <1>7 DEF Run, RunStep, RunTop, RunAll, RunAbort, RunFetch, RunSend, paramVars, senderVars,
              SenderType
<1>8. CASE Tick
  BY <1>8 DEF Tick, Elapse, paramVars, SenderType
<1>9. CASE Reader \/ CloseRest \/ UNCHANGED vars
  BY <1>9, Zenon DEF Reader, CheckQueue, DrainDone, SendClose, ReaderAborts, CloseRest, vars,
              shaperVars, paramVars, runVars, senderVars, SenderType
<1>10. CASE ReadFails \/ CloseCancel \/ CloseStop
  BY <1>10, Zenon DEF ReadFails, CloseCancel, CloseStop, paramVars, runVars, SenderType
<1> QED
  BY <1>2, <1>3, <1>4, <1>5, <1>6, <1>7, <1>8, <1>9, <1>10 DEF Next, Closer

\* Types hold initially and are kept.
LEMMA TypesInit == Init => ShaperType /\ SenderType
  BY PacingAssumption, EmptySeq DEF Init, NewShaper, ShaperType, SenderType

LEMMA TypesStep ==
  ASSUME ShaperType, SenderType, [Next]_vars
  PROVE  ShaperType' /\ SenderType'
<1>1. SenderType' /\ burstSize' \in Nat /\ (RunStep \/ size' = size)
  BY SenderTypes DEF ShaperType
<1>2. CASE RunStep
  BY <1>1, <1>2, RunTypes
<1>3. CASE ~RunStep
  BY <1>1, <1>3, StepKinds, OtherTypes DEF ShaperType
<1> QED
  BY <1>2, <1>3

-----------------------------------------------------------------------------
(* The shaper implements Fifo.                                             *)

\* Packets are numbered without gaps: first the sent ones, then the burst, then the queue.
FifoInv ==
  /\ Len(queue) <= accepted
  /\ \A j \in 1 .. Len(queue) : queue[j].num = accepted - Len(queue) + j
  /\ \A j \in 1 .. Len(pkts) : pkts[j].num = Len(sent) + j
  /\ spc # "done" => Len(sent) + Len(pkts) + Len(queue) = accepted

\* Putting packets is a step of Fifo.
LEMMA FifoPut ==
  ASSUME ShaperType, FifoInv, Puts, UNCHANGED <<pkts, sent>>
  PROVE  FifoInv' /\ (Queue!Next \/ UNCHANGED Queue!vars)
<1>1. PICK n \in Nat \ {0}, g \in Nat : EnqueueMany(n, g)
  BY DEF Puts
<1>2. CASE stopped
  BY <1>1, <1>2 DEF EnqueueMany, queueVars, FifoInv, Queue!vars
<1>3. CASE ~stopped
  <2>1. queue \in Seq(Packets) /\ accepted \in Nat /\ n \in Nat /\ Len(queue) \in Nat
    BY DEF ShaperType
  <2>2. /\ Len(queue') = Len(queue) + n
        /\ accepted' = accepted + n
        /\ \A j \in 1 .. Len(queue) : queue'[j] = queue[j]
        /\ \A j \in 1 .. n : queue'[Len(queue) + j] = [num |-> accepted + j, grp |-> g]
    BY <1>1, <1>3, <2>1, EnqueueEffect, Zenon
  <2>3. ASSUME NEW j \in 1 .. Len(queue') PROVE queue'[j].num = accepted' - Len(queue') + j
    <3>1. CASE j <= Len(queue)
      BY <2>1, <2>2, <3>1 DEF FifoInv
    <3>2. CASE j > Len(queue)
      <4>1. j - Len(queue) \in 1 .. n /\ j = Len(queue) + (j - Len(queue))
        BY <2>1, <2>2, <3>2
      <4>2. queue'[j] = [num |-> accepted + (j - Len(queue)), grp |-> g]
        BY <2>2, <4>1, Zenon
      <4> QED
        BY <2>1, <2>2, <4>2
    <3> QED
      BY <2>1, <3>1, <3>2
  <2>4. spc' # "done" => spc # "done"
    BY <1>1, <1>3 DEF EnqueueMany, Signal
  <2>5. FifoInv'
    <3>1. Len(pkts) \in Nat /\ Len(sent) \in Nat /\ pkts' = pkts /\ sent' = sent
      BY DEF ShaperType
    <3>2. Len(queue') <= accepted'
      BY <2>1, <2>2 DEF FifoInv
    <3>3. spc' # "done" => Len(sent') + Len(pkts') + Len(queue') = accepted'
      <4>1. spc # "done" => Len(sent) + Len(pkts) + Len(queue) = accepted
        BY DEF FifoInv
      <4>2. Len(sent') = Len(sent) /\ Len(pkts') = Len(pkts)
        BY <3>1
      <4> QED
        BY <2>1, <2>2, <2>4, <3>1, <4>1, <4>2
    <3>4. \A j \in 1 .. Len(pkts') : pkts'[j].num = Len(sent') + j
      BY <3>1, Zenon DEF FifoInv
    <3> QED
      BY <2>3, <3>2, <3>3, <3>4, Zenon DEF FifoInv
  <2>6. Queue!Put
    BY <2>1, <2>2 DEF Queue!Put
  <2> QED
    BY <2>5, <2>6 DEF Queue!Next
<1> QED
  BY <1>2, <1>3

\* A step of Run sends the next packet, or is invisible.
LEMMA FifoRun ==
  ASSUME ShaperType, FifoInv, RunStep
  PROVE  FifoInv' /\ (Queue!Next \/ UNCHANGED Queue!vars)
<1>0. Len(queue) \in Nat /\ Len(pkts) \in Nat /\ Len(sent) \in Nat /\ accepted \in Nat
  BY DEF ShaperType
<1>1. CASE RunTop \/ RunAbort
  BY <1>1, Zenon DEF RunTop, RunAbort, queueVars, FifoInv, Queue!vars
<1>2. CASE RunAll
  <2>1. pkts = <<>> /\ spc # "done" /\ pkts' = queue /\ queue' = <<>> /\ UNCHANGED <<accepted, sent>>
    BY <1>2 DEF RunAll, ShaperType
  <2>2. Len(pkts) = 0 /\ Len(queue') = 0
    BY <2>1
  <2>3. Len(sent) + Len(queue) = accepted
    BY <1>0, <2>1, <2>2 DEF FifoInv
  <2>4. ASSUME NEW j \in 1 .. Len(pkts') PROVE pkts'[j].num = Len(sent') + j
    <3>1. j \in 1 .. Len(queue) /\ pkts'[j] = queue[j] /\ Len(sent') = Len(sent)
      BY <2>1
    <3>2. queue[j].num = accepted - Len(queue) + j
      BY <3>1 DEF FifoInv
    <3>3. j \in Nat /\ accepted - Len(queue) = Len(sent)
      BY <1>0, <2>3
    <3> QED
      BY <3>1, <3>2, <3>3
  <2> QED
    BY <1>0, <2>1, <2>2, <2>3, <2>4 DEF FifoInv, Queue!vars
<1>3. CASE RunFetch
  <2>1. pkts = <<>> /\ spc # "done" /\ UNCHANGED <<accepted, sent>>
    BY <1>3 DEF RunFetch, ShaperType
  <2>2. /\ Len(pkts') \in Nat /\ Len(queue') \in Nat /\ Len(pkts') + Len(queue') = Len(queue)
        /\ \A j \in 1 .. Len(pkts') : pkts'[j] = queue[j]
        /\ \A j \in 1 .. Len(queue') : queue'[j] = queue[Len(pkts') + j]
    BY <1>3, FetchEffect DEF ShaperType
  <2>3. Len(sent) + Len(queue) = accepted
    BY <1>0, <2>1 DEF FifoInv
  <2>4. ASSUME NEW j \in 1 .. Len(pkts') PROVE pkts'[j].num = Len(sent') + j
    <3>1. j \in 1 .. Len(queue) /\ pkts'[j] = queue[j] /\ Len(sent') = Len(sent)
      BY <1>0, <2>1, <2>2
    <3>2. queue[j].num = accepted - Len(queue) + j
      BY <3>1 DEF FifoInv
    <3>3. j \in Nat /\ accepted - Len(queue) = Len(sent)
      BY <1>0, <2>3
    <3> QED
      BY <3>1, <3>2, <3>3
  <2>5. ASSUME NEW j \in 1 .. Len(queue') PROVE queue'[j].num = accepted' - Len(queue') + j
    <3>1. Len(pkts') + j \in 1 .. Len(queue) /\ queue'[j] = queue[Len(pkts') + j]
      BY <1>0, <2>2
    <3>2. queue[Len(pkts') + j].num = accepted - Len(queue) + (Len(pkts') + j)
      BY <3>1 DEF FifoInv
    <3>3. /\ accepted' = accepted /\ Len(pkts') \in Nat /\ Len(queue') \in Nat
          /\ Len(pkts') + Len(queue') = Len(queue)
      BY <2>1, <2>2
    <3>4. accepted - Len(queue) + (Len(pkts') + j) = accepted - Len(queue') + j
      BY <1>0, <3>3
    <3> QED
      BY <3>1, <3>2, <3>3, <3>4
  <2> QED
    BY <1>0, <2>1, <2>2, <2>3, <2>4, <2>5 DEF FifoInv, Queue!vars
<1>4. CASE RunSend
  <2>1. CASE pkts = <<>> \/ cancelled
    BY <1>0, <1>4, <2>1 DEF RunSend, queueVars, FifoInv, ShaperType, Queue!vars
  <2>2. CASE ~(pkts = <<>> \/ cancelled)
    <3>1. /\ Len(pkts) > 0 /\ Head(pkts) = pkts[1]
          /\ Len(Tail(pkts)) = Len(pkts) - 1
          /\ \A j \in 1 .. Len(pkts) - 1 : Tail(pkts)[j] = pkts[j + 1]
      BY <2>2, HeadTailProperties, EmptySeq DEF ShaperType
    <3>2. Head(pkts).num = Len(sent) + 1 /\ Len(sent) < accepted
      <4>1. 1 \in 1 .. Len(pkts) /\ spc = "send"
        BY <1>0, <1>4, <3>1 DEF RunSend
      <4> QED
        BY <1>0, <3>1, <4>1 DEF FifoInv
    <3>3. /\ sent' = Append(sent, Len(sent) + 1) /\ pkts' = Tail(pkts) /\ spc' = spc
          /\ UNCHANGED <<queue, accepted>>
      BY <1>4, <2>2, <3>2 DEF RunSend, queueVars
    <3>4. Len(sent') = Len(sent) + 1
      BY <1>0, <3>3, AppendProperties DEF ShaperType
    <3>5. FifoInv'
      <4>1. Len(pkts') = Len(pkts) - 1 /\ \A j \in 1 .. Len(pkts') : pkts'[j] = pkts[j + 1]
        BY <3>1, <3>3
      <4>2. ASSUME NEW j \in 1 .. Len(pkts') PROVE pkts'[j].num = Len(sent') + j
        <5>1. j + 1 \in 1 .. Len(pkts) /\ pkts'[j] = pkts[j + 1]
          BY <1>0, <4>1
        <5>2. pkts[j + 1].num = Len(sent) + (j + 1)
          BY <5>1 DEF FifoInv
        <5>3. Len(sent) + (j + 1) = Len(sent') + j
          BY <1>0, <3>4
        <5> QED
          BY <5>1, <5>2, <5>3
      <4>3. spc' # "done" => Len(sent') + Len(pkts') + Len(queue') = accepted'
        <5>1. spc # "done" => Len(sent) + Len(pkts) + Len(queue) = accepted
          BY DEF FifoInv
        <5>2. /\ Len(queue') = Len(queue) /\ accepted' = accepted /\ spc' = spc
              /\ Len(pkts') = Len(pkts) - 1
          BY <3>3, <4>1
        <5> QED
          BY <1>0, <3>4, <5>1, <5>2
      <4> QED
        BY <3>3, <4>2, <4>3, Zenon DEF FifoInv
    <3> QED
      BY <3>2, <3>3, <3>5 DEF Queue!Next, Queue!Get
  <2> QED
    BY <2>1, <2>2
<1> QED
  BY <1>1, <1>2, <1>3, <1>4 DEF RunStep

\* Shaper, Enqueue to sendFn: for every block size and any order of puts, bursts,
\* parameter changes and Close, packets leave in the order in which they were put in,
\* each once; after a cancellation they stop, with nothing skipped.
THEOREM ShaperIsFifo == Spec => Fifo
<1> DEFINE Inv == ShaperType /\ SenderType /\ FifoInv
<1>1. Init => Inv /\ Queue!Init
  <2>1. Init => FifoInv /\ Queue!Init
    BY EmptySeq DEF Init, NewShaper, FifoInv, Queue!Init
  <2> QED
    BY <2>1, TypesInit
<1>2. Inv /\ [Next]_vars => Inv' /\ [Queue!Next]_(Queue!vars)
  <2> SUFFICES ASSUME Inv, [Next]_vars PROVE Inv' /\ [Queue!Next]_(Queue!vars)
    OBVIOUS
  <2>1. ShaperType' /\ SenderType'
    BY TypesStep
  <2>2. CASE Puts /\ UNCHANGED <<pkts, sent>>
    BY <2>1, <2>2, FifoPut
  <2>3. CASE RunStep
    BY <2>1, <2>3, FifoRun
  <2>4. CASE Woken /\ UNCHANGED <<queue, accepted, pkts, sent>>
    BY <2>1, <2>4 DEF FifoInv, Woken, Queue!vars
  <2> QED
    BY <2>2, <2>3, <2>4, StepKinds DEF ShaperType
<1> QED
  BY <1>1, <1>2, PTL DEF Spec, Fifo, Queue!Spec

-----------------------------------------------------------------------------
(* The link is not overrun.                                                *)

\* The intervals are not rounded: the time of every burst is whole milliseconds.
WholeMillis ==
  \A t \in PktTimes, m \in 0 .. FEC_M :
    (((FEC_K + m) * t) \div Milli) * Milli = (FEC_K + m) * t

\* Run keeps size and interval of one pair of parameters; the burst in hand fits in the
\* time until the next one.
LinkInv ==
  /\ pktTime \in PktTimes /\ nextReset \in Nat /\ backlog \in Nat
  /\ burstSize = FEC_K + curM /\ burstInterval = burstSize * pktTime
  /\ spc \in {"all", "sleep", "fetch"} => size \in Nat /\ interval = size * pktTime
  /\ spc = "all" => pktTime = 0
  /\ spc = "fetch" => nextReset = 0
  /\ backlog + Len(pkts) * pktTime <= nextReset

\* Products of naturals.
LEMMA Products ==
  ASSUME NEW m \in Nat, NEW n \in Nat, NEW t \in Nat
  PROVE  /\ m * t \in Nat
         /\ m <= n => m * t <= n * t
         /\ m > 0 => m * t >= t
         /\ m > 0 => (m - 1) * t = m * t - t
  OBVIOUS

\* The other steps leave the pace alone.
LEMMA PaceSteps ==
  ASSUME [Next]_vars
  PROVE  \/ RunStep /\ UNCHANGED senderVars
         \/ Tick
         \/ \E g \in txBlocks : HandleLQR(g)
         \/ Woken /\ UNCHANGED <<pktTime, nextReset, backlog, burstSize, burstInterval, size,
                                 interval, pkts, curM>>
<1>1. ASSUME Flush \/ NoFlush PROVE Woken
  BY <1>1 DEF Flush, NoFlush, EnqueueMany, Signal, Woken
<1>2. CASE ReadTCP
  BY <1>1, <1>2 DEF ReadTCP, paramVars
<1>3. CASE ReadEOF
  BY <1>1, <1>3 DEF ReadEOF, FlushIf, paramVars
<1>4. CASE FlushPendingBlock
  BY <1>1, <1>4 DEF FlushPendingBlock, FlushIf, paramVars
<1>5. CASE HandleNak
  BY <1>5 DEF HandleNak, EnqueueMany, Signal, Woken, paramVars
<1>6. CASE Run \/ Tick \/ \E g \in txBlocks : HandleLQR(g)
  BY <1>6 DEF Run
<1>7. CASE Reader \/ CloseRest \/ UNCHANGED vars
  BY <1>7 DEF Reader, CheckQueue, DrainDone, SendClose, ReaderAborts, CloseRest, vars,
              shaperVars, paramVars, runVars, senderVars, Woken
<1>8. CASE ReadFails \/ CloseCancel \/ CloseStop
  BY <1>8 DEF ReadFails, CloseCancel, CloseStop, Stop, Signal, paramVars, runVars, Woken
<1> QED
  BY <1>2, <1>3, <1>4, <1>5, <1>6, <1>7, <1>8 DEF Next, Closer

\* Steps of Run.
LEMMA LinkRun ==
  ASSUME ShaperType, SenderType, LinkInv, RunStep, UNCHANGED senderVars
  PROVE  LinkInv'
<1>0. /\ pktTime \in Nat /\ Len(pkts) \in Nat /\ nextReset \in Nat /\ backlog \in Nat
      /\ curM' = curM /\ burstSize \in Nat /\ burstSize > 0 /\ size \in Nat
  BY PacingAssumption DEF LinkInv, ShaperType, SenderType, senderVars
<1>1. CASE RunTop
  <2>1. UNCHANGED <<pktTime, nextReset, backlog, burstSize, burstInterval, pkts>>
    BY <1>1 DEF RunTop, paramVars
  <2>2. spc' \in {"all", "sleep", "fetch"} => size' = burstSize /\ interval' = burstInterval
    BY <1>1 DEF RunTop
  <2>3. spc' = "fetch" => nextReset = 0
    BY <1>0, <1>1 DEF RunTop
  <2>4. spc' = "all" => pktTime = 0
    <3>1. spc' = "all" => burstInterval <= 0
      BY <1>1 DEF RunTop
    <3>2. burstInterval = burstSize * pktTime /\ burstSize * pktTime >= pktTime
      BY <1>0, Products DEF LinkInv
    <3> QED
      BY <1>0, <3>1, <3>2
  <2> QED
    BY <1>0, <2>1, <2>2, <2>3, <2>4 DEF LinkInv
<1>2. CASE RunAll
  <2>1. /\ UNCHANGED <<pktTime, nextReset, backlog, burstSize, burstInterval>>
        /\ pktTime = 0 /\ spc' = "send" /\ pkts' = queue
    BY <1>2 DEF RunAll, paramVars, LinkInv
  <2>2. Len(pkts') \in Nat /\ Len(pkts') * 0 = 0 /\ Len(pkts) * 0 = 0
    BY <1>0, <2>1 DEF ShaperType
  <2> QED
    BY <1>0, <2>1, <2>2 DEF LinkInv
<1>3. CASE RunAbort
  BY <1>0, <1>3 DEF RunAbort, paramVars, LinkInv
<1>4. CASE RunFetch
  <2>1. /\ UNCHANGED <<pktTime, backlog, burstSize, burstInterval>>
        /\ spc' = "send" /\ nextReset' = interval /\ interval = size * pktTime
        /\ nextReset = 0 /\ pkts = <<>>
    BY <1>4 DEF RunFetch, BurstOwnInterval, paramVars, LinkInv, ShaperType
  <2>2. Len(pkts) * pktTime = 0 /\ Len(pkts') \in Nat /\ Len(pkts') <= size
    BY <1>0, <1>4, <2>1, FetchEffect
  <2>3. backlog = 0
    BY <1>0, <2>1, <2>2 DEF LinkInv
  <2>4. size * pktTime \in Nat /\ Len(pkts') * pktTime \in Nat /\ Len(pkts') * pktTime <= size * pktTime
    BY <1>0, <2>2, Products
  <2>5. backlog' + Len(pkts') * pktTime' <= nextReset' /\ nextReset' \in Nat
    BY <2>1, <2>3, <2>4
  <2> QED
    BY <1>0, <2>1, <2>5 DEF LinkInv
<1>5. CASE RunSend
  <2>1. CASE pkts = <<>> \/ cancelled
    <3>1. /\ UNCHANGED <<pktTime, nextReset, backlog, burstSize, burstInterval>>
          /\ spc' \in {"top", "done"} /\ pkts' = <<>>
      BY <1>5, <2>1 DEF RunSend, paramVars
    <3>2. Len(pkts') * pktTime = 0 /\ Len(pkts) * pktTime \in Nat
      BY <1>0, <3>1, Products
    <3>3. backlog' + Len(pkts') * pktTime' <= nextReset'
      BY <1>0, <3>1, <3>2 DEF LinkInv
    <3> QED
      BY <1>0, <3>1, <3>3 DEF LinkInv
  <2>2. CASE ~(pkts = <<>> \/ cancelled)
    <3>1. /\ UNCHANGED <<pktTime, nextReset, burstSize, burstInterval>>
          /\ spc' = "send" /\ pkts' = Tail(pkts) /\ backlog' = backlog + pktTime
      BY <1>5, <2>2 DEF RunSend, paramVars
    <3>2. Len(pkts) > 0 /\ Len(pkts') = Len(pkts) - 1
      BY <2>2, <3>1, HeadTailProperties, EmptySeq DEF ShaperType
    <3>3. Len(pkts') * pktTime = Len(pkts) * pktTime - pktTime /\ Len(pkts) * pktTime \in Nat
      BY <1>0, <3>2, Products
    <3>4. backlog' \in Nat /\ backlog' + Len(pkts') * pktTime' <= nextReset'
      <4>1. backlog + Len(pkts) * pktTime <= nextReset
        BY DEF LinkInv
      <4>2. backlog' = backlog + pktTime /\ pktTime' = pktTime /\ nextReset' = nextReset
        BY <3>1
      <4> QED
        BY <1>0, <3>3, <4>1, <4>2
    <3>5. /\ UNCHANGED <<pktTime, nextReset, burstSize, burstInterval, curM>> /\ spc' = "send"
      BY <1>0, <3>1
    <3> QED
      BY <3>4, <3>5 DEF LinkInv
  <2> QED
    BY <2>1, <2>2
<1> QED
  BY <1>1, <1>2, <1>3, <1>4, <1>5 DEF RunStep

\* A tick of the clock.
LEMMA LinkTick ==
  ASSUME ShaperType, LinkInv, Tick
  PROVE  LinkInv'
<1>1. /\ UNCHANGED <<pktTime, burstSize, burstInterval, size, interval, spc, pkts, curM>>
      /\ nextReset' = IF nextReset > 0 THEN nextReset - 1 ELSE 0
      /\ backlog' = IF backlog > 0 THEN backlog - 1 ELSE 0
      /\ pkts = <<>>
  BY DEF Tick, Elapse, paramVars, ShaperType
<1>2. pktTime \in Nat /\ nextReset \in Nat /\ backlog \in Nat /\ Len(pkts) * pktTime = 0
  BY <1>1, PacingAssumption DEF LinkInv
<1>3. backlog' \in Nat /\ nextReset' \in Nat /\ backlog' + Len(pkts') * pktTime' <= nextReset'
  BY <1>1, <1>2 DEF LinkInv
<1> QED
  BY <1>1, <1>2, <1>3 DEF LinkInv

\* The parameters of a burst of FEC_K + m packets.
LEMMA ExactInterval ==
  ASSUME WholeMillis, pktTime \in PktTimes, NEW m \in 0 .. FEC_M
  PROVE  Interval(FEC_K + m) = (FEC_K + m) * pktTime
  BY DEF WholeMillis, Interval

\* A report.
LEMMA LinkLQR ==
  ASSUME WholeMillis, SenderType, LinkInv, NEW g \in txBlocks, HandleLQR(g)
  PROVE  LinkInv'
<1>1. UNCHANGED <<pktTime, nextReset, backlog, size, interval, spc, pkts>>
  BY DEF HandleLQR, runVars
<1>2. CASE UNCHANGED <<curM, paramVars>>
  BY <1>1, <1>2 DEF LinkInv, paramVars
<1>3. ASSUME NEW m \in ({curM - 1} \cup (curM + 1 .. FEC_M)) \cap Nat, curM' = m, UpdateShaperParams(m)
      PROVE  LinkInv'
  <2>1. m \in 0 .. FEC_M
    BY PacingAssumption DEF SenderType
  <2>2. burstSize' = FEC_K + m /\ burstInterval' = (FEC_K + m) * pktTime
    BY <1>3, <2>1, ExactInterval DEF UpdateShaperParams, UpdateParams, LinkInv
  <2> QED
    BY <1>1, <1>3, <2>2 DEF LinkInv
<1> QED
  BY <1>2, <1>3 DEF HandleLQR

\* Shaper.Run and updateShaperParams: for every block size, link and interleaving of
\* parameter changes with a waiting burst, the link has carried each burst by the time
\* the next one is sent, provided that no interval is rounded.
THEOREM LinkIsNotOverrun ==
  ASSUME WholeMillis
  PROVE  Spec => []LinkNotOverrun
<1> DEFINE Inv == ShaperType /\ SenderType /\ LinkInv
<1>1. Init => Inv
  <2> SUFFICES ASSUME Init PROVE LinkInv
    BY TypesInit
  <2>1. /\ pktTime \in PktTimes /\ pktTime \in Nat /\ nextReset = 0 /\ backlog = 0 /\ pkts = <<>>
        /\ spc = "top" /\ curM = FEC_M
        /\ burstSize = FEC_K + FEC_M /\ burstInterval = Interval(FEC_K + FEC_M)
    BY PacingAssumption DEF Init, NewShaper
  <2>2. Interval(FEC_K + FEC_M) = (FEC_K + FEC_M) * pktTime
    BY <2>1, PacingAssumption, ExactInterval
  <2> QED
    BY <2>1, <2>2 DEF LinkInv
<1>2. Inv /\ [Next]_vars => Inv'
  <2> SUFFICES ASSUME Inv, [Next]_vars PROVE LinkInv'
    BY TypesStep
  <2>1. CASE Woken /\ UNCHANGED <<pktTime, nextReset, backlog, burstSize, burstInterval, size,
                                  interval, pkts, curM>>
    BY <2>1 DEF LinkInv, Woken
  <2> QED
    BY <2>1, PaceSteps, LinkRun, LinkTick, LinkLQR
<1>3. Inv => LinkNotOverrun
  <2> SUFFICES ASSUME Inv PROVE LinkNotOverrun
    OBVIOUS
  <2>1. Len(pkts) \in Nat /\ pktTime \in Nat /\ backlog \in Nat /\ nextReset \in Nat
    BY PacingAssumption DEF LinkInv, ShaperType
  <2>2. Len(pkts) * pktTime \in Nat
    BY <2>1, Products
  <2> QED
    BY <2>1, <2>2 DEF LinkInv, LinkNotOverrun
<1> QED
  BY <1>1, <1>2, <1>3, PTL DEF Spec

-----------------------------------------------------------------------------
(* CLOSE comes after the data.                                             *)

\* Nothing but retransmissions in s.
NoBlocks(s) == \A j \in 1 .. Len(s) : s[j].grp = 0

\* After EOF nothing is pending; after the queue was seen empty no block is put into it;
\* after one tick of the wait, or without a block to wait for, none is in the burst.
CloseInv ==
  /\ rpc \in {"drain", "ack", "closed"} => pending = 0
  /\ rpc \in {"ack", "closed"} => NoBlocks(queue)
  /\ rpc = "ack" => ackWait = LqrWait \/ NoBlocks(pkts)
  /\ rpc = "closed" => txBlocks = {} \/ NoBlocks(pkts)

\* Run makes bursts of what is in the queue.
LEMMA RunNoBlocks ==
  ASSUME ShaperType, RunStep, NoBlocks(queue)
  PROVE  NoBlocks(queue)' /\ (NoBlocks(pkts) => NoBlocks(pkts)')
<1>0. Len(queue) \in Nat /\ Len(pkts) \in Nat
  BY DEF ShaperType
<1>1. CASE RunTop \/ RunAbort
  BY <1>1 DEF RunTop, RunAbort, queueVars, NoBlocks
<1>2. CASE RunAll
  <2>1. pkts' = queue /\ Len(queue') = 0
    BY <1>2 DEF RunAll
  <2> QED
    BY <2>1 DEF NoBlocks
<1>3. CASE RunFetch
  <2>1. /\ Len(pkts') \in Nat /\ Len(queue') \in Nat /\ Len(pkts') + Len(queue') = Len(queue)
        /\ \A j \in 1 .. Len(pkts') : pkts'[j] = queue[j]
        /\ \A j \in 1 .. Len(queue') : queue'[j] = queue[Len(pkts') + j]
    BY <1>3, FetchEffect
  <2>2. ASSUME NEW j \in 1 .. Len(pkts') PROVE pkts'[j].grp = 0
    BY <1>0, <2>1 DEF NoBlocks
  <2>3. ASSUME NEW j \in 1 .. Len(queue') PROVE queue'[j].grp = 0
    <3>1. Len(pkts') + j \in 1 .. Len(queue)
      BY <1>0, <2>1
    <3> QED
      BY <2>1, <3>1 DEF NoBlocks
  <2> QED
    BY <2>2, <2>3 DEF NoBlocks
<1>4. CASE RunSend
  <2>1. CASE pkts = <<>> \/ cancelled
    <3>1. Len(pkts') = 0 /\ queue' = queue
      BY <1>4, <2>1 DEF RunSend, queueVars
    <3> QED
      BY <3>1 DEF NoBlocks
  <2>2. CASE ~(pkts = <<>> \/ cancelled)
    <3>1. pkts' = Tail(pkts) /\ queue' = queue
      BY <1>4, <2>2 DEF RunSend, queueVars
    <3>2. Len(pkts') = Len(pkts) - 1 /\ \A j \in 1 .. Len(pkts') : pkts'[j] = pkts[j + 1]
      BY <2>2, <3>1, HeadTailProperties DEF ShaperType
    <3> QED
      BY <1>0, <3>1, <3>2 DEF NoBlocks
  <2> QED
    BY <2>1, <2>2
<1> QED
  BY <1>1, <1>2, <1>3, <1>4 DEF RunStep

\* A retransmission keeps the queue without blocks.
LEMMA NakNoBlocks ==
  ASSUME ShaperType, EnqueueMany(1, 0), NoBlocks(queue)
  PROVE  NoBlocks(queue)'
<1>1. CASE stopped
  BY <1>1 DEF EnqueueMany, queueVars, NoBlocks
<1>2. CASE ~stopped
  <2>0. queue \in Seq(Packets) /\ accepted \in Nat /\ Len(queue) \in Nat
    BY DEF ShaperType
  <2>1. /\ Len(queue') = Len(queue) + 1
        /\ \A j \in 1 .. Len(queue) : queue'[j] = queue[j]
        /\ \A j \in 1 .. 1 : queue'[Len(queue) + j] = [num |-> accepted + j, grp |-> 0]
    BY <1>2, <2>0, EnqueueEffect
  <2>2. queue'[Len(queue) + 1].grp = 0
    <3>1. 1 \in 1 .. 1
      OBVIOUS
    <3>2. queue'[Len(queue) + 1] = [num |-> accepted + 1, grp |-> 0]
      BY <2>1, <3>1, Zenon
    <3> QED
      BY <3>2
  <2>3. ASSUME NEW j \in 1 .. Len(queue') PROVE queue'[j].grp = 0
    <3>1. CASE j = Len(queue) + 1
      BY <2>2, <3>1
    <3>2. CASE j # Len(queue) + 1
      BY <2>0, <2>1, <3>2 DEF NoBlocks
    <3> QED
      BY <3>1, <3>2
  <2> QED
    BY <2>3 DEF NoBlocks
<1> QED
  BY <1>1, <1>2

\* Steps that neither read nor flush.
LEMMA CloseSteps ==
  ASSUME LqrWait > 0, ShaperType, SenderType, CloseInv, [Next]_vars,
         ~(ReadTCP \/ ReadEOF \/ FlushPendingBlock)
  PROVE  CloseInv'
<1>1. CASE Run
  <2>1. RunStep /\ UNCHANGED <<rpc, pending, txBlocks, ackWait>>
    BY <1>1 DEF Run, senderVars
  <2> QED
    BY <2>1, RunNoBlocks DEF CloseInv
<1>2. CASE HandleNak
  <2>1. EnqueueMany(1, 0) /\ UNCHANGED <<rpc, pending, txBlocks, ackWait, pkts>>
    BY <1>2 DEF HandleNak
  <2> QED
    BY <2>1, NakNoBlocks DEF CloseInv, NoBlocks
<1>3. CASE Tick
  <2>1. UNCHANGED <<rpc, pending, txBlocks, queue, pkts>> /\ pkts = <<>>
    BY <1>3 DEF Tick, Elapse, queueVars, ShaperType
  <2>2. NoBlocks(pkts)
    BY <2>1 DEF NoBlocks
  <2> QED
    BY <2>1, <2>2 DEF CloseInv, NoBlocks
<1>4. CASE DrainDone
  <2>1. /\ rpc = "drain" /\ rpc' = "ack" /\ ackWait' = LqrWait /\ queue = <<>>
        /\ UNCHANGED <<pending, txBlocks, queue, pkts>>
    BY <1>4 DEF DrainDone, shaperVars, queueVars, runVars
  <2>2. NoBlocks(queue)'
    BY <2>1 DEF NoBlocks
  <2> QED
    BY <2>1, <2>2 DEF CloseInv
<1>5. CASE SendClose
  <2>1. /\ rpc = "ack" /\ rpc' = "closed" /\ (txBlocks = {} \/ ackWait = 0)
        /\ UNCHANGED <<pending, txBlocks, queue, pkts>>
    BY <1>5 DEF SendClose, shaperVars, queueVars, runVars
  <2>2. txBlocks = {} \/ NoBlocks(pkts)
    BY <2>1, PacingAssumption DEF CloseInv
  <2>3. NoBlocks(queue)' /\ (NoBlocks(pkts) => NoBlocks(pkts)')
    BY <2>1 DEF CloseInv, NoBlocks
  <2> QED
    BY <2>1, <2>2, <2>3 DEF CloseInv
<1>6. CASE CheckQueue \/ ReaderAborts \/ CloseRest
  <2>1. rpc' \in {rpc, "read", "gone"} /\ UNCHANGED <<pending, txBlocks, queue, pkts, ackWait>>
    BY <1>6 DEF CheckQueue, ReaderAborts, CloseRest, shaperVars, queueVars, runVars
  <2> QED
    BY <2>1 DEF CloseInv, NoBlocks
<1>7. CASE ReadFails \/ CloseCancel \/ CloseStop \/ UNCHANGED vars
  <2>1. rpc' \in {rpc, "gone"} /\ UNCHANGED <<pending, txBlocks, queue, pkts, ackWait>>
    BY <1>7 DEF ReadFails, CloseCancel, CloseStop, vars, shaperVars, senderVars, queueVars, runVars
  <2> QED
    BY <2>1 DEF CloseInv, NoBlocks
<1>8. CASE \E g \in txBlocks : HandleLQR(g)
  <2>1. /\ UNCHANGED <<rpc, pending, queue, pkts, ackWait>>
        /\ \E g \in txBlocks : txBlocks' = txBlocks \ {g}
    BY <1>8 DEF HandleLQR, queueVars, runVars
  <2> QED
    BY <2>1 DEF CloseInv, NoBlocks
<1> QED
  BY <1>1, <1>2, <1>3, <1>4, <1>5, <1>6, <1>7, <1>8 DEF Next, Reader, Closer

\* Steps that read or flush.
LEMMA FlushSteps ==
  ASSUME CloseInv, ReadTCP \/ ReadEOF \/ FlushPendingBlock
  PROVE  CloseInv'
<1>1. CASE ReadTCP
  BY <1>1 DEF ReadTCP, CloseInv
<1>2. CASE ReadEOF
  BY <1>2 DEF ReadEOF, FlushIf, Flush, CloseInv
<1>3. CASE FlushPendingBlock
  <2>1. CASE rpc \in {"drain", "ack", "closed"}
    <3>1. pending = 0 /\ ~(pending > 0)
      BY <2>1 DEF CloseInv
    <3>2. UNCHANGED <<rpc, queue, pkts, txBlocks, ackWait>> /\ pending' = 0
      BY <1>3, <3>1 DEF FlushPendingBlock, FlushIf, NoFlush, queueVars
    <3> QED
      BY <2>1, <3>2 DEF CloseInv, NoBlocks
  <2>2. CASE rpc \notin {"drain", "ack", "closed"}
    BY <1>3, <2>2 DEF FlushPendingBlock, CloseInv
  <2> QED
    BY <2>1, <2>2
<1> QED
  BY <1>1, <1>2, <1>3

\* readTCPRun, deferred function: although the shaper's queue is seen empty before the
\* last burst is sent, CLOSE comes after every packet of a block without an LQR; the
\* length of the wait does not matter as long as there is one.
THEOREM CloseFollowsData ==
  ASSUME LqrWait > 0
  PROVE  Spec => []CloseIsLast
<1> DEFINE Inv == ShaperType /\ SenderType /\ CloseInv
<1>1. Init => Inv
  <2>1. Init => CloseInv
    BY DEF Init, CloseInv
  <2> QED
    BY <2>1, TypesInit
<1>2. Inv /\ [Next]_vars => Inv'
  <2> SUFFICES ASSUME Inv, [Next]_vars PROVE Inv'
    OBVIOUS
  <2> QED
    BY TypesStep, CloseSteps, FlushSteps
<1>3. Inv => CloseIsLast
  <2> SUFFICES ASSUME Inv, rpc = "closed", txBlocks # {}, NEW g \in txBlocks,
                      g \in Groups(queue) \cup Groups(pkts)
               PROVE  FALSE
    BY DEF CloseIsLast
  <2>1. NoBlocks(queue) /\ NoBlocks(pkts) /\ g # 0
    BY DEF CloseInv, SenderType
  <2>2. DOMAIN queue = 1 .. Len(queue) /\ DOMAIN pkts = 1 .. Len(pkts)
    BY LenProperties DEF ShaperType
  <2> QED
    BY <2>1, <2>2 DEF Groups, NoBlocks
<1> QED
  BY <1>1, <1>2, <1>3, PTL DEF Spec
-----------------------------------------------------------------------------
(* Backpressure bounds the queue.                                          *)

\* The positions of the packets of blocks in s.
BlockPos(s) == {j \in 1 .. Len(s) : s[j].grp # 0}

\* The most packets of a block.
Burst == FEC_K + FEC_M

\* What the queue may hold beyond the limit.  Between the check and the read the timer can
\* flush what is pending; after the read it can flush what is pending then, and with
\* nothing pending nothing is added before the next check.
QueueRoom ==
  IF rpc = "read" THEN (IF pending > 0 THEN 0 ELSE Burst)
                  ELSE (IF pending > 0 THEN Burst ELSE Burst + Burst)

\* QueueBounded, by where the reader stands and whether a block is pending.
QueueInv ==
  /\ pending \in Nat
  /\ Cardinality(BlockPos(queue)) <= QueueLimit + QueueRoom

\* The packets of blocks are finitely many, at most all.
LEMMA BlockPosBound ==
  ASSUME NEW s \in Seq(Packets)
  PROVE  /\ IsFiniteSet(BlockPos(s)) /\ Cardinality(BlockPos(s)) \in Nat
         /\ Cardinality(BlockPos(s)) <= Len(s)
<1>0. Len(s) \in Nat /\ 1 \in Int /\ Len(s) \in Int
  OBVIOUS
<1>1. IsFiniteSet(1 .. Len(s)) /\ Cardinality(1 .. Len(s)) = Len(s)
  BY <1>0, FS_Interval
<1>2. BlockPos(s) \in SUBSET (1 .. Len(s))
  BY DEF BlockPos
<1>3. IsFiniteSet(BlockPos(s)) /\ Cardinality(BlockPos(s)) <= Cardinality(1 .. Len(s))
  BY <1>1, <1>2, FS_Subset, Zenon
<1> QED
  BY <1>1, <1>3, FS_CardinalityType

\* A put of n packets adds at most n, a retransmission none.
LEMMA BlockPosPut ==
  ASSUME ShaperType, NEW n \in Nat, NEW g \in Nat, EnqueueMany(n, g)
  PROVE  Cardinality(BlockPos(queue))' <= Cardinality(BlockPos(queue)) + (IF g = 0 THEN 0 ELSE n)
<1>0. /\ queue \in Seq(Packets) /\ accepted \in Nat /\ Len(queue) \in Nat
      /\ IsFiniteSet(BlockPos(queue)) /\ Cardinality(BlockPos(queue)) \in Nat
  BY BlockPosBound DEF ShaperType
<1>1. CASE stopped
  <2>1. queue' = queue
    BY <1>1 DEF EnqueueMany, queueVars
  <2> QED
    BY <1>0, <2>1
<1>2. CASE ~stopped
  <2> DEFINE new == (Len(queue) + 1) .. (Len(queue) + n)
  <2>1. /\ Len(queue') = Len(queue) + n
        /\ \A j \in 1 .. Len(queue) : queue'[j] = queue[j]
        /\ \A j \in 1 .. n : queue'[Len(queue) + j] = [num |-> accepted + j, grp |-> g]
    BY <1>0, <1>2, EnqueueEffect, Zenon
  <2>2. \A j \in new : queue'[j].grp = g
    <3> SUFFICES ASSUME NEW j \in new PROVE queue'[j].grp = g
      OBVIOUS
    <3>1. j - Len(queue) \in 1 .. n /\ Len(queue) + (j - Len(queue)) = j
      BY <1>0
    <3>2. queue'[j] = [num |-> accepted + (j - Len(queue)), grp |-> g]
      BY <2>1, <3>1
    <3> QED
      BY <3>2
  <2>3. 1 .. (Len(queue) + n) = (1 .. Len(queue)) \cup new
    BY <1>0
  <2>4. IsFiniteSet(new) /\ Cardinality(new) = n
    <3>1. Len(queue) + 1 \in Int /\ Len(queue) + n \in Int
      BY <1>0
    <3>2. /\ IsFiniteSet(new)
          /\ Cardinality(new) = IF Len(queue) + 1 > Len(queue) + n THEN 0
                                ELSE (Len(queue) + n) - (Len(queue) + 1) + 1
      BY <3>1, FS_Interval
    <3> QED
      BY <1>0, <3>2
  <2>5. CASE g = 0
    <3>1. BlockPos(queue)' = BlockPos(queue)
      BY <2>1, <2>2, <2>3, <2>5 DEF BlockPos
    <3> QED
      BY <1>0, <2>5, <3>1
  <2>6. CASE g # 0
    <3>1. BlockPos(queue)' = BlockPos(queue) \cup new
      BY <2>1, <2>2, <2>3, <2>6 DEF BlockPos
    <3> HIDE DEF new
    <3>2. /\ IsFiniteSet(BlockPos(queue) \cap new)
          /\ Cardinality(BlockPos(queue) \cup new)
               = Cardinality(BlockPos(queue)) + Cardinality(new) - Cardinality(BlockPos(queue) \cap new)
      BY <1>0, <2>4, FS_Union, FS_Intersection, Zenon
    <3>3. Cardinality(BlockPos(queue) \cap new) \in Nat
      BY <3>2, FS_CardinalityType
    <3> QED
      BY <1>0, <2>4, <2>6, <3>1, <3>2, <3>3
  <2> QED
    BY <2>5, <2>6
<1> QED
  BY <1>1, <1>2

\* Run only takes packets out.
LEMMA BlockPosRun ==
  ASSUME ShaperType, RunStep
  PROVE  Cardinality(BlockPos(queue))' <= Cardinality(BlockPos(queue))
<1>0. /\ queue \in Seq(Packets) /\ Len(queue) \in Nat
      /\ IsFiniteSet(BlockPos(queue)) /\ Cardinality(BlockPos(queue)) \in Nat
  BY BlockPosBound DEF ShaperType
<1>1. CASE RunTop \/ RunAbort \/ RunSend
  <2>1. queue' = queue
    BY <1>1 DEF RunTop, RunAbort, RunSend, queueVars
  <2> QED
    BY <1>0, <2>1
<1>2. CASE RunAll
  <2>1. Len(queue') = 0
    BY <1>2 DEF RunAll
  <2>2. BlockPos(queue)' = {}
    BY <2>1 DEF BlockPos
  <2> QED
    BY <1>0, <2>2, FS_EmptySet
<1>3. CASE RunFetch
  <2>1. /\ Len(pkts') \in Nat /\ Len(queue') \in Nat /\ Len(pkts') + Len(queue') = Len(queue)
        /\ \A j \in 1 .. Len(queue') : queue'[j] = queue[Len(pkts') + j]
    BY <1>3, FetchEffect
  <2> DEFINE f == [j \in BlockPos(queue)' |-> Len(pkts') + j]
  <2>2. ASSUME NEW j \in BlockPos(queue)'
        PROVE  j \in Nat /\ Len(pkts') + j \in BlockPos(queue)
    <3>1. j \in 1 .. Len(queue') /\ queue'[j].grp # 0
      BY DEF BlockPos
    <3>2. Len(pkts') + j \in 1 .. Len(queue)
      BY <1>0, <2>1, <3>1
    <3> QED
      BY <2>1, <3>1, <3>2 DEF BlockPos
  <2>3. f \in Injection(BlockPos(queue)', BlockPos(queue))
    <3>1. f \in [BlockPos(queue)' -> BlockPos(queue)]
      BY <2>2
    <3>2. \A i, j \in BlockPos(queue)' : f[i] = f[j] => i = j
      BY <2>1, <2>2
    <3> QED
      BY <3>1, <3>2, Zenon DEF Injection, IsInjective
  <2> QED
    BY <1>0, <2>3, FS_Injection
<1> QED
  BY <1>1, <1>2, <1>3 DEF RunStep

\* Steps that do not read, flush or check.
LEMMA QueueOther ==
  ASSUME ShaperType, SenderType, QueueInv, [Next]_vars,
         ~(ReadTCP \/ ReadEOF \/ FlushPendingBlock \/ CheckQueue)
  PROVE  QueueInv'
<1>0. /\ Cardinality(BlockPos(queue)) \in Nat /\ Burst \in Nat /\ QueueLimit \in Nat
      /\ Cardinality(BlockPos(queue)') \in Nat
  BY BlockPosBound, TypesStep, PacingAssumption DEF ShaperType, Burst
<1>1. Cardinality(BlockPos(queue))' <= Cardinality(BlockPos(queue))
  <2>1. CASE Run
    BY <2>1, BlockPosRun DEF Run
  <2>2. CASE HandleNak
    BY <1>0, <2>2, BlockPosPut DEF HandleNak
  <2>3. CASE queue' = queue
    BY <1>0, <2>3
  <2>4. CASE Tick \/ Closer \/ DrainDone \/ SendClose \/ ReaderAborts \/ UNCHANGED vars
    BY <2>3, <2>4 DEF Tick, Elapse, Closer, CloseStop, CloseRest, DrainDone, SendClose,
                      ReaderAborts, vars, shaperVars, queueVars
  <2>5. CASE ReadFails \/ CloseCancel \/ \E g \in txBlocks : HandleLQR(g)
    BY <2>3, <2>5 DEF ReadFails, CloseCancel, HandleLQR, queueVars
  <2> QED
    BY <2>1, <2>2, <2>4, <2>5 DEF Next, Reader
<1>2. pending' = pending /\ (rpc' = "read" => rpc = "read")
  <2>1. CASE Run \/ Tick \/ HandleNak \/ Closer \/ UNCHANGED vars
    BY <2>1, Zenon DEF Run, Tick, HandleNak, Closer, CloseStop, CloseRest, vars, senderVars
  <2>2. CASE DrainDone \/ SendClose \/ ReaderAborts \/ ReadFails \/ CloseCancel
    BY <2>2 DEF DrainDone, SendClose, ReaderAborts, ReadFails, CloseCancel
  <2>3. CASE \E g \in txBlocks : HandleLQR(g)
    BY <2>3 DEF HandleLQR
  <2> QED
    BY <2>1, <2>2, <2>3 DEF Next, Reader
<1>3. QueueRoom \in Nat /\ QueueRoom' \in Nat /\ QueueRoom <= QueueRoom'
  BY <1>0, <1>2 DEF QueueRoom, QueueInv
<1> QED
  BY <1>0, <1>1, <1>2, <1>3 DEF QueueInv

\* A flush adds at most one block.
LEMMA QueueFlush ==
  ASSUME ShaperType, SenderType, Flush
  PROVE  Cardinality(BlockPos(queue))' <= Cardinality(BlockPos(queue)) + Burst
<1>1. /\ FEC_K + curM \in Nat /\ FEC_K + curM <= Burst /\ accepted + 1 \in Nat /\ accepted + 1 # 0
      /\ Burst \in Nat /\ EnqueueMany(FEC_K + curM, accepted + 1)
  BY PacingAssumption DEF ShaperType, SenderType, Burst, Flush
<1>2. Cardinality(BlockPos(queue))' <= Cardinality(BlockPos(queue)) + (FEC_K + curM)
  BY <1>1, BlockPosPut
<1>3. Cardinality(BlockPos(queue)) \in Nat /\ Cardinality(BlockPos(queue)') \in Nat
  <2>1. queue \in Seq(Packets) /\ queue' \in Seq(Packets)
    <3>1. CASE stopped
      BY <1>1, <3>1 DEF EnqueueMany, queueVars, ShaperType
    <3>2. CASE ~stopped
      BY <1>1, <3>2, EnqueueEffect DEF ShaperType
    <3> QED
      BY <3>1, <3>2
  <2> QED
    BY <2>1, BlockPosBound
<1> QED
  BY <1>1, <1>2, <1>3

\* Reading, flushing and the check of the queue.
LEMMA QueueFill ==
  ASSUME ShaperType, SenderType, QueueInv,
         ReadTCP \/ ReadEOF \/ FlushPendingBlock \/ CheckQueue,
         queue' \in Seq(Packets)
  PROVE  QueueInv'
<1> DEFINE n == Cardinality(BlockPos(queue))
<1>0. /\ n \in Nat /\ n' \in Nat /\ Burst \in Nat /\ QueueLimit \in Nat /\ pending \in Nat
      /\ n <= Len(queue) /\ Len(queue) \in Nat
      /\ n <= QueueLimit + QueueRoom
  BY BlockPosBound, PacingAssumption DEF ShaperType, Burst, QueueInv
<1>1. Flush => n' <= n + Burst /\ pending' = 0
  BY QueueFlush DEF Flush
<1>2. NoFlush => n' = n
  BY DEF NoFlush, queueVars
<1> HIDE DEF n
<1>3. CASE ReadTCP
  <2>1. /\ rpc = "read" /\ rpc' = "check"
        /\ (NoFlush /\ pending' = pending + 1) \/ Flush
    BY <1>3 DEF ReadTCP
  <2>2. pending' \in Nat /\ n' <= QueueLimit + QueueRoom'
    BY <1>0, <1>1, <1>2, <2>1 DEF QueueRoom
  <2> QED
    BY <2>2 DEF QueueInv, n
<1>4. CASE ReadEOF
  <2>1. /\ rpc = "read" /\ rpc' \in {"gone", "drain"}
        /\ \/ NoFlush /\ pending' \in {pending, 0} /\ (pending' # 0 \/ pending = 0)
           \/ pending > 0 /\ Flush
    BY <1>0, <1>4 DEF ReadEOF, FlushIf
  <2>2. pending' \in Nat /\ n' <= QueueLimit + QueueRoom'
    BY <1>0, <1>1, <1>2, <2>1 DEF QueueRoom
  <2> QED
    BY <2>2 DEF QueueInv, n
<1>5. CASE FlushPendingBlock
  <2>1. /\ rpc' = rpc
        /\ \/ NoFlush /\ pending' = 0 /\ pending = 0
           \/ pending > 0 /\ Flush
    BY <1>0, <1>5 DEF FlushPendingBlock, FlushIf
  <2>2. pending' \in Nat /\ n' <= QueueLimit + QueueRoom'
    BY <1>0, <1>1, <1>2, <2>1 DEF QueueRoom
  <2> QED
    BY <2>2 DEF QueueInv, n
<1>6. CASE CheckQueue
  <2>1. Len(queue) <= QueueLimit /\ rpc' = "read" /\ queue' = queue /\ pending' = pending
    BY <1>6 DEF CheckQueue, shaperVars, queueVars
  <2>2. n' = n
    BY <2>1 DEF n
  <2>3. n' <= QueueLimit + QueueRoom'
    BY <1>0, <2>1, <2>2 DEF QueueRoom
  <2> QED
    BY <1>0, <2>1, <2>3 DEF QueueInv, n
<1> QED
  BY <1>3, <1>4, <1>5, <1>6

\* readTCPRun, backpressure (QueueBounded): for every limit and block size, and however
\* the block timer, the changes of the parity and retransmissions interleave with the
\* check of the queue and the blocking read after it, no more than two blocks are queued
\* beyond the limit.
THEOREM BackpressureHolds == Spec => []QueueBounded
<1> DEFINE Inv == ShaperType /\ SenderType /\ QueueInv
<1>1. Init => Inv
  <2> SUFFICES ASSUME Init PROVE QueueInv
    BY TypesInit
  <2>1. Len(queue) = 0 /\ pending = 0 /\ rpc = "check"
    BY DEF Init, NewShaper
  <2>2. BlockPos(queue) = {}
    BY <2>1 DEF BlockPos
  <2> QED
    BY <2>1, <2>2, FS_EmptySet, PacingAssumption DEF QueueInv, QueueRoom, Burst
<1>2. Inv /\ [Next]_vars => Inv'
  <2> SUFFICES ASSUME Inv, [Next]_vars PROVE Inv'
    OBVIOUS
  <2>1. ShaperType' /\ SenderType' /\ queue' \in Seq(Packets)
    BY TypesStep DEF ShaperType
  <2> QED
    BY <2>1, QueueOther, QueueFill
<1>3. Inv => QueueBounded
  <2> SUFFICES ASSUME Inv PROVE QueueBounded
    OBVIOUS
  <2>1. /\ QueueRoom <= 2 * (FEC_K + FEC_M) /\ QueueRoom \in Nat
        /\ QueueLimit \in Nat /\ FEC_K + FEC_M \in Nat
    BY PacingAssumption DEF QueueRoom, Burst, QueueInv
  <2>2. Cardinality(BlockPos(queue)) <= QueueLimit + QueueRoom /\ Cardinality(BlockPos(queue)) \in Nat
    BY BlockPosBound DEF QueueInv, ShaperType
  <2>3. Cardinality(BlockPos(queue)) <= QueueLimit + 2 * (FEC_K + FEC_M)
    BY <2>1, <2>2
  <2> QED
    BY <2>3 DEF QueueBounded, BlockPos
<1> QED
  BY <1>1, <1>2, <1>3, PTL DEF Spec
=============================================================================
