--------------------------- MODULE TeardownProofs ---------------------------
(***************************************************************************)
(* No wake-up of the write loop is lost, for any number of blocks.         *)
(***************************************************************************)
EXTENDS Teardown, TLAPS

\* The write loop has found that it must wait, and may not have gone to sleep yet.
Decided == wpc \in {"read", "decide", "wait"}

HandlerWakes == dpc \in {"wake", "wakeBoth"}
CloseWakes   == \E a \in Callers : closing[a] \in {"stop", "wake"}

\* The write loop holds muRecv from the check to the decision.
LockInv == muRecv = "writer" <=> wpc \in {"check", "read", "decide"}

\* What the write loop has found stays true, or whoever changes it has still to take
\* muRecv and wake it.
WakeInv ==
  /\ TypeOK /\ LockInv
  /\ wpc \in {"write", "clean"} => written + 1 \in Blocks
  /\ Decided => ~NextDecoded
  /\ Decided /\ cancelled => CloseWakes
  /\ wpc = "decide" /\ closeRecv /\ ~seen => HandlerWakes
  /\ wpc = "wait" /\ closeRecv /\ Unseen = {} => HandlerWakes

USE DEF Callers

\* The invariant holds initially.
LEMMA WakeInit == Init => WakeInv
<1> SUFFICES ASSUME Init PROVE WakeInv
  OBVIOUS
<1>1. TypeOK
  <2>1. written \in 0 .. MaxBlocks
    BY TeardownAssumption DEF Init
  <2>2. /\ rxBlocks \in [Blocks -> {"none", "partial", "decoded"}]
        /\ closing \in [Callers -> {"no", "stop", "wake", "done"}]
    BY DEF Init
  <2>3. /\ closeRecv \in BOOLEAN /\ closeSent \in BOOLEAN /\ recvClosed \in BOOLEAN
        /\ cancelled \in BOOLEAN /\ connClosed \in BOOLEAN /\ seen \in BOOLEAN /\ aborted \in BOOLEAN
    BY Zenon DEF Init
  <2> QED
    BY <2>1, <2>2, <2>3 DEF Init, TypeOK
<1> QED
  BY <1>1 DEF Init, WakeInv, LockInv, Decided

\* Steps of a call of Close.
LEMMA WakeClose ==
  ASSUME WakeInv, NEW a \in Callers, CloseStop(a) \/ CloseWake(a)
  PROVE  WakeInv'
<1>1. CASE CloseStop(a)
  <2>1. UNCHANGED <<rxBlocks, closeRecv, closeSent, writerVars, rpc, cpc, dpc, cancelled, aborted>>
    BY <1>1 DEF CloseStop
  <2>2. TypeOK'
    BY <1>1, <2>1 DEF CloseStop, WakeInv, TypeOK, writerVars
  <2>3. Decided' /\ cancelled' => CloseWakes'
    BY <1>1, <2>1 DEF CloseStop, WakeInv, TypeOK, writerVars, CloseWakes, Decided
  <2> QED
    BY <2>1, <2>2, <2>3
       DEF WakeInv, LockInv, Decided, NextDecoded, Unseen, HandlerWakes, writerVars
<1>2. CASE CloseWake(a)
  <2>1. /\ UNCHANGED <<rxBlocks, closeRecv, closeSent, muRecv, seen, written, recvClosed, rpc,
                       cpc, dpc, cancelled, connClosed, aborted>>
        /\ muRecv = "free" /\ Broadcast /\ closing' = [closing EXCEPT ![a] = "done"]
    BY <1>2 DEF CloseWake
  <2>2. TypeOK'
    BY <2>1 DEF Broadcast, WakeInv, TypeOK
  <2>3. wpc' \notin {"check", "read", "decide", "wait"}
    BY <2>1 DEF Broadcast, WakeInv, LockInv
  <2>4. LockInv' /\ ~Decided' /\ (wpc' \in {"write", "clean"} => wpc' = wpc)
    BY <2>1, <2>3 DEF Broadcast, LockInv, Decided
  <2> QED
    BY <2>1, <2>2, <2>3, <2>4 DEF WakeInv
<1> QED
  BY <1>1, <1>2

\* Steps of the write loop.
LEMMA WakeWriter ==
  ASSUME WakeInv, Writer \/ WriteBlock \/ WriteFails
  PROVE  WakeInv'
<1>0. UNCHANGED <<rxBlocks, closeRecv, closeSent, rpc, cpc, dpc, closeVars>>
  BY DEF Writer, WriterLock, WriterCheck, WriterReadClose, WriterDecide, WriterClean,
         WriterExit, WriteBlock, WriteFails
<1>1. TypeOK'
  <2>1. CASE WriterClean
    BY <1>0, <2>1, TeardownAssumption DEF WriterClean, WakeInv, TypeOK, closeVars, Blocks
  <2>2. CASE WriteFails
    BY <1>0, <2>2 DEF WriteFails, WakeInv, TypeOK, closeVars
  <2>3. CASE WriterLock \/ WriterDecide \/ WriteBlock
    BY <1>0, <2>3 DEF WriterLock, WriterDecide, WriteBlock, WakeInv, TypeOK, closeVars
  <2>6. CASE WriterExit
    <3>1. recvClosed' \in BOOLEAN
      BY <2>6 DEF WriterExit
    <3> QED
      BY <1>0, <2>6, <3>1 DEF WriterExit, WakeInv, TypeOK, closeVars
  <2>4. CASE WriterCheck
    BY <1>0, <2>4 DEF WriterCheck, WakeInv, TypeOK, closeVars
  <2>5. CASE WriterReadClose
    BY <1>0, <2>5 DEF WriterReadClose, WakeInv, TypeOK, closeVars
  <2> QED
    BY <2>1, <2>2, <2>3, <2>4, <2>5, <2>6 DEF Writer
<1>2. CASE WriterLock \/ WriteBlock \/ WriteFails \/ WriterExit
  BY <1>0, <1>1, <1>2 DEF WriterLock, WriteBlock, WriteFails, WriterExit, WakeInv, LockInv,
                          Decided
<1>3. CASE WriterClean
  BY <1>1, <1>3 DEF WriterClean, WakeInv, LockInv, Decided
<1>4. CASE WriterCheck
  BY <1>0, <1>1, <1>4 DEF WriterCheck, WakeInv, LockInv, Decided, NextDecoded, closeVars
<1>5. CASE WriterReadClose
  BY <1>0, <1>1, <1>5 DEF WriterReadClose, WakeInv, LockInv, Decided, NextDecoded, closeVars,
                          CloseWakes
<1>6. CASE WriterDecide
  BY <1>0, <1>1, <1>6 DEF WriterDecide, WakeInv, LockInv, Decided, NextDecoded, closeVars,
                          CloseWakes, HandlerWakes, Unseen
<1> QED
  BY <1>2, <1>3, <1>4, <1>5, <1>6 DEF Writer

\* Steps of the read loop and the CLOSE goroutine, and the calls of Close by others.
LEMMA WakeSender ==
  ASSUME WakeInv, ReadEOF \/ ReadFails \/ Sender \/ CleanUp \/ HandleReset
  PROVE  WakeInv'
<1>1. /\ UNCHANGED <<rxBlocks, closeRecv, writerVars>>
      /\ dpc' # dpc => dpc \notin {"wake", "wakeBoth"}
  BY DEF ReadEOF, ReadFails, Sender, DeferredStep, SendClose, MarkCloseSent, RepeatEnds,
         CleanUp, HandleReset, Idle
<1>2. TypeOK'
  <2>1. CASE ReadEOF \/ DeferredStep \/ SendClose \/ RepeatEnds
    BY <1>1, <2>1 DEF ReadEOF, DeferredStep, SendClose, RepeatEnds, WakeInv, TypeOK, writerVars,
                      closeVars
  <2>2. CASE ReadFails
    BY <1>1, <2>2 DEF ReadFails, CloseCancel, WakeInv, TypeOK, writerVars
  <2>3. CASE MarkCloseSent
    <3>1. closeSent' \in BOOLEAN
      BY <2>3 DEF MarkCloseSent
    <3>2. /\ cancelled' \in BOOLEAN
          /\ closing' \in [Callers -> {"no", "stop", "wake", "done"}]
      BY <2>3, Zenon DEF MarkCloseSent, CloseCancel, WakeInv, TypeOK
    <3> QED
      BY <1>1, <2>3, <3>1, <3>2 DEF MarkCloseSent, WakeInv, TypeOK, writerVars
  <2>4. CASE CleanUp
    BY <1>1, <2>4 DEF CleanUp, CloseCancel, WakeInv, TypeOK, writerVars
  <2>5. CASE HandleReset
    BY <1>1, <2>5 DEF HandleReset, CloseCancel, WakeInv, TypeOK, writerVars
  <2> QED
    BY <2>1, <2>2, <2>3, <2>4, <2>5 DEF Sender
<1>3. \/ UNCHANGED <<cancelled, closing>>
      \/ \E a \in Callers : CloseCancel(a)
  BY DEF ReadEOF, ReadFails, Sender, DeferredStep, SendClose, MarkCloseSent, RepeatEnds,
         CleanUp, HandleReset, closeVars
<1>4. Decided' /\ cancelled' => CloseWakes'
  <2>1. CASE UNCHANGED <<cancelled, closing>>
    BY <1>1, <2>1 DEF WakeInv, Decided, CloseWakes, writerVars
  <2>2. ASSUME NEW a \in Callers, CloseCancel(a) PROVE CloseWakes'
    BY <2>2 DEF CloseCancel, CloseWakes, WakeInv, TypeOK
  <2> QED
    BY <1>3, <2>1, <2>2, Zenon
<1> QED
  BY <1>1, <1>2, <1>4 DEF WakeInv, LockInv, Decided, NextDecoded, Unseen, HandlerWakes, writerVars

\* A packet of a block.
LEMMA WakeData ==
  ASSUME WakeInv, NEW g \in Blocks, HandleDataPacket(g)
  PROVE  WakeInv'
<1>1. /\ UNCHANGED <<closeRecv, closeSent, muRecv, seen, written, recvClosed, rpc, cpc, dpc,
                     closeVars, aborted>>
      /\ muRecv = "free"
      /\ wpc' = wpc \/ Broadcast
  BY DEF HandleDataPacket
<1>2. TypeOK'
  BY DEF HandleDataPacket, Broadcast, WakeInv, TypeOK, closeVars
<1>3. LockInv' /\ wpc' \notin {"read", "decide"}
  BY <1>1 DEF WakeInv, LockInv, Broadcast
<1>4. ASSUME wpc' = "wait"
      PROVE  /\ wpc = "wait" /\ ~NextDecoded'
             /\ Unseen' = {} => Unseen = {}
  <2>1. rxBlocks[g] = "none" /\ rxBlocks' = [rxBlocks EXCEPT ![g] = "partial"] /\ wpc' = wpc
    BY <1>4 DEF HandleDataPacket, Broadcast
  <2>2. ~NextDecoded'
    BY <1>1, <1>4, <2>1 DEF WakeInv, Decided, NextDecoded, TypeOK
  <2>3. Unseen' = {} => Unseen = {}
    BY <1>1, <2>1 DEF Unseen, WakeInv, TypeOK
  <2> QED
    BY <1>4, <2>1, <2>2, <2>3
<1>5. wpc' \in {"write", "clean"} => wpc' = wpc
  BY <1>1 DEF Broadcast
<1> QED
  BY <1>1, <1>2, <1>3, <1>4, <1>5 DEF WakeInv, Decided, HandlerWakes, CloseWakes, closeVars

\* CLOSE, in its two sections.
LEMMA WakeHandleClose ==
  ASSUME WakeInv, HandleClose \/ HandleCloseWake
  PROVE  WakeInv'
<1>1. CASE HandleClose
  <2>1. TypeOK'
    BY <1>1 DEF HandleClose, WakeInv, TypeOK, writerVars, closeVars
  <2> QED
    BY <1>1, <2>1 DEF HandleClose, WakeInv, LockInv, Decided, NextDecoded, Unseen, HandlerWakes,
                      CloseWakes, writerVars, closeVars
<1>2. CASE HandleCloseWake
  <2>0. /\ cancelled' \in BOOLEAN
        /\ closing' \in [Callers -> {"no", "stop", "wake", "done"}]
    BY <1>2, Zenon DEF HandleCloseWake, CloseCancel, WakeInv, TypeOK
  <2>1. TypeOK'
    BY <1>2, <2>0 DEF HandleCloseWake, Broadcast, WakeInv, TypeOK
  <2>2. wpc' \notin {"check", "read", "decide", "wait"} /\ UNCHANGED <<muRecv, written, seen>>
    BY <1>2 DEF HandleCloseWake, Broadcast, WakeInv, LockInv
  <2>3. LockInv' /\ ~Decided' /\ (wpc' \in {"write", "clean"} => wpc' = wpc)
    BY <1>2, <2>2 DEF HandleCloseWake, Broadcast, WakeInv, LockInv, Decided
  <2> QED
    BY <2>1, <2>2, <2>3 DEF WakeInv
<1> QED
  BY <1>1, <1>2

\* The condition variable of writeTCPRun: whenever the write loop sleeps although it could
\* go on, a Broadcast of HandleClose or Close is still to come.
THEOREM NoWakeupLost == Spec => []NoMissedWakeup
<1>1. WakeInv /\ [Next]_vars => WakeInv'
  <2> SUFFICES ASSUME WakeInv, [Next]_vars PROVE WakeInv'
    OBVIOUS
  <2>1. CASE UNCHANGED vars
    BY <2>1 DEF vars, writerVars, closeVars, WakeInv, TypeOK, LockInv, Decided, NextDecoded,
                Unseen, HandlerWakes, CloseWakes
  <2>2. CASE Next
    BY <2>2, WakeClose, WakeWriter, WakeSender, WakeData, WakeHandleClose DEF Next
  <2> QED
    BY <2>1, <2>2
<1>2. WakeInv => NoMissedWakeup
  BY DEF WakeInv, NoMissedWakeup, CanProceed, WakePending, Decided, HandlerWakes, CloseWakes
<1> QED
  BY <1>1, <1>2, WakeInit, PTL DEF Spec
=============================================================================
