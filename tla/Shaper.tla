------------------------------- MODULE Shaper -------------------------------
(***************************************************************************)
(* The token bucket shaper (shaper/shaper.go): a queue under the lock mu,  *)
(* its condition variable, and the goroutine Run that takes bursts from    *)
(* the queue and sends them.  The operations take their inputs as          *)
(* parameters; Pacing composes them with the Session that calls them.      *)
(*                                                                         *)
(* Time is counted in ticks.  nextReset is kept as the ticks still to go,  *)
(* and the clock does not move while Run hands a burst to the UDP socket.  *)
(* The radio link behind the socket is external: it carries one packet     *)
(* every pktTime ticks, and backlog is what it still has to carry.         *)
(***************************************************************************)
EXTENDS Integers, Sequences

VARIABLES
  queue,           \* packets waiting, [num |-> ordinal, grp |-> block]
  burstSize, burstInterval,
  stopped,
  cancelled,       \* the context of the Session is cancelled
  spc,             \* Run: "top", "waiting", "all", "sleep", "fetch", "send", "done"
  size, interval,  \* the parameters Run has read, 0 outside the iteration
  nextReset,       \* ticks until the next burst is allowed
  pkts,            \* the burst that is being sent
  accepted,        \* history: packets put into the queue
  sent,            \* history: ordinals of the packets sent
  pktTime,         \* ticks the link needs for a packet; 0: no bandwidth is set
  backlog          \* history: ticks the link needs for what it has not carried

queueVars  == <<queue, accepted>>
paramVars  == <<burstSize, burstInterval>>
runVars    == <<spc, size, interval, nextReset, pkts, sent, backlog>>
shaperVars == <<queueVars, paramVars, runVars, stopped, cancelled, pktTime>>

-----------------------------------------------------------------------------
NewShaper(b, i) ==
  /\ queue = <<>> /\ burstSize = b /\ burstInterval = i
  /\ stopped = FALSE /\ cancelled = FALSE
  /\ spc = "top" /\ size = 0 /\ interval = 0 /\ nextReset = 0
  /\ pkts = <<>> /\ accepted = 0 /\ sent = <<>> /\ backlog = 0

\* Mutant: the sleeping loop is not signalled.
Unsignalled == UNCHANGED spc

\* cond.Signal, cond.Broadcast: Run is the only goroutine that waits.
Signal == spc' = IF spc = "waiting" THEN "top" ELSE spc

\* EnqueueMany, and Enqueue for n = 1: packets of block g, dropped once stopped.
EnqueueMany(n, g) ==
  IF stopped
    THEN UNCHANGED <<queueVars, spc>>
    ELSE /\ queue' = queue \o [j \in 1 .. n |-> [num |-> accepted + j, grp |-> g]]
         /\ accepted' = accepted + n
         /\ Signal

UpdateParams(b, i) == burstSize' = b /\ burstInterval' = i

\* Mutant: the loop is not woken.
StopQuietly == stopped' = TRUE /\ UNCHANGED spc

Stop == stopped' = TRUE /\ Signal

-----------------------------------------------------------------------------
(* Run.                                                                    *)

\* Under mu: sleep on an empty queue, end, or read the parameters.  Without an
\* interval everything is sent; before nextReset the loop has to wait.
RunTop ==
  /\ spc = "top"
  /\ spc' = IF stopped \/ cancelled THEN "done"
            ELSE IF queue = <<>> THEN "waiting"
            ELSE IF burstInterval <= 0 THEN "all"
            ELSE IF nextReset > 0 THEN "sleep"
            ELSE "fetch"
  /\ IF spc' \in {"done", "waiting"}
       THEN UNCHANGED <<size, interval>>
       ELSE size' = burstSize /\ interval' = burstInterval
  /\ UNCHANGED <<queueVars, paramVars, stopped, cancelled, pktTime,
                 nextReset, pkts, sent, backlog>>

\* No shaping: take the whole queue.
RunAll ==
  /\ spc = "all"
  /\ spc' = "send" /\ pkts' = queue /\ queue' = <<>>
  /\ UNCHANGED <<accepted, paramVars, stopped, cancelled, pktTime, size, interval,
                 nextReset, sent, backlog>>

\* The context is cancelled during the wait.
RunAbort ==
  /\ spc = "sleep" /\ cancelled
  /\ spc' = "done" /\ size' = 0 /\ interval' = 0
  /\ UNCHANGED <<queueVars, paramVars, stopped, cancelled, pktTime, nextReset, pkts,
                 sent, backlog>>

\* Mutant: the next burst is scheduled with the interval that is set by now.
CurrentInterval == burstInterval

\* The interval that goes with the burst.
BurstOwnInterval == interval

\* Mutant: the last packet of the burst stays in the queue.
RestFrom(n) == SubSeq(queue, n, Len(queue))

\* What a burst of n packets leaves in the queue.
Rest(n) == SubSeq(queue, n + 1, Len(queue))

\* Take a burst of the size read before the wait, and schedule the next one.
\* Nobody else takes packets, so the queue is not empty.
RunFetch ==
  LET n == IF Len(queue) > size THEN size ELSE Len(queue)
  IN  /\ spc = "fetch" \/ (spc = "sleep" /\ nextReset = 0)
      /\ spc' = "send"
      /\ pkts' = SubSeq(queue, 1, n) /\ queue' = Rest(n)
      /\ nextReset' = BurstOwnInterval
      /\ UNCHANGED <<accepted, paramVars, stopped, cancelled, pktTime, size, interval,
                     sent, backlog>>

\* Hand the next packet of the burst to sendFn; the rest is dropped on cancellation.
RunSend ==
  /\ spc = "send"
  /\ IF pkts = <<>> \/ cancelled
       THEN /\ spc' = IF pkts = <<>> THEN "top" ELSE "done"
            /\ size' = 0 /\ interval' = 0 /\ pkts' = <<>>
            /\ UNCHANGED <<sent, backlog>>
       ELSE /\ sent' = Append(sent, Head(pkts).num)
            /\ pkts' = Tail(pkts)
            /\ backlog' = backlog + pktTime
            /\ UNCHANGED <<spc, size, interval>>
  /\ UNCHANGED <<queueVars, paramVars, stopped, cancelled, pktTime, nextReset>>

RunStep == RunTop \/ RunAll \/ RunAbort \/ RunFetch \/ RunSend

\* External: a tick of the clock, during which the link carries packets.
Elapse ==
  /\ spc # "send"
  /\ nextReset' = IF nextReset > 0 THEN nextReset - 1 ELSE 0
  /\ backlog' = IF backlog > 0 THEN backlog - 1 ELSE 0
  /\ UNCHANGED <<queueVars, paramVars, stopped, cancelled, pktTime, spc, size, interval,
                 pkts, sent>>
=============================================================================
