-------------------------------- MODULE Fifo --------------------------------
(***************************************************************************)
(* What the shaper promises its Session: a queue.  Packets are put in, one *)
(* or several at a time, and leave one at a time, in the order in which    *)
(* they were put in, each once.  A packet is its ordinal number.           *)
(***************************************************************************)
EXTENDS Naturals, Sequences

VARIABLES
  accepted,   \* packets put in so far
  sent        \* the packets that have left

vars == <<accepted, sent>>

Init == accepted = 0 /\ sent = <<>>

\* Shaper.Enqueue, Shaper.EnqueueMany: packets are appended.
Put ==
  /\ accepted' \in Nat /\ accepted' > accepted
  /\ UNCHANGED sent

\* Shaper.Run hands a packet to sendFn.
Get ==
  /\ Len(sent) < accepted
  /\ sent' = Append(sent, Len(sent) + 1)
  /\ UNCHANGED accepted

Next == Put \/ Get

Spec == Init /\ [][Next]_vars
=============================================================================
