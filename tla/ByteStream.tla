----------------------------- MODULE ByteStream -----------------------------
(***************************************************************************)
(* What one direction of a tcp-pep-go session promises its two TCP         *)
(* endpoints: the segments read from the TCP connection at one PEP are     *)
(* written to the TCP connection at the other PEP in the order in which    *)
(* they were read, none altered, none repeated and none skipped.           *)
(*                                                                         *)
(* A segment is what one Conn.Read returned; the n-th one is the number n, *)
(* so the segments read so far are 1..nread.  There is no promise that a   *)
(* segment is ever written: that is liveness and belongs to the            *)
(* implementation's fairness.                                              *)
(***************************************************************************)
EXTENDS Naturals, Sequences

CONSTANT MaxReads     \* bound: segments read in one behaviour

VARIABLES nread,      \* number of segments read from the source connection
          out         \* segments written to the destination connection

vars == <<nread, out>>

Init == /\ nread = 0
        /\ out = <<>>

Read == /\ nread < MaxReads
        /\ nread' = nread + 1
        /\ UNCHANGED out

Deliver == /\ Len(out) < nread
           /\ out' = Append(out, Len(out) + 1)
           /\ UNCHANGED nread

Next == Read \/ Deliver

Spec == Init /\ [][Next]_vars
=============================================================================
