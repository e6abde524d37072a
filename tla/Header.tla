------------------------------- MODULE Header -------------------------------
(***************************************************************************)
(* The packet format (protocol/header.go).  A datagram is its header       *)
(* bytes, at their real width, and its body: the bytes of an address, an   *)
(* error message or a payload, which are copied and never looked into, so  *)
(* only their number and order matter.                                     *)
(***************************************************************************)
EXTENDS Naturals, Sequences

CONSTANT MaxAddr      \* longest address or message; 255 in the code

ASSUME HeaderAssumption == MaxAddr \in Nat /\ MaxAddr < 256

TypeConnect == 0
TypeConnAck == 1
TypeConnErr == 2
TypeData    == 3
TypeClose   == 4
TypeReset   == 5
TypeNak     == 6
TypeLqr     == 7

\* protocol.Packet: the fields a type does not use are zero; kind is IsParity.
ZeroPacket == [type |-> 0, id |-> 0, addr |-> <<>>, seq |-> 0, grp |-> 0, idx |-> 0,
               kind |-> "data", payload |-> <<>>, losses |-> 0]

NoPacket   == [ZeroPacket EXCEPT !.type = 16]         \* an error of Unmarshal
NoDatagram == [hdr |-> <<>>, body |-> <<>>]           \* an error of Marshal

-----------------------------------------------------------------------------
Hi(n) == n \div 256
Lo(n) == n % 256

Base(p) == <<(p.type * 16 + Hi(p.id)) % 256, Lo(p.id)>>

\* Mutant: four bits for the index.
ShardByteNarrow(idx, kind) == ((idx % 16) * 8 + (IF kind = "parity" THEN 2 ELSE 1)) % 256

\* (p.Idx << 3) | tVal: the byte has room for five bits of the index.
ShardByte(idx, kind) == (idx * 8 + (IF kind = "parity" THEN 2 ELSE 1)) % 256

Marshal(p) ==
  IF p.id > 4095 THEN NoDatagram
  ELSE CASE p.type \in {TypeConnect, TypeConnErr} ->
              IF Len(p.addr) > MaxAddr
                THEN NoDatagram
                ELSE [hdr |-> Base(p) \o <<Len(p.addr)>>, body |-> p.addr]
         [] p.type \in {TypeConnAck, TypeClose, TypeReset} ->
              [hdr |-> Base(p), body |-> <<>>]
         [] p.type = TypeData ->
              [hdr  |-> Base(p) \o <<p.seq, Hi(p.grp), Lo(p.grp), ShardByte(p.idx, p.kind)>>,
               body |-> p.payload]
         [] p.type = TypeNak ->
              [hdr |-> Base(p) \o <<p.seq>>, body |-> <<>>]
         [] p.type = TypeLqr ->
              [hdr |-> Base(p) \o <<Hi(p.grp), Lo(p.grp), p.losses, 0>>, body |-> <<>>]
         [] OTHER -> NoDatagram

\* buf[5] & 0x07
ShardKind(b) == IF b % 8 = 2 THEN "parity" ELSE "data"

\* Mutant: the last byte of an address is left out.
AddrFieldShort(d) == SubSeq(d.body, 1, d.hdr[3] - 1)

\* buf[3 : 3+length]
AddrField(d) == SubSeq(d.body, 1, d.hdr[3])

Unmarshal(d) ==
  LET h    == d.hdr
      type == h[1] \div 16
      base == [ZeroPacket EXCEPT !.type = type, !.id = (h[1] % 16) * 256 + h[2]]
  IN  IF Len(h) < 2 THEN NoPacket
      ELSE CASE type \in {TypeConnect, TypeConnErr} ->
                  IF Len(h) < 3 \/ Len(d.body) < h[3]
                    THEN NoPacket
                    ELSE [base EXCEPT !.addr = AddrField(d)]
             [] type \in {TypeConnAck, TypeClose, TypeReset} -> base
             [] type = TypeData ->
                  IF Len(h) < 6
                    THEN NoPacket
                    ELSE [base EXCEPT !.seq = h[3], !.grp = h[4] * 256 + h[5],
                                      !.idx = h[6] \div 8,
                                      !.kind = ShardKind(h[6]), !.payload = d.body]
             [] type = TypeNak ->
                  IF Len(h) < 3 THEN NoPacket ELSE [base EXCEPT !.seq = h[3]]
             [] type = TypeLqr ->
                  IF Len(h) < 6
                    THEN NoPacket
                    ELSE [base EXCEPT !.grp = h[3] * 256 + h[4], !.losses = h[5]]
             [] OTHER -> NoPacket
=============================================================================
