---------------------------- MODULE HeaderProofs ----------------------------
(***************************************************************************)
(* Unmarshal undoes Marshal, for every packet whose fields fit, and the    *)
(* shard index is the only field of a packet of data that need not fit.    *)
(***************************************************************************)
EXTENDS Header, TLAPS

IDs    == {n \in Nat : n < 4096}
UInt8  == {n \in Nat : n < 256}
UInt16 == {n \in Nat : n < 65536}
Addrs(Byte) == {a \in Seq(Byte) : Len(a) <= MaxAddr}

\* A packet, field by field; the packets of each type have zeros in the other fields.
Pkt(t, i, a, s, g, x, b, c, n) ==
  [type |-> t, id |-> i, addr |-> a, seq |-> s, grp |-> g, idx |-> x, kind |-> b,
   payload |-> c, losses |-> n]

AddrPkt(t, i, a)          == Pkt(t, i, a, 0, 0, 0, "data", <<>>, 0)
PlainPkt(t, i)            == Pkt(t, i, <<>>, 0, 0, 0, "data", <<>>, 0)
NakPkt(i, s)              == Pkt(TypeNak, i, <<>>, s, 0, 0, "data", <<>>, 0)
LqrPkt(i, g, n)           == Pkt(TypeLqr, i, <<>>, 0, g, 0, "data", <<>>, n)
DataPkt(i, s, g, x, b, c) == Pkt(TypeData, i, <<>>, s, g, x, b, c, 0)

USE DEF TypeConnect, TypeConnAck, TypeConnErr, TypeData, TypeClose, TypeReset, TypeNak, TypeLqr

\* The two bytes of a number.
LEMMA TwoBytes ==
  ASSUME NEW n \in Nat
  PROVE  Hi(n) \in Nat /\ Lo(n) \in 0 .. 255 /\ n = Hi(n) * 256 + Lo(n)
  BY DEF Hi, Lo

\* The type and the twelve bits of the StreamID share the first two bytes.
LEMMA BaseBytes ==
  ASSUME NEW t \in 0 .. 7, NEW i \in IDs
  PROVE  LET b1 == (t * 16 + Hi(i)) % 256
         IN  /\ b1 \in Nat /\ Lo(i) \in Nat
             /\ b1 \div 16 = t
             /\ (b1 % 16) * 256 + Lo(i) = i
<1>1. /\ Hi(i) \in 0 .. 15 /\ Lo(i) \in Nat /\ Hi(i) * 256 + Lo(i) = i
  <2>1. i \in Nat /\ i <= 4095
    BY DEF IDs
  <2>2. Hi(i) \in Nat /\ Lo(i) \in 0 .. 255 /\ i = Hi(i) * 256 + Lo(i)
    BY <2>1, TwoBytes
  <2> QED
    BY <2>1, <2>2
<1>2. ASSUME NEW h \in 0 .. 15
      PROVE  /\ (t * 16 + h) % 256 = t * 16 + h
             /\ (t * 16 + h) \div 16 = t
             /\ (t * 16 + h) % 16 = h
  OBVIOUS
<1> QED
  BY <1>1, <1>2

\* A group number is recovered from its two bytes.
LEMMA GroupBytes ==
  ASSUME NEW g \in UInt16
  PROVE  Hi(g) * 256 + Lo(g) = g
<1>1. g \in Nat
  BY DEF UInt16
<1> QED
  BY <1>1, TwoBytes

\* The byte with the index and the kind of a shard.
LEMMA ShardBits ==
  ASSUME NEW x \in UInt8, NEW b \in {"data", "parity"}
  PROVE  /\ ShardByte(x, b) \in Nat
         /\ ShardByte(x, b) \div 8 = x % 32
         /\ ShardKind(ShardByte(x, b)) = b
  BY DEF UInt8, ShardByte, ShardKind

\* A header of three bytes.
LEMMA Header3 ==
  ASSUME NEW p, NEW a, NEW h, h = Base(p) \o <<a>>
  PROVE  Len(h) = 3 /\ h[1] = Base(p)[1] /\ h[2] = Base(p)[2] /\ h[3] = a
  BY DEF Base

\* The base of a packet is recovered from any header that starts with it.
LEMMA BaseRead ==
  ASSUME NEW p, p.type \in 0 .. 7, p.id \in IDs
  PROVE  /\ Base(p)[1] \div 16 = p.type
         /\ (Base(p)[1] % 16) * 256 + Base(p)[2] = p.id
<1>1. Base(p)[1] = (p.type * 16 + Hi(p.id)) % 256 /\ Base(p)[2] = Lo(p.id)
  BY DEF Base
<1> QED
  BY <1>1, BaseBytes

\* The record Unmarshal starts from, and the fields it sets.
BaseOf(t, i) == [ZeroPacket EXCEPT !.type = t, !.id = i]

WithAddr(p, a)   == [p EXCEPT !.addr = a]
WithSeq(p, s)    == [p EXCEPT !.seq = s]
WithLqr(p, g, n) == [p EXCEPT !.grp = g, !.losses = n]
WithData(p, s, g, x, b, c) ==
  [p EXCEPT !.seq = s, !.grp = g, !.idx = x, !.kind = b, !.payload = c]

LEMMA BaseRecord ==
  ASSUME NEW t, NEW i
  PROVE  BaseOf(t, i) = PlainPkt(t, i)
<1>1. ZeroPacket = Pkt(0, 0, <<>>, 0, 0, 0, "data", <<>>, 0)
  BY Zenon DEF ZeroPacket, Pkt
<1>2. ASSUME NEW F
      PROVE  /\ [Pkt(0, 0, <<>>, 0, 0, 0, F, <<>>, 0) EXCEPT !.type = t]
                   = Pkt(t, 0, <<>>, 0, 0, 0, F, <<>>, 0)
             /\ [Pkt(t, 0, <<>>, 0, 0, 0, F, <<>>, 0) EXCEPT !.id = i]
                   = Pkt(t, i, <<>>, 0, 0, 0, F, <<>>, 0)
  BY SMT DEF Pkt
<1>3. [ZeroPacket EXCEPT !.type = t, !.id = i] = [[ZeroPacket EXCEPT !.type = t] EXCEPT !.id = i]
  BY Zenon
<1> QED
  BY <1>1, <1>2, <1>3, Zenon DEF PlainPkt, BaseOf

\* Setting one field of it.
LEMMA SetOne ==
  ASSUME NEW t, NEW i, NEW v
  PROVE  /\ WithAddr(PlainPkt(t, i), v) = AddrPkt(t, i, v)
         /\ WithSeq(PlainPkt(t, i), v) = Pkt(t, i, <<>>, v, 0, 0, "data", <<>>, 0)
<1>1. ASSUME NEW F
      PROVE  /\ [Pkt(t, i, <<>>, 0, 0, 0, F, <<>>, 0) EXCEPT !.addr = v]
                   = Pkt(t, i, v, 0, 0, 0, F, <<>>, 0)
             /\ [Pkt(t, i, <<>>, 0, 0, 0, F, <<>>, 0) EXCEPT !.seq = v]
                   = Pkt(t, i, <<>>, v, 0, 0, F, <<>>, 0)
  BY SMT DEF Pkt
<1> QED
  BY <1>1, Zenon DEF PlainPkt, AddrPkt, WithAddr, WithSeq

\* Setting the fields of an LQR.
LEMMA SetLqr ==
  ASSUME NEW i, NEW g, NEW n
  PROVE  WithLqr(PlainPkt(TypeLqr, i), g, n) = LqrPkt(i, g, n)
<1>1. ASSUME NEW F, NEW t
      PROVE  /\ [Pkt(t, i, <<>>, 0, 0, 0, F, <<>>, 0) EXCEPT !.grp = g]
                   = Pkt(t, i, <<>>, 0, g, 0, F, <<>>, 0)
             /\ [Pkt(t, i, <<>>, 0, g, 0, F, <<>>, 0) EXCEPT !.losses = n]
                   = Pkt(t, i, <<>>, 0, g, 0, F, <<>>, n)
  BY SMT DEF Pkt
<1>2. ASSUME NEW p
      PROVE  WithLqr(p, g, n) = [[p EXCEPT !.grp = g] EXCEPT !.losses = n]
  BY Zenon DEF WithLqr
<1>3. [PlainPkt(TypeLqr, i) EXCEPT !.grp = g] = Pkt(TypeLqr, i, <<>>, 0, g, 0, "data", <<>>, 0)
  BY <1>1, Zenon DEF PlainPkt
<1>4. [Pkt(TypeLqr, i, <<>>, 0, g, 0, "data", <<>>, 0) EXCEPT !.losses = n] = LqrPkt(i, g, n)
  BY <1>1, Zenon DEF LqrPkt
<1> QED
  BY <1>2, <1>3, <1>4, Zenon

\* Setting the fields of a packet of data.
LEMMA SetData ==
  ASSUME NEW t, NEW i, NEW s, NEW g, NEW x, NEW b, NEW c
  PROVE  WithData(PlainPkt(t, i), s, g, x, b, c) = Pkt(t, i, <<>>, s, g, x, b, c, 0)
<1> DEFINE p == PlainPkt(t, i)
<1>1. ASSUME NEW F
      PROVE  /\ [Pkt(t, i, <<>>, 0, 0, 0, F, <<>>, 0) EXCEPT !.seq = s]
                   = Pkt(t, i, <<>>, s, 0, 0, F, <<>>, 0)
             /\ [Pkt(t, i, <<>>, s, 0, 0, F, <<>>, 0) EXCEPT !.grp = g]
                   = Pkt(t, i, <<>>, s, g, 0, F, <<>>, 0)
             /\ [Pkt(t, i, <<>>, s, g, 0, F, <<>>, 0) EXCEPT !.idx = x]
                   = Pkt(t, i, <<>>, s, g, x, F, <<>>, 0)
             /\ [Pkt(t, i, <<>>, s, g, x, F, <<>>, 0) EXCEPT !.kind = b]
                   = Pkt(t, i, <<>>, s, g, x, b, <<>>, 0)
             /\ [Pkt(t, i, <<>>, s, g, x, b, <<>>, 0) EXCEPT !.payload = c]
                   = Pkt(t, i, <<>>, s, g, x, b, c, 0)
  BY SMT DEF Pkt
<1>2. [[[p EXCEPT !.seq = s] EXCEPT !.grp = g] EXCEPT !.idx = x]
        = Pkt(t, i, <<>>, s, g, x, "data", <<>>, 0)
  BY <1>1, Zenon DEF PlainPkt
<1>3. [[[[[p EXCEPT !.seq = s] EXCEPT !.grp = g] EXCEPT !.idx = x] EXCEPT !.kind = b]
        EXCEPT !.payload = c] = Pkt(t, i, <<>>, s, g, x, b, c, 0)
  BY <1>1, <1>2, Zenon
<1> HIDE DEF p
<1>4. [p EXCEPT !.seq = s, !.grp = g, !.idx = x, !.kind = b, !.payload = c]
        = [[[[[p EXCEPT !.seq = s] EXCEPT !.grp = g] EXCEPT !.idx = x] EXCEPT !.kind = b]
             EXCEPT !.payload = c]
  BY Zenon
<1> QED
  BY <1>3, <1>4, Zenon DEF p, WithData

\* The longer headers.
LqrHeader(p)  == Base(p) \o <<Hi(p.grp), Lo(p.grp), p.losses, 0>>
DataHeader(p) == Base(p) \o <<p.seq, Hi(p.grp), Lo(p.grp), ShardByte(p.idx, p.kind)>>

\* The branches of Marshal.
LEMMA MarshalAddr ==
  ASSUME NEW p, p.type \in {TypeConnect, TypeConnErr}, ~(p.id > 4095), ~(Len(p.addr) > MaxAddr)
  PROVE  Marshal(p) = [hdr |-> Base(p) \o <<Len(p.addr)>>, body |-> p.addr]
  BY DEF Marshal

LEMMA MarshalPlain ==
  ASSUME NEW p, p.type \in {TypeConnAck, TypeClose, TypeReset}, ~(p.id > 4095)
  PROVE  Marshal(p) = [hdr |-> Base(p), body |-> <<>>]
  BY DEF Marshal

LEMMA MarshalNak ==
  ASSUME NEW p, p.type = TypeNak, ~(p.id > 4095)
  PROVE  Marshal(p) = [hdr |-> Base(p) \o <<p.seq>>, body |-> <<>>]
  BY DEF Marshal

LEMMA MarshalLqr ==
  ASSUME NEW p, p.type = TypeLqr, ~(p.id > 4095)
  PROVE  Marshal(p) = [hdr |-> LqrHeader(p), body |-> <<>>]
  BY DEF Marshal, LqrHeader

LEMMA MarshalData ==
  ASSUME NEW p, p.type = TypeData, ~(p.id > 4095)
  PROVE  Marshal(p) = [hdr |-> DataHeader(p), body |-> p.payload]
  BY DEF Marshal, DataHeader

\* The branches of Unmarshal.
LEMMA UnmarshalAddr ==
  ASSUME NEW h, NEW a, Len(h) = 3, ~(Len(a) < h[3]), h[1] \div 16 \in {TypeConnect, TypeConnErr}
  PROVE  Unmarshal([hdr |-> h, body |-> a])
           = WithAddr(BaseOf(h[1] \div 16, (h[1] % 16) * 256 + h[2]),
                      AddrField([hdr |-> h, body |-> a]))
  BY DEF Unmarshal, BaseOf, WithAddr

LEMMA UnmarshalPlain ==
  ASSUME NEW h, NEW a, Len(h) = 2, h[1] \div 16 \in {TypeConnAck, TypeClose, TypeReset}
  PROVE  Unmarshal([hdr |-> h, body |-> a])
           = BaseOf(h[1] \div 16, (h[1] % 16) * 256 + h[2])
<1>1. /\ ~(Len(h) < 2) /\ h[1] \div 16 \notin {TypeConnect, TypeConnErr}
      /\ h[1] \div 16 # TypeData /\ h[1] \div 16 # TypeNak /\ h[1] \div 16 # TypeLqr
  OBVIOUS
<1> QED
  BY <1>1, Zenon DEF Unmarshal, BaseOf

LEMMA UnmarshalNak ==
  ASSUME NEW h, NEW a, Len(h) = 3, h[1] \div 16 = TypeNak
  PROVE  Unmarshal([hdr |-> h, body |-> a])
           = WithSeq(BaseOf(h[1] \div 16, (h[1] % 16) * 256 + h[2]), h[3])
  BY DEF Unmarshal, BaseOf, WithSeq

LEMMA UnmarshalLqr ==
  ASSUME NEW h, NEW a, Len(h) = 6, h[1] \div 16 = TypeLqr
  PROVE  Unmarshal([hdr |-> h, body |-> a])
           = WithLqr(BaseOf(h[1] \div 16, (h[1] % 16) * 256 + h[2]), h[3] * 256 + h[4], h[5])
  BY DEF Unmarshal, BaseOf, WithLqr

LEMMA UnmarshalData ==
  ASSUME NEW h, NEW a, Len(h) = 6, h[1] \div 16 = TypeData
  PROVE  Unmarshal([hdr |-> h, body |-> a])
           = WithData(BaseOf(h[1] \div 16, (h[1] % 16) * 256 + h[2]),
                      h[3], h[4] * 256 + h[5], h[6] \div 8,
                      ShardKind(h[6]), a)
<1>1. /\ ~(Len(h) < 2) /\ ~(Len(h) < 6) /\ h[1] \div 16 \notin {TypeConnect, TypeConnErr}
      /\ h[1] \div 16 \notin {TypeConnAck, TypeClose, TypeReset}
      /\ h[1] \div 16 # TypeNak /\ h[1] \div 16 # TypeLqr
  OBVIOUS
<1> QED
  BY <1>1, Zenon DEF Unmarshal, BaseOf, WithData

\* CONNECT and CONN_ERR.
LEMMA AddrRoundTrip ==
  ASSUME NEW Byte, NEW t \in {TypeConnect, TypeConnErr}, NEW i \in IDs, NEW a \in Addrs(Byte)
  PROVE  Unmarshal(Marshal(AddrPkt(t, i, a))) = AddrPkt(t, i, a)
<1>p. PICK p : p = AddrPkt(t, i, a)
  OBVIOUS
<1>n. PICK n : n = Len(a)
  BY Zenon
<1>h. PICK h : h = Base(p) \o <<n>>
  BY Zenon
<1>d. PICK d : d = [hdr |-> h, body |-> a]
  BY Zenon
<1>1. p.type = t /\ p.id = i /\ p.addr = a
  BY <1>p, Zenon DEF AddrPkt, Pkt
<1>2. a \in Seq(Byte) /\ ~(p.id > 4095) /\ ~(Len(p.addr) > MaxAddr) /\ p.type \in 0 .. 7 /\ p.id \in IDs
  BY <1>1, HeaderAssumption DEF Addrs, IDs
<1>3. Marshal(p) = d
  BY <1>1, <1>2, <1>n, <1>h, <1>d, MarshalAddr
<1>4. Len(h) = 3 /\ h[1] = Base(p)[1] /\ h[2] = Base(p)[2] /\ h[3] = n
  BY <1>h, Header3
<1>5. h[1] \div 16 = t /\ (h[1] % 16) * 256 + h[2] = i
  BY <1>1, <1>2, <1>4, BaseRead
<1>6. AddrField(d) = a /\ ~(Len(a) < h[3])
  BY <1>2, <1>4, <1>n, <1>d DEF AddrField
<1>7. Unmarshal(d) = WithAddr(BaseOf(t, i), a)
  <2>1. Unmarshal([hdr |-> h, body |-> a])
          = WithAddr(BaseOf(h[1] \div 16, (h[1] % 16) * 256 + h[2]),
                     AddrField([hdr |-> h, body |-> a]))
    BY <1>4, <1>5, <1>6, UnmarshalAddr
  <2> QED
    BY <2>1, <1>d, <1>5, <1>6, Zenon
<1>8. BaseOf(t, i) = PlainPkt(t, i)
  BY BaseRecord
<1>9. WithAddr(PlainPkt(t, i), a) = AddrPkt(t, i, a)
  BY SetOne
<1> QED
  BY <1>p, <1>3, <1>7, <1>8, <1>9, Zenon

\* CONN_ACK, CLOSE and RESET.
LEMMA PlainRoundTrip ==
  ASSUME NEW t \in {TypeConnAck, TypeClose, TypeReset}, NEW i \in IDs
  PROVE  Unmarshal(Marshal(PlainPkt(t, i))) = PlainPkt(t, i)
<1>p. PICK p : p = PlainPkt(t, i)
  OBVIOUS
<1>h. PICK h : h = Base(p)
  OBVIOUS
<1>d. PICK d : d = [hdr |-> h, body |-> <<>>]
  BY Zenon
<1>1. p.type = t /\ p.id = i
  BY <1>p, Zenon DEF PlainPkt, Pkt
<1>2. ~(p.id > 4095) /\ p.type \in 0 .. 7 /\ p.id \in IDs
  BY <1>1 DEF IDs
<1>3. Marshal(p) = d
  BY <1>1, <1>2, <1>h, <1>d, MarshalPlain
<1>4. Len(h) = 2
  BY <1>h DEF Base
<1>5. h[1] \div 16 = t /\ (h[1] % 16) * 256 + h[2] = i
  BY <1>h, <1>1, <1>2, BaseRead
<1>6. Unmarshal(d) = BaseOf(t, i)
  <2>1. Unmarshal([hdr |-> h, body |-> <<>>])
          = BaseOf(h[1] \div 16, (h[1] % 16) * 256 + h[2])
    BY <1>4, <1>5, UnmarshalPlain, Zenon
  <2> QED
    BY <2>1, <1>5, <1>d, Zenon
<1> QED
  BY <1>p, <1>3, <1>6, BaseRecord, Zenon

\* NAK.
LEMMA NakRoundTrip ==
  ASSUME NEW i \in IDs, NEW s \in UInt8
  PROVE  Unmarshal(Marshal(NakPkt(i, s))) = NakPkt(i, s)
<1>p. PICK p : p = NakPkt(i, s)
  OBVIOUS
<1>h. PICK h : h = Base(p) \o <<s>>
  BY Zenon
<1>d. PICK d : d = [hdr |-> h, body |-> <<>>]
  BY Zenon
<1>1. p.type = TypeNak /\ p.id = i /\ p.seq = s
  BY <1>p, Zenon DEF NakPkt, Pkt
<1>2. ~(p.id > 4095) /\ p.type \in 0 .. 7 /\ p.id \in IDs
  BY <1>1 DEF IDs
<1>3. Marshal(p) = d
  BY <1>1, <1>2, <1>h, <1>d, MarshalNak
<1>4. Len(h) = 3 /\ h[1] = Base(p)[1] /\ h[2] = Base(p)[2] /\ h[3] = s
  BY <1>h, Header3
<1>5. h[1] \div 16 = TypeNak /\ (h[1] % 16) * 256 + h[2] = i
  BY <1>1, <1>2, <1>4, BaseRead
<1>6. Unmarshal(d) = WithSeq(BaseOf(TypeNak, i), s)
  <2>1. Unmarshal([hdr |-> h, body |-> <<>>])
          = WithSeq(BaseOf(h[1] \div 16, (h[1] % 16) * 256 + h[2]), h[3])
    BY <1>4, <1>5, UnmarshalNak, Zenon
  <2> QED
    BY <2>1, <1>4, <1>5, <1>d, Zenon
<1> QED
  BY <1>p, <1>3, <1>6, BaseRecord, SetOne, Zenon DEF NakPkt

\* LQR.
LEMMA LqrRoundTrip ==
  ASSUME NEW i \in IDs, NEW g \in UInt16, NEW n \in UInt8
  PROVE  Unmarshal(Marshal(LqrPkt(i, g, n))) = LqrPkt(i, g, n)
<1>p. PICK p : p = LqrPkt(i, g, n)
  OBVIOUS
<1>h. PICK h : h = LqrHeader(p)
  OBVIOUS
<1>d. PICK d : d = [hdr |-> h, body |-> <<>>]
  BY Zenon
<1>1. p.type = TypeLqr /\ p.id = i /\ p.grp = g /\ p.losses = n
  BY <1>p, Zenon DEF LqrPkt, Pkt
<1>2. ~(p.id > 4095) /\ p.type \in 0 .. 7 /\ p.id \in IDs
  BY <1>1 DEF IDs
<1>3. Marshal(p) = d
  BY <1>1, <1>2, <1>h, <1>d, MarshalLqr
<1>4. /\ Len(h) = 6 /\ h[1] = Base(p)[1] /\ h[2] = Base(p)[2]
      /\ h[3] = Hi(g) /\ h[4] = Lo(g) /\ h[5] = n
  BY <1>1, <1>h DEF Base, LqrHeader
<1>5. h[1] \div 16 = TypeLqr /\ (h[1] % 16) * 256 + h[2] = i
  BY <1>1, <1>2, <1>4, BaseRead
<1>6. h[3] * 256 + h[4] = g
  BY <1>4, GroupBytes
<1>7. Unmarshal(d) = WithLqr(BaseOf(TypeLqr, i), g, n)
  <2>1. Unmarshal([hdr |-> h, body |-> <<>>])
          = WithLqr(BaseOf(h[1] \div 16, (h[1] % 16) * 256 + h[2]), h[3] * 256 + h[4], h[5])
    BY <1>4, <1>5, UnmarshalLqr, Zenon
  <2> QED
    BY <2>1, <1>4, <1>5, <1>6, <1>d, Zenon
<1> QED
  BY <1>p, <1>3, <1>7, BaseRecord, SetLqr, Zenon

\* Header, Marshal and Unmarshal: for every control packet whose fields have the widths of
\* the Go types, StreamID in twelve bits and address or message no longer than a byte can
\* say, the receiver gets the packet that was sent.
THEOREM ControlRoundTrip ==
  ASSUME NEW Byte, NEW i \in IDs
  PROVE  /\ \A t \in {TypeConnect, TypeConnErr}, a \in Addrs(Byte) :
              Unmarshal(Marshal(AddrPkt(t, i, a))) = AddrPkt(t, i, a)
         /\ \A t \in {TypeConnAck, TypeClose, TypeReset} :
              Unmarshal(Marshal(PlainPkt(t, i))) = PlainPkt(t, i)
         /\ \A s \in UInt8 : Unmarshal(Marshal(NakPkt(i, s))) = NakPkt(i, s)
         /\ \A g \in UInt16, n \in UInt8 : Unmarshal(Marshal(LqrPkt(i, g, n))) = LqrPkt(i, g, n)
  BY AddrRoundTrip, PlainRoundTrip, NakRoundTrip, LqrRoundTrip, Zenon

\* Header, Marshal and Unmarshal: a packet of data arrives as it was sent, except that
\* only five bits of the shard index do.
THEOREM DataRoundTrip ==
  ASSUME NEW i \in IDs, NEW s \in UInt8, NEW g \in UInt16, NEW x \in UInt8, NEW b \in {"data", "parity"},
         NEW c
  PROVE  Unmarshal(Marshal(DataPkt(i, s, g, x, b, c))) = DataPkt(i, s, g, x % 32, b, c)
<1>p. PICK p : p = DataPkt(i, s, g, x, b, c)
  OBVIOUS
<1>h. PICK h : h = DataHeader(p)
  OBVIOUS
<1>d. PICK d : d = [hdr |-> h, body |-> c]
  BY Zenon
<1>1. /\ p.type = TypeData /\ p.id = i /\ p.seq = s /\ p.grp = g /\ p.idx = x /\ p.kind = b
      /\ p.payload = c
  BY <1>p, Zenon DEF DataPkt, Pkt
<1>2. ~(p.id > 4095) /\ p.type \in 0 .. 7 /\ p.id \in IDs
  BY <1>1 DEF IDs
<1>3. Marshal(p) = d
  BY <1>1, <1>2, <1>h, <1>d, MarshalData
<1>4. /\ Len(h) = 6 /\ h[1] = Base(p)[1] /\ h[2] = Base(p)[2]
      /\ h[3] = s /\ h[4] = Hi(g) /\ h[5] = Lo(g) /\ h[6] = ShardByte(x, b)
  BY <1>1, <1>h DEF Base, DataHeader
<1>5. h[1] \div 16 = TypeData /\ (h[1] % 16) * 256 + h[2] = i
  BY <1>1, <1>2, <1>4, BaseRead
<1>6. /\ h[4] * 256 + h[5] = g
      /\ h[6] \div 8 = x % 32 /\ ShardKind(h[6]) = b
  BY <1>4, GroupBytes, ShardBits
<1>7. Unmarshal(d) = WithData(BaseOf(TypeData, i), s, g, x % 32, b, c)
  <2>1. Len(h) = 6 /\ h[1] \div 16 = TypeData
    BY <1>4, <1>5
  <2>2. Unmarshal([hdr |-> h, body |-> c])
          = WithData(BaseOf(h[1] \div 16, (h[1] % 16) * 256 + h[2]),
                     h[3], h[4] * 256 + h[5], h[6] \div 8,
                     ShardKind(h[6]), c)
    BY <2>1, UnmarshalData, Zenon
  <2>3. h[1] \div 16 = TypeData /\ (h[1] % 16) * 256 + h[2] = i /\ h[3] = s
    BY <1>4, <1>5
  <2> QED
    BY <2>2, <2>3, <1>6, <1>d
<1>8. BaseOf(TypeData, i) = PlainPkt(TypeData, i)
  BY BaseRecord
<1>9. WithData(PlainPkt(TypeData, i), s, g, x % 32, b, c) = DataPkt(i, s, g, x % 32, b, c)
  BY SetData, Zenon DEF DataPkt
<1> QED
  BY <1>p, <1>3, <1>7, <1>8, <1>9, Zenon
=============================================================================
