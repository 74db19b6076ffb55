------------------------- MODULE JeuxProtocolProofs --------------------------
(***************************************************************************)
(* PacketsFramed for every set of packets, every size of the header, of    *)
(* the payloads and of the socket, and however read() and write() cut the  *)
(* stream.                                                                 *)
(*                                                                         *)
(* The invariant counts bytes from the beginning of the connection: st[k]  *)
(* is the position at which the k-th packet in the order of the lock       *)
(* starts.  The reader, the bytes in the socket and the writer each have a *)
(* position in that count, and a byte's position tells its packet and its  *)
(* offset.                                                                 *)
(***************************************************************************)
EXTENDS JeuxProtocol, SequenceTheorems, TLAPS

Byte == Packets \X Nat

(* What the variables hold. *)
TypeOK ==
  /\ chan \in Seq(Byte) /\ closed \in BOOLEAN
  /\ (lock = {} \/ \E p \in Packets : lock = {p})
  /\ nwritten \in Nat /\ order \in Seq(Packets)
  /\ hdr \in Seq(Byte) /\ payload \in Seq(Byte)
  /\ rpc \in {"hdr", "payload", "end"}
  /\ received \in Seq([hdr : Seq(Byte), payload : Seq(Byte)])

(* The lengths and the elements that the positions are about.  The proofs  *)
(* below reason about these and expand no sequence.                        *)
nOrder    == Len(order)
nReceived == Len(received)
nHdr      == Len(hdr)
nPayload  == Len(payload)
nChan     == Len(chan)
Pkt(k)        == order[k]
Size(k)       == Total(order[k])
HdrByte(i)     == hdr[i]
PayloadByte(i) == payload[i]
ChanByte(i)    == chan[i]
Received(i)    == received[i]

(* The packets follow one another without a gap. *)
StartsInv(st) ==
  /\ st[1] = 0
  /\ \A k \in 1..nOrder : st[k + 1] = st[k] + Size(k)
  /\ \A k, l \in 1..(nOrder + 1) : k < l => st[k + 1] <= st[l]

ReadPos(st) == st[nReceived + 1] + nHdr + nPayload

(* Until the connection ends, everything before the writer's position has  *)
(* been written: whole packets, and the first bytes of the one the lock is *)
(* held for.                                                               *)
WriterInv(st) ==
  /\ ReadPos(st) + nChan <= st[nOrder + 1]
  /\ closed \/ \/ lock = {} /\ ReadPos(st) + nChan = st[nOrder + 1]
               \/ /\ nOrder >= 1 /\ lock = {Pkt(nOrder)} /\ nwritten <= Size(nOrder)
                  /\ ReadPos(st) + nChan = st[nOrder] + nwritten

(* What proto_recv_packet has read belongs to the packet that is next. *)
ReaderInv ==
  /\ nHdr > 0 => nReceived < nOrder
  /\ nHdr <= HdrSize
  /\ \A i \in 1..nHdr : HdrByte(i) = <<Pkt(nReceived + 1), i - 1>>
  /\ \A i \in 1..nPayload : PayloadByte(i) = <<Pkt(nReceived + 1), HdrSize + i - 1>>
  /\ nPayload > 0 => nHdr = HdrSize /\ rpc = "payload"
  /\ rpc = "payload" => /\ nHdr > 0 /\ (nHdr = HdrSize \/ AtEOF)
                        /\ HdrSize + nPayload <= Size(nReceived + 1)

(* A byte in the socket is the one that its position calls for. *)
ChanInv(st) ==
  \A i \in 1..nChan, k \in 1..nOrder, off \in Nat :
    (st[k] + off < st[k + 1] /\ st[k] + off = ReadPos(st) + i - 1)
      => ChanByte(i) = <<Pkt(k), off>>

Frame(st) == StartsInv(st) /\ WriterInv(st) /\ ReaderInv /\ ChanInv(st)

AllWhole == \A i \in 1..nReceived : Received(i) = Whole(Pkt(i))

(* The last packet was cut short by the end of the connection. *)
Cut ==
  /\ nReceived >= 1 /\ AtEOF /\ nHdr = 0 /\ nPayload = 0 /\ rpc # "payload"
  /\ \A i \in 1..(nReceived - 1) : Received(i) = Whole(Pkt(i))
  /\ IsPrefix(Received(nReceived).hdr, Whole(Pkt(nReceived)).hdr)
  /\ IsPrefix(Received(nReceived).payload, Whole(Pkt(nReceived)).payload)

FramedInv ==
  /\ TypeOK /\ nReceived <= nOrder
  /\ \/ Cut
     \/ AllWhole /\ (rpc = "end" \/ \E st \in [Nat -> Nat] : Frame(st))

-----------------------------------------------------------------------------
(* A packet has at least a header, and the header a byte. *)
LEMMA Sizes ==
  /\ HdrSize \in Nat \ {0} /\ SizeEnd \in 1..HdrSize /\ BufSize \in Nat
  /\ \A p \in Packets : /\ PayloadSize[p] \in Nat
                        /\ Total(p) = HdrSize + PayloadSize[p]
                        /\ Total(p) \in Nat \ {0}
BY ProtocolAssumption DEF Total

(* Bytes(p, from, to) is a sequence of bytes. *)
LEMMA BytesSeq ==
  ASSUME NEW p \in Packets, NEW from \in Nat, NEW n \in Nat
  PROVE  /\ Bytes(p, from, from + n) \in Seq(Byte)
         /\ Len(Bytes(p, from, from + n)) = n
         /\ \A i \in 1..n : Bytes(p, from, from + n)[i] = <<p, from + i - 1>>
<1>1. from + n - from = n
  OBVIOUS
<1>2. Bytes(p, from, from + n) = [i \in 1..n |-> <<p, from + i - 1>>]
  BY <1>1 DEF Bytes
<1>3. \A i \in 1..n : <<p, from + i - 1>> \in Byte
  BY DEF Byte
<1> DEFINE b == [i \in 1..n |-> <<p, from + i - 1>>]
<1>4. b \in [1..n -> Byte]
  BY <1>3
<1>5. b \in Seq(Byte) /\ Len(b) = n
  <2> HIDE DEF b
  <2> QED
    BY <1>4
<1> QED
  BY <1>2, <1>5

(* A sequence whose bytes are those of p from an offset on is that part    *)
(* of p.                                                                   *)
LEMMA SeqIsBytes ==
  ASSUME NEW p \in Packets, NEW from \in Nat, NEW s \in Seq(Byte),
         \A i \in 1..Len(s) : s[i] = <<p, from + i - 1>>
  PROVE  s = Bytes(p, from, from + Len(s))
<1>1. Len(s) \in Nat
  BY LenProperties
<1> DEFINE t == Bytes(p, from, from + Len(s))
<1>2. t \in Seq(Byte) /\ Len(t) = Len(s) /\ \A i \in 1..Len(s) : t[i] = <<p, from + i - 1>>
  BY <1>1, BytesSeq
<1> HIDE DEF t
<1>3. s = t
  BY <1>2, SeqEqual
<1> QED
  BY <1>3 DEF t

(* ... and a prefix of any longer part. *)
LEMMA SeqIsPrefix ==
  ASSUME NEW p \in Packets, NEW from \in Nat, NEW s \in Seq(Byte), NEW n \in Nat,
         Len(s) <= n, \A i \in 1..Len(s) : s[i] = <<p, from + i - 1>>
  PROVE  IsPrefix(s, Bytes(p, from, from + n))
<1> DEFINE t == Bytes(p, from, from + n)
<1>1. Len(s) \in Nat
  BY LenProperties
<1>2. t \in Seq(Byte) /\ Len(t) = n /\ \A i \in 1..n : t[i] = <<p, from + i - 1>>
  BY BytesSeq
<1> HIDE DEF t
<1>3. \A i \in 1..Len(s) : s[i] \in Byte /\ t[i] \in Byte /\ s[i] = t[i]
  <2> TAKE i \in 1..Len(s)
  <2>1. i \in 1..Len(t)
    BY <1>1, <1>2
  <2> QED
    BY <1>1, <1>2, <2>1, ElementOfSeq
<1>4. /\ SubSeq(s, 1, Len(s)) \in Seq(Byte) /\ SubSeq(t, 1, Len(s)) \in Seq(Byte)
      /\ Len(SubSeq(s, 1, Len(s))) = Len(SubSeq(t, 1, Len(s)))
      /\ Len(SubSeq(s, 1, Len(s))) = Len(s)
      /\ \A i \in 1..Len(s) : SubSeq(s, 1, Len(s))[i] = s[i] /\ SubSeq(t, 1, Len(s))[i] = t[i]
  <2>1. \A i \in 1..Len(s) : s[i] \in Byte
    BY <1>3
  <2>2. \A i \in 1..Len(s) : t[i] \in Byte
    BY <1>3
  <2>3. /\ SubSeq(s, 1, Len(s)) \in Seq(Byte)
        /\ Len(SubSeq(s, 1, Len(s))) = IF 1 <= Len(s) THEN Len(s) - 1 + 1 ELSE 0
        /\ \A i \in 1..(Len(s) - 1 + 1) : SubSeq(s, 1, Len(s))[i] = s[1 + i - 1]
    BY <1>1, <2>1, SubSeqProperties
  <2>4. /\ SubSeq(t, 1, Len(s)) \in Seq(Byte)
        /\ Len(SubSeq(t, 1, Len(s))) = IF 1 <= Len(s) THEN Len(s) - 1 + 1 ELSE 0
        /\ \A i \in 1..(Len(s) - 1 + 1) : SubSeq(t, 1, Len(s))[i] = t[1 + i - 1]
    BY <1>1, <2>2, SubSeqProperties
  <2> QED
    BY <1>1, <2>3, <2>4
<1>5. SubSeq(s, 1, Len(s)) = SubSeq(t, 1, Len(s))
  BY <1>3, <1>4, SeqEqual
<1>6. IsPrefix(s, t)
  BY <1>2, <1>5 DEF IsPrefix
<1> QED
  BY <1>6 DEF t

(* read() takes the first n bytes of a sequence and leaves the rest. *)
LEMMA TakeBytes ==
  ASSUME NEW s \in Seq(Byte), NEW c \in Seq(Byte), NEW n \in 1..Len(c)
  PROVE  /\ s \o SubSeq(c, 1, n) \in Seq(Byte)
         /\ Len(s \o SubSeq(c, 1, n)) = Len(s) + n
         /\ \A i \in 1..Len(s) : (s \o SubSeq(c, 1, n))[i] = s[i]
         /\ \A i \in 1..n : (s \o SubSeq(c, 1, n))[Len(s) + i] = c[i]
         /\ SubSeq(c, n + 1, Len(c)) \in Seq(Byte)
         /\ Len(SubSeq(c, n + 1, Len(c))) = Len(c) - n
         /\ \A i \in 1..(Len(c) - n) : SubSeq(c, n + 1, Len(c))[i] = c[n + i]
<1>1. Len(c) \in Nat /\ Len(s) \in Nat
  BY LenProperties
<1>2. \A i \in 1..Len(c) : c[i] \in Byte
  BY ElementOfSeq
<1>3. /\ SubSeq(c, 1, n) \in Seq(Byte) /\ Len(SubSeq(c, 1, n)) = n
      /\ \A i \in 1..n : SubSeq(c, 1, n)[i] = c[i]
  <2>1. \A i \in 1..n : c[i] \in Byte
    BY <1>1, <1>2
  <2> QED
    BY <1>1, <2>1, SubSeqProperties
<1>4. /\ SubSeq(c, n + 1, Len(c)) \in Seq(Byte)
      /\ Len(SubSeq(c, n + 1, Len(c))) = Len(c) - n
      /\ \A i \in 1..(Len(c) - n) : SubSeq(c, n + 1, Len(c))[i] = c[n + i]
  <2>1. \A i \in (n + 1)..Len(c) : c[i] \in Byte
    BY <1>1, <1>2
  <2>2. n + 1 \in Int /\ Len(c) \in Int
    BY <1>1
  <2>3. /\ SubSeq(c, n + 1, Len(c)) \in Seq(Byte)
        /\ Len(SubSeq(c, n + 1, Len(c))) = IF n + 1 <= Len(c) THEN Len(c) - (n + 1) + 1 ELSE 0
        /\ \A i \in 1..(Len(c) - (n + 1) + 1) : SubSeq(c, n + 1, Len(c))[i] = c[(n + 1) + i - 1]
    BY <2>1, <2>2, SubSeqProperties
  <2> QED
    BY <1>1, <2>3
<1> DEFINE t == SubSeq(c, 1, n)
<1>5. /\ s \o t \in Seq(Byte) /\ Len(s \o t) = Len(s) + Len(t)
      /\ \A i \in 1..(Len(s) + Len(t)) : (s \o t)[i] = IF i <= Len(s) THEN s[i] ELSE t[i - Len(s)]
  BY <1>3, ConcatProperties
<1> QED
  <2> HIDE DEF t
  <2>1. \A i \in 1..Len(s) : (s \o t)[i] = s[i]
    BY <1>1, <1>3, <1>5 DEF t
  <2>2. \A i \in 1..n : (s \o t)[Len(s) + i] = t[i]
    BY <1>1, <1>3, <1>5 DEF t
  <2> QED
    BY <1>1, <1>3, <1>4, <1>5, <2>1, <2>2 DEF t

-----------------------------------------------------------------------------
(* The types of the lengths. *)
LEMMA Lengths ==
  ASSUME TypeOK
  PROVE  /\ nOrder \in Nat /\ nReceived \in Nat /\ nHdr \in Nat /\ nPayload \in Nat
         /\ nChan \in Nat
         /\ \A k \in 1..nOrder : Pkt(k) \in Packets /\ Size(k) \in Nat \ {0} /\ Size(k) >= HdrSize
<1>1. /\ nOrder \in Nat /\ nReceived \in Nat /\ nHdr \in Nat /\ nPayload \in Nat
      /\ nChan \in Nat
  BY LenProperties DEF TypeOK, nOrder, nReceived, nHdr, nPayload, nChan
<1>2. ASSUME NEW k \in 1..nOrder
      PROVE  Pkt(k) \in Packets /\ Size(k) \in Nat \ {0} /\ Size(k) >= HdrSize
  <2>1. order[k] \in Packets
    BY ElementOfSeq DEF TypeOK, nOrder
  <2> QED
    BY <2>1, Sizes DEF Pkt, Size
<1> QED
  BY <1>1, <1>2

(* A position belongs to one packet and is one offset in it. *)
LEMMA OnePacket ==
  ASSUME TypeOK, NEW st \in [Nat -> Nat], StartsInv(st)
  PROVE  \A k, l \in 1..nOrder, c, d \in Nat :
           (st[k] + c < st[k + 1] /\ st[l] + d < st[l + 1] /\ st[k] + c = st[l] + d)
             => k = l /\ c = d
<1> TAKE k, l \in 1..nOrder, c, d \in Nat
<1> HAVE st[k] + c < st[k + 1] /\ st[l] + d < st[l + 1] /\ st[k] + c = st[l] + d
<1>1. nOrder \in Nat
  BY Lengths
<1>2. (k < l => st[k + 1] <= st[l]) /\ (l < k => st[l + 1] <= st[k])
  BY <1>1 DEF StartsInv
<1> QED
  BY <1>1, <1>2

(* The bytes that read() returns next belong to the packet that the        *)
(* reader is in, as far as that packet goes.                               *)
LEMMA NextBytes ==
  ASSUME TypeOK, NEW st \in [Nat -> Nat], Frame(st), nReceived <= nOrder,
         NEW n \in 1..nChan,
         nReceived < nOrder => nHdr + nPayload + n <= Size(nReceived + 1)
  PROVE  /\ nReceived < nOrder
         /\ \A i \in 1..n : ChanByte(i) = <<Pkt(nReceived + 1), nHdr + nPayload + i - 1>>
<1>1. /\ nOrder \in Nat /\ nReceived \in Nat /\ nHdr \in Nat /\ nPayload \in Nat
      /\ nChan \in Nat
  BY Lengths
<1>2. ReadPos(st) + nChan <= st[nOrder + 1] /\ ReadPos(st) = st[nReceived + 1] + nHdr + nPayload
  BY DEF Frame, WriterInv, ReadPos
<1>3. nReceived < nOrder
  BY <1>1, <1>2
<1>4. st[nReceived + 2] = st[nReceived + 1] + Size(nReceived + 1) /\ Size(nReceived + 1) \in Nat
  BY <1>1, <1>3, Lengths DEF Frame, StartsInv
<1>5. ASSUME NEW i \in 1..n
      PROVE  ChanByte(i) = <<Pkt(nReceived + 1), nHdr + nPayload + i - 1>>
  <2>1. i \in 1..nChan /\ nReceived + 1 \in 1..nOrder /\ nHdr + nPayload + i - 1 \in Nat
    BY <1>1, <1>3
  <2>2. /\ st[nReceived + 1] + (nHdr + nPayload + i - 1) = ReadPos(st) + i - 1
        /\ st[nReceived + 1] + (nHdr + nPayload + i - 1) < st[(nReceived + 1) + 1]
    BY <1>1, <1>2, <1>3, <1>4
  <2> QED
    BY <2>1, <2>2 DEF Frame, ChanInv
<1> QED
  BY <1>3, <1>5

-----------------------------------------------------------------------------
(* Whatever a sender does, what was received stays what it was: it is      *)
(* enough to find the positions again.                                     *)
LEMMA SenderStep ==
  ASSUME FramedInv, TypeOK', UNCHANGED <<hdr, payload, rpc, received>>,
         nOrder <= nOrder', \A k \in 1..nOrder : Pkt(k)' = Pkt(k),
         AtEOF => AtEOF',
         \A st \in [Nat -> Nat] : Frame(st) => \E st2 \in [Nat -> Nat] : Frame(st2)'
  PROVE  FramedInv'
<1>1. nReceived \in Nat /\ nOrder \in Nat /\ nReceived <= nOrder /\ nOrder' \in Nat
  BY Lengths DEF FramedInv, TypeOK, nOrder
<1>2. /\ nReceived' = nReceived /\ nHdr' = nHdr /\ nPayload' = nPayload
      /\ \A i : Received(i)' = Received(i)
  BY DEF nReceived, nHdr, nPayload, Received
<1>3. nReceived' <= nOrder'
  BY <1>1, <1>2
<1>4. \A i \in 1..nReceived : Pkt(i)' = Pkt(i)
  BY <1>1
<1>5. \A i : Whole(Pkt(i))' = Whole(Pkt(i)')
  BY DEF Whole, Bytes, Total
<1>6. CASE Cut
  <2>1. Cut'
    BY <1>1, <1>2, <1>4, <1>5, <1>6 DEF Cut
  <2> QED
    BY <1>3, <2>1 DEF FramedInv
<1>7. CASE AllWhole /\ (rpc = "end" \/ \E st \in [Nat -> Nat] : Frame(st))
  <2>1. AllWhole'
    BY <1>2, <1>4, <1>5, <1>7 DEF AllWhole
  <2>2. rpc' = "end" \/ \E st \in [Nat -> Nat] : Frame(st)'
    BY <1>7
  <2> QED
    BY <1>3, <2>1, <2>2 DEF FramedInv
<1> QED
  BY <1>6, <1>7 DEF FramedInv

(* A new packet starts where the last one ends. *)
LEMMA SendPacketStep ==
  ASSUME FramedInv, NEW p \in Packets, SendPacket(p)
  PROVE  FramedInv'
<1>1. TypeOK /\ order \in Seq(Packets)
  BY DEF FramedInv, TypeOK
<1>2. order' = Append(order, p) /\ lock = {} /\ lock' = {p} /\ nwritten' = 0
  BY DEF SendPacket
<1>3. TypeOK'
  BY <1>1, <1>2 DEF TypeOK, SendPacket
<1>4. /\ nOrder' = nOrder + 1 /\ (\A k \in 1..nOrder : Pkt(k)' = Pkt(k))
      /\ (\A k : k = nOrder + 1 => Pkt(k)' = p) /\ Pkt(nOrder)' = p
  BY <1>1, <1>2, AppendProperties DEF nOrder, Pkt
<1>5. /\ \A k \in 1..nOrder : Size(k)' = Size(k)
      /\ (\A k : k = nOrder + 1 => Size(k)' = Total(p))
      /\ Size(nOrder)' = Total(p) /\ Total(p) \in Nat \ {0}
  BY <1>4, Sizes DEF Size, Pkt, Total
<1>6. /\ nReceived' = nReceived /\ nHdr' = nHdr /\ nPayload' = nPayload /\ nChan' = nChan
      /\ (\A i : HdrByte(i)' = HdrByte(i)) /\ (\A i : PayloadByte(i)' = PayloadByte(i))
      /\ (\A i : ChanByte(i)' = ChanByte(i)) /\ (AtEOF' <=> AtEOF)
      /\ rpc' = rpc /\ closed' = closed
  BY DEF SendPacket, nReceived, nHdr, nPayload, nChan, HdrByte, PayloadByte, ChanByte, AtEOF
<1>7. /\ nOrder \in Nat /\ nReceived \in Nat /\ nHdr \in Nat /\ nPayload \in Nat
      /\ nChan \in Nat /\ nReceived <= nOrder
      /\ \A k \in 1..nOrder : Size(k) \in Nat
  BY <1>1, Lengths DEF FramedInv
<1>8. ASSUME NEW st \in [Nat -> Nat], Frame(st)
      PROVE  \E st2 \in [Nat -> Nat] : Frame(st2)'
  <2>1. PICK st2 \in [Nat -> Nat] :
          /\ \A k \in Nat : k # nOrder + 2 => st2[k] = st[k]
          /\ st2[nOrder + 2] = st[nOrder + 1] + Total(p)
    <3> DEFINE s == [st EXCEPT ![nOrder + 2] = st[nOrder + 1] + Total(p)]
    <3>1. /\ s \in [Nat -> Nat]
          /\ \A k \in Nat : k # nOrder + 2 => s[k] = st[k]
          /\ s[nOrder + 2] = st[nOrder + 1] + Total(p)
      BY <1>5, <1>7
    <3> HIDE DEF s
    <3> QED
      BY <3>1
  <2>2. StartsInv(st2)'
    <3>1. st2[1] = 0
      BY <1>7, <2>1, <1>8 DEF Frame, StartsInv
    <3>2. \A k \in 1..nOrder' : st2[k + 1] = st2[k] + Size(k)'
      <4> SUFFICES ASSUME NEW k \in 1..nOrder'
                   PROVE  st2[k + 1] = st2[k] + Size(k)'
        OBVIOUS
      <4>1. CASE k = nOrder + 1
        BY <1>5, <1>7, <2>1, <4>1
      <4>2. CASE k # nOrder + 1
        <5>1. k \in 1..nOrder
          BY <1>4, <1>7, <4>2
        <5>2. st[k + 1] = st[k] + Size(k)
          BY <5>1, <1>8 DEF Frame, StartsInv
        <5> QED
          BY <1>5, <1>7, <2>1, <5>1, <5>2
      <4> QED
        BY <4>1, <4>2
    <3>3. ASSUME NEW k \in 1..(nOrder' + 1), NEW l \in 1..(nOrder' + 1), k < l
          PROVE  st2[k + 1] <= st2[l]
      <4>1. CASE l < nOrder + 2
        BY <1>4, <1>7, <2>1, <3>3, <4>1, <1>8 DEF Frame, StartsInv
      <4>2. CASE l = nOrder + 2 /\ k = nOrder + 1
        BY <1>7, <2>1, <4>2
      <4>3. CASE l = nOrder + 2 /\ k < nOrder + 1
        <5>1. st[k + 1] <= st[nOrder + 1]
          BY <1>7, <4>3, <3>3, <1>8 DEF Frame, StartsInv
        <5>2. st2[k + 1] = st[k + 1] /\ st[k + 1] \in Nat /\ st[nOrder + 1] \in Nat
          BY <1>7, <2>1, <4>3
        <5> QED
          BY <1>5, <2>1, <4>3, <5>1, <5>2
      <4> QED
        BY <1>4, <1>7, <3>3, <4>1, <4>2, <4>3
    <3> QED
      BY <3>1, <3>2, <3>3 DEF StartsInv
  <2>3. ReadPos(st2)' = ReadPos(st) /\ ReadPos(st) \in Nat
    BY <1>6, <1>7, <2>1 DEF ReadPos
  <2>4. st2[nOrder'] = st[nOrder + 1] /\ st2[nOrder' + 1] = st[nOrder + 1] + Total(p)
        /\ st[nOrder + 1] \in Nat
    BY <1>4, <1>7, <2>1
  <2>5. WriterInv(st2)'
    <3>1. ReadPos(st) + nChan <= st[nOrder + 1]
          /\ (closed \/ ReadPos(st) + nChan = st[nOrder + 1])
      BY <1>2, <1>8 DEF Frame, WriterInv
    <3>2. ReadPos(st2)' + nChan' <= st2[nOrder' + 1]
      BY <1>5, <1>6, <1>7, <2>3, <2>4, <3>1
    <3>3. closed' \/ ReadPos(st2)' + nChan' = st2[nOrder'] + nwritten'
      BY <1>2, <1>6, <1>7, <2>3, <2>4, <3>1
    <3>4. nOrder' >= 1 /\ lock' = {Pkt(nOrder)'} /\ nwritten' <= Size(nOrder)'
      BY <1>2, <1>4, <1>5, <1>7
    <3> QED
      BY <3>2, <3>3, <3>4 DEF WriterInv
  <2>6. ReaderInv'
    <3>1. ReaderInv
      BY <1>8 DEF Frame
    <3>2. CASE nReceived < nOrder
      <4>1. Pkt(nReceived + 1)' = Pkt(nReceived + 1) /\ Size(nReceived + 1)' = Size(nReceived + 1)
        <5>1. nReceived + 1 \in 1..nOrder
          BY <1>7, <3>2
        <5> QED
          BY <1>4, <1>5, <1>6, <5>1 DEF Pkt, Size
      <4> QED
        BY <1>4, <1>6, <1>7, <3>1, <3>2, <4>1 DEF ReaderInv
    <3>3. CASE nReceived = nOrder
      <4>1. nHdr = 0 /\ nPayload = 0 /\ rpc # "payload"
        BY <1>7, <3>1, <3>3, Sizes DEF ReaderInv
      <4> QED
        BY <1>6, <4>1, Sizes DEF ReaderInv
    <3> QED
      BY <1>7, <3>2, <3>3
  <2>7. ChanInv(st2)'
    <3> SUFFICES ASSUME NEW i \in 1..nChan, NEW k \in 1..nOrder', NEW off \in Nat,
                        st2[k] + off < st2[k + 1], st2[k] + off = ReadPos(st) + i - 1
                 PROVE  ChanByte(i)' = <<Pkt(k)', off>>
      BY <1>6, <2>3 DEF ChanInv
    <3>1. ReadPos(st) + nChan <= st[nOrder + 1]
      BY <1>8 DEF Frame, WriterInv
    <3>2. k # nOrder + 1
      BY <1>7, <2>1, <2>3, <2>4, <3>1
    <3>3. k \in 1..nOrder /\ st2[k] = st[k] /\ st2[k + 1] = st[k + 1]
      BY <1>4, <1>7, <2>1, <3>2
    <3>4. ChanByte(i) = <<Pkt(k), off>>
      BY <3>3, <1>8 DEF Frame, ChanInv
    <3> QED
      BY <1>4, <1>6, <3>3, <3>4
  <2>8. Frame(st2)'
    BY <2>2, <2>5, <2>6, <2>7 DEF Frame
  <2> QED
    BY <2>1, <2>8
<1>9. UNCHANGED <<hdr, payload, rpc, received>>
  BY DEF SendPacket
<1> QED
  BY <1>3, <1>4, <1>6, <1>7, <1>8, <1>9, SenderStep

(* A step that takes no lock leaves the positions of the packets. *)
LEMMA SameOrder ==
  ASSUME order' = order
  PROVE  /\ nOrder' = nOrder /\ Pkt(nOrder)' = Pkt(nOrder) /\ Size(nOrder)' = Size(nOrder)
         /\ (\A k : Pkt(k)' = Pkt(k)) /\ (\A k : Size(k)' = Size(k))
         /\ \A st : StartsInv(st) => StartsInv(st)'
<1>1. /\ nOrder' = nOrder /\ Pkt(nOrder)' = Pkt(nOrder) /\ Size(nOrder)' = Size(nOrder)
      /\ (\A k : Pkt(k)' = Pkt(k)) /\ (\A k : Size(k)' = Size(k))
  BY DEF nOrder, Pkt, Size, Total
<1> QED
  BY <1>1 DEF StartsInv

(* The bytes that write() accepts continue what is in the socket. *)
LEMMA rio_writenStep ==
  ASSUME FramedInv, NEW p \in Packets, NEW n, rio_writen(p, n)
  PROVE  FramedInv'
<1>1. TypeOK /\ chan \in Seq(Byte) /\ nwritten \in Nat
  BY DEF FramedInv, TypeOK
<1>2. /\ lock = {p} /\ ~closed /\ n \in 1..Left(p) /\ nwritten' = nwritten + n
      /\ chan' = chan \o Bytes(p, nwritten, nwritten + n)
      /\ closed' = closed /\ lock' = lock /\ order' = order
      /\ UNCHANGED <<hdr, payload, rpc, received>>
  BY DEF rio_writen
<1>3. n \in Nat \ {0} /\ nwritten + n <= Total(p) /\ nwritten' \in Nat
  BY <1>1, <1>2, Sizes DEF Left
<1> DEFINE b == Bytes(p, nwritten, nwritten + n)
<1>4. b \in Seq(Byte) /\ Len(b) = n /\ \A i \in 1..n : b[i] = <<p, nwritten + i - 1>>
  BY <1>1, <1>3, BytesSeq
<1>5. /\ chan' \in Seq(Byte) /\ nChan' = nChan + n /\ nChan \in Nat
      /\ \A i \in 1..nChan : ChanByte(i)' = ChanByte(i)
      /\ \A i \in (nChan + 1)..(nChan + n) : ChanByte(i)' = <<p, nwritten + (i - nChan) - 1>>
  <2> HIDE DEF b
  <2>1. chan' = chan \o b
    BY <1>2 DEF b
  <2>2. /\ chan' \in Seq(Byte) /\ Len(chan') = Len(chan) + n /\ Len(chan) \in Nat
        /\ \A i \in 1..(Len(chan) + n) : chan'[i] =
             IF i <= Len(chan) THEN chan[i] ELSE b[i - Len(chan)]
    BY <1>1, <1>4, <2>1, ConcatProperties, LenProperties
  <2>3. nChan' = nChan + n /\ nChan \in Nat
    BY <2>2 DEF nChan
  <2>4. ASSUME NEW i \in 1..nChan
        PROVE  ChanByte(i)' = ChanByte(i)
    BY <1>3, <2>2 DEF nChan, ChanByte
  <2>5. ASSUME NEW i \in (nChan + 1)..(nChan + n)
        PROVE  ChanByte(i)' = <<p, nwritten + (i - nChan) - 1>>
    <3>1. i \in 1..(nChan + n) /\ ~(i <= nChan) /\ i - nChan \in 1..n
      BY <1>3, <2>3
    <3>2. chan'[i] = b[i - nChan]
      BY <2>2, <3>1 DEF nChan
    <3> QED
      BY <1>4, <3>1, <3>2 DEF ChanByte
  <2> QED
    BY <2>2, <2>3, <2>4, <2>5
<1>6. TypeOK'
  BY <1>1, <1>2, <1>3, <1>5 DEF TypeOK
<1>7. /\ nOrder' = nOrder /\ Pkt(nOrder)' = Pkt(nOrder) /\ Size(nOrder)' = Size(nOrder)
      /\ (\A k : Pkt(k)' = Pkt(k)) /\ (\A k : Size(k)' = Size(k))
      /\ \A st : StartsInv(st) => StartsInv(st)'
  BY <1>2, SameOrder
<1>8. /\ nOrder \in Nat /\ nReceived \in Nat /\ nHdr \in Nat /\ nPayload \in Nat
      /\ nReceived' = nReceived /\ nHdr' = nHdr /\ nPayload' = nPayload
      /\ (\A i : HdrByte(i)' = HdrByte(i)) /\ (\A i : PayloadByte(i)' = PayloadByte(i))
      /\ Pkt(nReceived + 1)' = Pkt(nReceived + 1) /\ Size(nReceived + 1)' = Size(nReceived + 1)
  BY <1>1, <1>2, Lengths DEF nReceived, nHdr, nPayload, HdrByte, PayloadByte, Pkt, Size, Total
<1> HIDE DEF b
<1>9. ASSUME NEW st \in [Nat -> Nat], Frame(st)
      PROVE  Frame(st)'
  <2>1. ReadPos(st)' = ReadPos(st) /\ ReadPos(st) \in Nat
    BY <1>8 DEF ReadPos
  <2>2. /\ nOrder >= 1 /\ p = Pkt(nOrder) /\ lock = {Pkt(nOrder)}
        /\ ReadPos(st) + nChan = st[nOrder] + nwritten
    BY <1>2, <1>9 DEF Frame, WriterInv
  <2>0. /\ n \in Nat /\ nwritten \in Nat /\ nwritten' = nwritten + n /\ nChan' = nChan + n
        /\ nChan \in Nat /\ nOrder \in Nat /\ st[nOrder] \in Nat /\ nwritten + n <= Total(p)
    BY <1>1, <1>2, <1>3, <1>5, <1>8
  <2>3. Size(nOrder) = Total(p) /\ Total(p) \in Nat
    BY <2>2, Sizes DEF Pkt, Size
  <2>4. st[nOrder + 1] = st[nOrder] + Total(p)
    <3>1. nOrder \in 1..nOrder
      BY <1>8, <2>2
    <3> QED
      BY <2>3, <3>1, <1>9 DEF Frame, StartsInv
  <2>5. WriterInv(st)'
    <3>1. ReadPos(st)' + nChan' = st[nOrder] + nwritten'
      BY <2>0, <2>1, <2>2
    <3>2. ReadPos(st)' + nChan' <= st[nOrder + 1]
      BY <1>1, <1>2, <1>3, <1>8, <2>3, <2>4, <3>1
    <3>3. nwritten' <= Size(nOrder)'
      BY <1>2, <1>3, <1>7, <2>3
    <3> QED
      BY <1>2, <1>7, <2>2, <3>1, <3>2, <3>3 DEF WriterInv
  <2>6. ReaderInv'
    <3>1. ReaderInv /\ ~AtEOF
      BY <1>2, <1>9 DEF Frame, AtEOF
    <3> QED
      BY <1>2, <1>7, <1>8, <3>1 DEF ReaderInv
  <2>7. ChanInv(st)'
    <3> SUFFICES ASSUME NEW i \in 1..(nChan + n), NEW k \in 1..nOrder, NEW off \in Nat,
                        st[k] + off < st[k + 1], st[k] + off = ReadPos(st) + i - 1
                 PROVE  ChanByte(i)' = <<Pkt(k), off>>
      <4>1. nChan' = nChan + n /\ nOrder' = nOrder /\ ReadPos(st)' = ReadPos(st)
        BY <1>5, <1>7, <2>1
      <4>2. \A k : Pkt(k)' = Pkt(k)
        BY <1>7
      <4> QED
        BY <4>1, <4>2 DEF ChanInv
    <3>1. CASE i <= nChan
      <4>1. i \in 1..nChan
        BY <1>5, <3>1
      <4>2. ChanByte(i) = <<Pkt(k), off>>
        BY <4>1, <1>9 DEF Frame, ChanInv
      <4> QED
        BY <1>5, <4>1, <4>2
    <3>2. CASE i > nChan
      <4> DEFINE o == nwritten + (i - nChan) - 1
      <4>1. /\ i \in (nChan + 1)..(nChan + n) /\ o \in Nat /\ nOrder \in 1..nOrder
            /\ o < nwritten + n
        BY <1>1, <1>3, <1>5, <1>8, <2>2, <3>2
      <4>2. st[nOrder] + o = ReadPos(st) + i - 1
        BY <2>0, <2>1, <2>2
      <4>3. st[nOrder] + o < st[nOrder + 1]
        BY <2>0, <2>3, <2>4, <4>1
      <4> HIDE DEF o
      <4>4. k = nOrder /\ off = o
        <5>1. st[k] + off = st[nOrder] + o /\ nOrder \in 1..nOrder /\ o \in Nat
          <6>1. nOrder \in 1..nOrder /\ o \in Nat
            BY <4>1
          <6>2. st[k] + off = st[nOrder] + o
            BY <4>2
          <6> QED
            BY <6>1, <6>2
        <5>2. StartsInv(st)
          BY <1>9 DEF Frame
        <5>3. TypeOK
          BY <1>1
        <5>4. \A m, l \in 1..nOrder, c, d \in Nat :
                (st[m] + c < st[m + 1] /\ st[l] + d < st[l + 1] /\ st[m] + c = st[l] + d)
                  => m = l /\ c = d
          BY <5>2, <5>3, OnePacket
        <5> QED
          BY <4>3, <5>1, <5>4
      <4> QED
        BY <1>5, <2>2, <4>1, <4>4 DEF o
    <3> QED
      BY <1>5, <3>1, <3>2
  <2> QED
    BY <1>7, <1>9, <2>5, <2>6, <2>7 DEF Frame
<1>10. ~AtEOF
  BY <1>2 DEF AtEOF
<1>11. nOrder <= nOrder' /\ \A k \in 1..nOrder : Pkt(k)' = Pkt(k)
  BY <1>7, <1>8
<1> QED
  BY <1>2, <1>6, <1>9, <1>10, <1>11, SenderStep

(* A step of the sender that writes nothing. *)
LEMMA QuietSenderStep ==
  ASSUME FramedInv, TypeOK', UNCHANGED <<chan, nwritten, order, hdr, payload, rpc, received>>,
         closed => closed', AtEOF => AtEOF',
         \A st \in [Nat -> Nat] : Frame(st) =>
           \/ closed' \/ closed
           \/ lock' = {} /\ ReadPos(st) + nChan = st[nOrder + 1]
  PROVE  FramedInv'
<1>1. /\ nOrder' = nOrder /\ Pkt(nOrder)' = Pkt(nOrder) /\ Size(nOrder)' = Size(nOrder)
      /\ (\A k : Pkt(k)' = Pkt(k)) /\ (\A k : Size(k)' = Size(k))
      /\ \A st : StartsInv(st) => StartsInv(st)'
  BY SameOrder
<1>2. /\ nReceived' = nReceived /\ nHdr' = nHdr /\ nPayload' = nPayload /\ nChan' = nChan
      /\ (\A i : HdrByte(i)' = HdrByte(i)) /\ (\A i : PayloadByte(i)' = PayloadByte(i))
      /\ (\A i : ChanByte(i)' = ChanByte(i))
      /\ Pkt(nReceived + 1)' = Pkt(nReceived + 1) /\ Size(nReceived + 1)' = Size(nReceived + 1)
      /\ \A st : ReadPos(st)' = ReadPos(st)
  BY DEF nReceived, nHdr, nPayload, nChan, HdrByte, PayloadByte, ChanByte, Pkt, Size, Total, ReadPos
<1>3. ASSUME NEW st \in [Nat -> Nat], Frame(st)
      PROVE  Frame(st)'
  <2>1. WriterInv(st)'
    BY <1>1, <1>2, <1>3 DEF Frame, WriterInv
  <2>2. ReaderInv'
    BY <1>1, <1>2, <1>3 DEF Frame, ReaderInv
  <2>3. ChanInv(st)'
    BY <1>1, <1>2, <1>3 DEF Frame, ChanInv
  <2> QED
    BY <1>1, <1>3, <2>1, <2>2, <2>3 DEF Frame
<1>4. nOrder <= nOrder' /\ \A k \in 1..nOrder : Pkt(k)' = Pkt(k)
  BY <1>1, Lengths DEF FramedInv
<1> QED
  BY <1>3, <1>4, SenderStep

(* proto_send_packet returns. *)
LEMMA SendReturnsStep ==
  ASSUME FramedInv, NEW p \in Packets, SendReturns(p)
  PROVE  FramedInv'
<1>1. /\ lock = {p} /\ lock' = {} /\ (nwritten = Total(p) \/ closed)
      /\ closed' = closed /\ UNCHANGED <<chan, nwritten, order, hdr, payload, rpc, received>>
  BY DEF SendReturns
<1>2. TypeOK /\ TypeOK'
  BY <1>1 DEF FramedInv, TypeOK
<1>3. AtEOF => AtEOF'
  BY <1>1 DEF AtEOF
<1>4. ASSUME NEW st \in [Nat -> Nat], Frame(st), ~closed
      PROVE  ReadPos(st) + nChan = st[nOrder + 1]
  <2>1. nOrder >= 1 /\ p = Pkt(nOrder) /\ ReadPos(st) + nChan = st[nOrder] + nwritten
    BY <1>1, <1>4 DEF Frame, WriterInv
  <2>2. nOrder \in 1..nOrder
    BY <1>2, <2>1, Lengths
  <2>3. st[nOrder + 1] = st[nOrder] + Size(nOrder)
    BY <2>2, <1>4 DEF Frame, StartsInv
  <2>4. Size(nOrder) = Total(p)
    BY <2>1 DEF Pkt, Size
  <2> QED
    BY <1>1, <1>4, <2>1, <2>3, <2>4
<1> QED
  BY <1>1, <1>2, <1>3, <1>4, QuietSenderStep

(* The connection ends. *)
LEMMA ShutdownStep ==
  ASSUME FramedInv, Shutdown
  PROVE  FramedInv'
<1>1. /\ closed' = TRUE /\ ~closed /\ lock' = lock
      /\ UNCHANGED <<chan, nwritten, order, hdr, payload, rpc, received>>
  BY DEF Shutdown
<1>2. TypeOK'
  BY <1>1 DEF FramedInv, TypeOK
<1>3. AtEOF => AtEOF'
  BY <1>1 DEF AtEOF
<1> QED
  BY <1>1, <1>2, <1>3, QuietSenderStep

-----------------------------------------------------------------------------
(* While proto_recv_packet has bytes to read, nothing has been cut short. *)
LEMMA InFrame ==
  ASSUME FramedInv, chan # <<>> \/ ~closed \/ rpc = "payload" \/ nHdr > 0, rpc # "end"
  PROVE  AllWhole /\ \E st \in [Nat -> Nat] : Frame(st)
<1>1. nHdr \in Nat
  BY Lengths DEF FramedInv
<1>2. ~Cut
  BY <1>1 DEF Cut, AtEOF
<1> QED
  BY <1>2 DEF FramedInv

(* A step of the reader inside a packet keeps what was received. *)
LEMMA ReaderStep ==
  ASSUME FramedInv, AllWhole, TypeOK', UNCHANGED <<order, received>>,
         rpc' = "end" \/ \E st \in [Nat -> Nat] : Frame(st)'
  PROVE  FramedInv'
<1>1. /\ nOrder' = nOrder /\ nReceived' = nReceived
      /\ (\A k : Pkt(k)' = Pkt(k)) /\ (\A i : Received(i)' = Received(i))
  BY DEF nOrder, nReceived, Pkt, Received
<1>2. \A i : Whole(Pkt(i))' = Whole(Pkt(i)')
  BY DEF Whole, Bytes, Total
<1>3. AllWhole'
  BY <1>1, <1>2 DEF AllWhole
<1> QED
  BY <1>1, <1>3 DEF FramedInv

(* read() moves the reader's position and the front of the socket together. *)
LEMMA ReadMoves ==
  ASSUME TypeOK, NEW st \in [Nat -> Nat], Frame(st), NEW n \in 1..nChan,
         UNCHANGED <<closed, lock, nwritten, order>>,
         nChan' = nChan - n, \A i \in 1..(nChan - n) : ChanByte(i)' = ChanByte(n + i),
         ReadPos(st)' = ReadPos(st) + n, ReadPos(st) \in Nat
  PROVE  StartsInv(st)' /\ WriterInv(st)' /\ ChanInv(st)'
<1>1. /\ nOrder' = nOrder /\ Pkt(nOrder)' = Pkt(nOrder) /\ Size(nOrder)' = Size(nOrder)
      /\ (\A k : Pkt(k)' = Pkt(k)) /\ (\A k : Size(k)' = Size(k))
      /\ \A s : StartsInv(s) => StartsInv(s)'
  BY SameOrder
<1>2. nChan \in Nat /\ ReadPos(st)' + nChan' = ReadPos(st) + nChan
  BY Lengths
<1>3. StartsInv(st)'
  BY <1>1 DEF Frame
<1>4. WriterInv(st)'
  BY <1>1, <1>2 DEF Frame, WriterInv
<1>5. ChanInv(st)'
  <2> SUFFICES ASSUME NEW i \in 1..(nChan - n), NEW k \in 1..nOrder, NEW off \in Nat,
                      st[k] + off < st[k + 1], st[k] + off = ReadPos(st)' + i - 1
               PROVE  ChanByte(i)' = <<Pkt(k), off>>
    BY <1>1 DEF ChanInv
  <2>1. n + i \in 1..nChan /\ st[k] + off = ReadPos(st) + (n + i) - 1
    BY <1>2
  <2>2. ChanByte(n + i) = <<Pkt(k), off>>
    BY <2>1 DEF Frame, ChanInv
  <2> QED
    BY <2>2
<1> QED
  BY <1>3, <1>4, <1>5

(* read() returns n bytes of the header. *)
LEMMA ReadHdrStep ==
  ASSUME FramedInv, NEW n, ReadHdr(n)
  PROVE  FramedInv'
<1>1. TypeOK /\ chan \in Seq(Byte) /\ hdr \in Seq(Byte)
  BY DEF FramedInv, TypeOK
<1>2. /\ rpc = "hdr" /\ n \in 1..(HdrSize - nHdr) /\ n <= nChan
      /\ hdr' = hdr \o SubSeq(chan, 1, n) /\ chan' = SubSeq(chan, n + 1, Len(chan))
      /\ UNCHANGED <<closed, lock, nwritten, order, payload, rpc, received>>
  BY DEF ReadHdr, nHdr, nChan
<1>3. /\ nOrder \in Nat /\ nReceived \in Nat /\ nHdr \in Nat /\ nPayload \in Nat
      /\ nChan \in Nat /\ nReceived <= nOrder
  BY <1>1, Lengths DEF FramedInv
<1>4. n \in 1..nChan /\ nHdr + n <= HdrSize /\ HdrSize \in Nat
  BY <1>2, <1>3, Sizes
<1>5. /\ hdr' \in Seq(Byte) /\ chan' \in Seq(Byte)
      /\ nHdr' = nHdr + n /\ nChan' = nChan - n
      /\ \A i \in 1..nHdr : HdrByte(i)' = HdrByte(i)
      /\ \A i \in 1..n : hdr'[nHdr + i] = ChanByte(i)
      /\ \A i \in 1..(nChan - n) : ChanByte(i)' = ChanByte(n + i)
  <2>0. hdr' = hdr \o SubSeq(chan, 1, n) /\ chan' = SubSeq(chan, n + 1, Len(chan))
    BY <1>2
  <2>1. n \in 1..Len(chan)
    BY <1>4 DEF nChan
  <2>2. /\ hdr' \in Seq(Byte) /\ chan' \in Seq(Byte)
        /\ Len(hdr') = Len(hdr) + n /\ Len(chan') = Len(chan) - n
    BY <1>1, <1>2, <2>1, TakeBytes
  <2>3. /\ \A i \in 1..Len(hdr) : hdr'[i] = hdr[i]
        /\ \A i \in 1..n : hdr'[Len(hdr) + i] = chan[i]
        /\ \A i \in 1..(Len(chan) - n) : chan'[i] = chan[n + i]
    <3>1. \A i \in 1..Len(hdr) : hdr'[i] = hdr[i]
      BY <1>1, <2>0, <2>1, TakeBytes
    <3>2. \A i \in 1..n : hdr'[Len(hdr) + i] = chan[i]
      BY <1>1, <2>0, <2>1, TakeBytes
    <3>3. \A i \in 1..(Len(chan) - n) : chan'[i] = chan[n + i]
      BY <1>1, <2>0, <2>1, TakeBytes
    <3> QED
      BY <3>1, <3>2, <3>3
  <2> QED
    BY <2>2, <2>3 DEF nHdr, nChan, HdrByte, ChanByte
<1>6. TypeOK'
  BY <1>1, <1>2, <1>5 DEF TypeOK
<1>7. chan # <<>> /\ rpc # "end"
  BY <1>2, <1>4 DEF nChan
<1>8. AllWhole
  BY <1>7, InFrame
<1>9. PICK st \in [Nat -> Nat] : Frame(st)
  BY <1>7, InFrame
<1>10. nPayload = 0
  BY <1>2, <1>3, <1>9 DEF Frame, ReaderInv
<1>11. nReceived < nOrder => nHdr + nPayload + n <= Size(nReceived + 1)
  <2> HAVE nReceived < nOrder
  <2>1. nReceived + 1 \in 1..nOrder
    BY <1>3
  <2>2. Size(nReceived + 1) \in Nat /\ Size(nReceived + 1) >= HdrSize
    BY <1>1, <2>1, Lengths
  <2> QED
    BY <1>3, <1>4, <1>10, <2>2
<1>12. /\ nReceived < nOrder
       /\ \A i \in 1..n : ChanByte(i) = <<Pkt(nReceived + 1), nHdr + nPayload + i - 1>>
  BY <1>1, <1>3, <1>4, <1>9, <1>11, NextBytes
<1>13. /\ nReceived' = nReceived /\ nPayload' = nPayload /\ nOrder' = nOrder
       /\ (\A i : PayloadByte(i)' = PayloadByte(i))
       /\ Pkt(nReceived + 1)' = Pkt(nReceived + 1)
  BY <1>2 DEF nReceived, nPayload, nOrder, PayloadByte, Pkt
<1>14. ReadPos(st)' = ReadPos(st) + n /\ ReadPos(st) \in Nat
  <2>1. st[nReceived + 1] \in Nat
    BY <1>3
  <2>2. n \in Nat
    BY <1>4
  <2>3. nHdr' = nHdr + n
    BY <1>5
  <2> QED
    BY <1>3, <1>13, <2>1, <2>2, <2>3 DEF ReadPos
<1>15. StartsInv(st)' /\ WriterInv(st)' /\ ChanInv(st)'
  BY <1>1, <1>2, <1>4, <1>5, <1>9, <1>14, ReadMoves
<1>16. ReaderInv'
  <2>1. ASSUME NEW i \in 1..(nHdr + n)
        PROVE  HdrByte(i)' = <<Pkt(nReceived + 1), i - 1>>
    <3>1. CASE i \in 1..nHdr
      <4>1. HdrByte(i) = <<Pkt(nReceived + 1), i - 1>>
        BY <1>9, <3>1 DEF Frame, ReaderInv
      <4> QED
        BY <1>5, <3>1, <4>1
    <3>2. CASE i \notin 1..nHdr
      <4> DEFINE j == i - nHdr
      <4>1. j \in 1..n /\ nHdr + j = i /\ nHdr + nPayload + j - 1 = i - 1
        BY <1>3, <1>4, <1>10, <3>2
      <4> HIDE DEF j
      <4>2. hdr'[nHdr + j] = <<Pkt(nReceived + 1), nHdr + nPayload + j - 1>>
        BY <1>5, <1>12, <4>1
      <4> QED
        BY <4>1, <4>2 DEF HdrByte
    <3> QED
      BY <3>1, <3>2
  <2> QED
    BY <1>2, <1>3, <1>4, <1>5, <1>10, <1>12, <1>13, <2>1 DEF ReaderInv
<1>17. Frame(st)'
  BY <1>15, <1>16 DEF Frame
<1> QED
  BY <1>2, <1>6, <1>8, <1>17, ReaderStep

(* A whole header tells the size of its packet's payload. *)
LEMMA WholeHdr ==
  ASSUME TypeOK, ReaderInv, nHdr = HdrSize
  PROVE  /\ nReceived < nOrder /\ Pkt(nReceived + 1) \in Packets
         /\ HdrPayloadSize(hdr) = PayloadSize[Pkt(nReceived + 1)]
         /\ PayloadSize[Pkt(nReceived + 1)] \in Nat
         /\ Size(nReceived + 1) = HdrSize + PayloadSize[Pkt(nReceived + 1)]
<1>1. nReceived \in Nat /\ nOrder \in Nat /\ nHdr \in Nat
  BY Lengths
<1>2. nReceived < nOrder
  BY Sizes DEF ReaderInv
<1>3. Pkt(nReceived + 1) \in Packets
  BY <1>1, <1>2, Lengths
<1>4. Size(nReceived + 1) = HdrSize + PayloadSize[Pkt(nReceived + 1)]
  BY DEF Size, Pkt, Total
<1>5. HdrByte(SizeEnd) = <<Pkt(nReceived + 1), SizeEnd - 1>> /\ nHdr >= SizeEnd
  BY Sizes DEF ReaderInv
<1>6. HdrByte(SizeEnd)[1] = Pkt(nReceived + 1)
  BY <1>5
<1>7. HdrPayloadSize(hdr) = IF nHdr >= SizeEnd THEN PayloadSize[HdrByte(SizeEnd)[1]] ELSE 0
  BY DEF HdrPayloadSize, nHdr, HdrByte
<1> QED
  BY <1>2, <1>3, <1>4, <1>5, <1>6, <1>7, Sizes

(* read() returns n bytes of the payload. *)
LEMMA ReadPayloadStep ==
  ASSUME FramedInv, NEW n, ReadPayload(n)
  PROVE  FramedInv'
<1>1. TypeOK /\ chan \in Seq(Byte) /\ payload \in Seq(Byte)
  BY DEF FramedInv, TypeOK
<1>2. /\ rpc = "payload" /\ n \in 1..(HdrPayloadSize(hdr) - nPayload) /\ n <= nChan
      /\ payload' = payload \o SubSeq(chan, 1, n) /\ chan' = SubSeq(chan, n + 1, Len(chan))
      /\ UNCHANGED <<closed, lock, nwritten, order, hdr, rpc, received>>
  BY DEF ReadPayload, nPayload, nChan
<1>3. /\ nOrder \in Nat /\ nReceived \in Nat /\ nHdr \in Nat /\ nPayload \in Nat
      /\ nChan \in Nat /\ nReceived <= nOrder
  BY <1>1, Lengths DEF FramedInv
<1>4. rpc # "end"
  BY <1>2
<1>5. AllWhole
  BY <1>2, <1>4, InFrame
<1>6. PICK st \in [Nat -> Nat] : Frame(st)
  BY <1>2, <1>4, InFrame
<1>7. n \in Int /\ n >= 1 /\ chan # <<>>
  BY <1>2 DEF nChan
<1>8. nHdr = HdrSize /\ ReaderInv
  BY <1>2, <1>6, <1>7 DEF Frame, ReaderInv, AtEOF
<1>9. /\ nReceived < nOrder /\ HdrPayloadSize(hdr) = PayloadSize[Pkt(nReceived + 1)]
      /\ PayloadSize[Pkt(nReceived + 1)] \in Nat
      /\ Size(nReceived + 1) = HdrSize + PayloadSize[Pkt(nReceived + 1)]
  BY <1>1, <1>8, WholeHdr
<1>10. n \in 1..nChan /\ HdrSize \in Nat /\ HdrSize + nPayload + n <= Size(nReceived + 1)
  <2>1. n \in 1..(PayloadSize[Pkt(nReceived + 1)] - nPayload)
    BY <1>2, <1>9
  <2> DEFINE z == PayloadSize[Pkt(nReceived + 1)]
  <2>2. z \in Nat /\ Size(nReceived + 1) = HdrSize + z /\ n \in 1..(z - nPayload)
    BY <1>9, <2>1
  <2>3. n \in 1..nChan /\ HdrSize \in Nat
    BY <1>2, <1>3, <1>7, Sizes
  <2> HIDE DEF z
  <2> QED
    BY <1>3, <2>2, <2>3
<1>11. /\ payload' \in Seq(Byte) /\ chan' \in Seq(Byte)
       /\ nPayload' = nPayload + n /\ nChan' = nChan - n
       /\ \A i \in 1..nPayload : PayloadByte(i)' = PayloadByte(i)
       /\ \A i \in 1..n : payload'[nPayload + i] = ChanByte(i)
       /\ \A i \in 1..(nChan - n) : ChanByte(i)' = ChanByte(n + i)
  <2>0. payload' = payload \o SubSeq(chan, 1, n) /\ chan' = SubSeq(chan, n + 1, Len(chan))
    BY <1>2
  <2>1. n \in 1..Len(chan)
    BY <1>10 DEF nChan
  <2>2. /\ payload' \in Seq(Byte) /\ chan' \in Seq(Byte)
        /\ Len(payload') = Len(payload) + n /\ Len(chan') = Len(chan) - n
    BY <1>1, <2>0, <2>1, TakeBytes
  <2>3. /\ \A i \in 1..Len(payload) : payload'[i] = payload[i]
        /\ \A i \in 1..n : payload'[Len(payload) + i] = chan[i]
        /\ \A i \in 1..(Len(chan) - n) : chan'[i] = chan[n + i]
    <3>1. \A i \in 1..Len(payload) : payload'[i] = payload[i]
      BY <1>1, <2>0, <2>1, TakeBytes
    <3>2. \A i \in 1..n : payload'[Len(payload) + i] = chan[i]
      BY <1>1, <2>0, <2>1, TakeBytes
    <3>3. \A i \in 1..(Len(chan) - n) : chan'[i] = chan[n + i]
      BY <1>1, <2>0, <2>1, TakeBytes
    <3> QED
      BY <3>1, <3>2, <3>3
  <2> QED
    <3>1. nPayload' = nPayload + n /\ nChan' = nChan - n
      BY <2>2 DEF nPayload, nChan
    <3>2. \A i \in 1..nPayload : PayloadByte(i)' = PayloadByte(i)
      BY <2>3 DEF nPayload, PayloadByte
    <3>3. \A i \in 1..n : payload'[nPayload + i] = ChanByte(i)
      BY <2>3 DEF nPayload, ChanByte
    <3>4. \A i \in 1..(nChan - n) : ChanByte(i)' = ChanByte(n + i)
      BY <2>3 DEF nChan, ChanByte
    <3> QED
      BY <2>2, <3>1, <3>2, <3>3, <3>4
<1>12. TypeOK'
  BY <1>1, <1>2, <1>11 DEF TypeOK
<1>13. \A i \in 1..n : ChanByte(i) = <<Pkt(nReceived + 1), nHdr + nPayload + i - 1>>
  <2>1. nHdr + nPayload + n <= Size(nReceived + 1) /\ n \in 1..nChan
    BY <1>8, <1>10
  <2> QED
    BY <1>1, <1>3, <1>6, <2>1, NextBytes
<1>14. /\ nReceived' = nReceived /\ nHdr' = nHdr /\ nOrder' = nOrder
       /\ (\A i : HdrByte(i)' = HdrByte(i)) /\ Size(nReceived + 1)' = Size(nReceived + 1)
       /\ Pkt(nReceived + 1)' = Pkt(nReceived + 1)
  BY <1>2 DEF nReceived, nHdr, nOrder, HdrByte, Pkt, Size, Total
<1>15. ReadPos(st)' = ReadPos(st) + n /\ ReadPos(st) \in Nat
  <2>1. st[nReceived + 1] \in Nat
    BY <1>3
  <2>2. n \in Nat
    BY <1>7
  <2>3. nPayload' = nPayload + n
    BY <1>11
  <2> QED
    BY <1>3, <1>14, <2>1, <2>2, <2>3 DEF ReadPos
<1>16. StartsInv(st)' /\ WriterInv(st)' /\ ChanInv(st)'
  BY <1>1, <1>2, <1>6, <1>10, <1>11, <1>15, ReadMoves
<1>17. ReaderInv'
  <2>1. ASSUME NEW i \in 1..(nPayload + n)
        PROVE  PayloadByte(i)' = <<Pkt(nReceived + 1), HdrSize + i - 1>>
    <3>1. CASE i \in 1..nPayload
      <4>1. PayloadByte(i) = <<Pkt(nReceived + 1), HdrSize + i - 1>>
        BY <1>8, <3>1 DEF ReaderInv
      <4> QED
        BY <1>11, <3>1, <4>1
    <3>2. CASE i \notin 1..nPayload
      <4> DEFINE j == i - nPayload
      <4>1. j \in 1..n /\ nPayload + j = i /\ nHdr + nPayload + j - 1 = HdrSize + i - 1
        BY <1>3, <1>7, <1>8, <1>10, <3>2
      <4> HIDE DEF j
      <4>2. payload'[nPayload + j] = <<Pkt(nReceived + 1), nHdr + nPayload + j - 1>>
        BY <1>11, <1>13, <4>1
      <4> QED
        BY <4>1, <4>2 DEF PayloadByte
    <3> QED
      BY <3>1, <3>2
  <2>2. HdrSize + nPayload' <= Size(nReceived + 1)
    BY <1>3, <1>7, <1>10, <1>11
  <2> QED
    BY <1>2, <1>8, <1>9, <1>11, <1>14, <2>1, <2>2 DEF ReaderInv
<1>18. Frame(st)'
  BY <1>16, <1>17 DEF Frame
<1> QED
  BY <1>2, <1>5, <1>12, <1>18, ReaderStep

-----------------------------------------------------------------------------
(* proto_recv_packet returns a packet: the whole of the next one, after    *)
(* which the reader stands at the start of the one behind it, or what the  *)
(* end of the connection left of it.                                       *)
LEMMA ReturnStep ==
  ASSUME FramedInv, AllWhole, NEW st \in [Nat -> Nat], Frame(st), ReturnPacket,
         UNCHANGED <<chan, closed, lock, nwritten, order>>,
         nHdr > 0, HdrSize + nPayload <= Size(nReceived + 1),
         AtEOF \/ (nHdr = HdrSize /\ HdrSize + nPayload = Size(nReceived + 1))
  PROVE  FramedInv'
<1> DEFINE q == Pkt(nReceived + 1)
<1>1. /\ TypeOK /\ hdr \in Seq(Byte) /\ payload \in Seq(Byte)
      /\ received \in Seq([hdr : Seq(Byte), payload : Seq(Byte)])
  BY DEF FramedInv, TypeOK
<1>2. /\ nOrder \in Nat /\ nReceived \in Nat /\ nHdr \in Nat /\ nPayload \in Nat
      /\ nChan \in Nat /\ nReceived < nOrder /\ HdrSize \in Nat /\ nHdr <= HdrSize
  BY <1>1, Lengths, Sizes DEF Frame, ReaderInv
<1>3. q \in Packets /\ PayloadSize[q] \in Nat /\ Size(nReceived + 1) = HdrSize + PayloadSize[q]
  <2>1. q \in Packets
    BY <1>1, <1>2, Lengths
  <2> QED
    BY <2>1, Sizes DEF Size, Pkt, Total
<1>4. nPayload <= PayloadSize[q]
  <2> DEFINE z == PayloadSize[q]
  <2>1. z \in Nat /\ HdrSize + nPayload <= HdrSize + z
    BY <1>3
  <2> HIDE DEF z
  <2>2. nPayload <= z
    BY <1>2, <2>1
  <2> QED
    BY <2>2 DEF z
<1> HIDE DEF q
<1>5. /\ \A i \in 1..Len(hdr) : hdr[i] = <<q, 0 + i - 1>>
      /\ \A i \in 1..Len(payload) : payload[i] = <<q, HdrSize + i - 1>>
  <2>1. ReaderInv
    BY DEF Frame
  <2>2. ASSUME NEW i \in 1..nHdr
        PROVE  hdr[i] = <<q, 0 + i - 1>>
    <3>1. HdrByte(i) = <<Pkt(nReceived + 1), i - 1>>
      BY <2>1 DEF ReaderInv
    <3>2. 0 + i - 1 = i - 1
      BY <1>2
    <3> QED
      BY <3>1, <3>2 DEF HdrByte, q
  <2>3. ASSUME NEW i \in 1..nPayload
        PROVE  payload[i] = <<q, HdrSize + i - 1>>
    <3>1. PayloadByte(i) = <<Pkt(nReceived + 1), HdrSize + i - 1>>
      BY <2>1 DEF ReaderInv
    <3> QED
      BY <3>1 DEF PayloadByte, q
  <2> QED
    BY <2>2, <2>3 DEF nHdr, nPayload
<1> DEFINE r == [hdr |-> hdr, payload |-> payload]
<1>6. r \in [hdr : Seq(Byte), payload : Seq(Byte)] /\ r.hdr = hdr /\ r.payload = payload
  BY <1>1
<1> HIDE DEF r
<1>7. /\ received' = Append(received, r) /\ hdr' = <<>> /\ payload' = <<>> /\ rpc' = "hdr"
  BY DEF ReturnPacket, r
<1>8. /\ received' \in Seq([hdr : Seq(Byte), payload : Seq(Byte)])
      /\ nReceived' = nReceived + 1 /\ nHdr' = 0 /\ nPayload' = 0
      /\ (\A i \in 1..nReceived : Received(i)' = Received(i))
      /\ received'[nReceived + 1] = r
  <2>1. /\ received' \in Seq([hdr : Seq(Byte), payload : Seq(Byte)])
        /\ Len(received') = Len(received) + 1
        /\ (\A i \in 1..Len(received) : received'[i] = received[i])
        /\ received'[Len(received) + 1] = r
    BY <1>1, <1>6, <1>7, AppendProperties
  <2>2. nHdr' = 0 /\ nPayload' = 0
    BY <1>7 DEF nHdr, nPayload
  <2> QED
    BY <2>1, <2>2 DEF nReceived, Received
<1>9. TypeOK'
  <2>1. hdr' \in Seq(Byte) /\ payload' \in Seq(Byte) /\ rpc' \in {"hdr", "payload", "end"}
    BY <1>7, EmptySeq
  <2>2. received' \in Seq([hdr : Seq(Byte), payload : Seq(Byte)])
    BY <1>8
  <2> QED
    BY <1>1, <2>1, <2>2 DEF TypeOK
<1>10. /\ nOrder' = nOrder /\ Pkt(nOrder)' = Pkt(nOrder) /\ Size(nOrder)' = Size(nOrder)
       /\ (\A k : Pkt(k)' = Pkt(k)) /\ (\A k : Size(k)' = Size(k))
       /\ \A s : StartsInv(s) => StartsInv(s)'
  BY SameOrder
<1>11. nReceived' <= nOrder'
  BY <1>2, <1>8, <1>10
<1>12. \A i : Whole(Pkt(i))' = Whole(Pkt(i))
  BY <1>10 DEF Whole, Bytes, Total
<1>13. Received(nReceived)' = r /\ Pkt(nReceived)' = q
  <2>1. received'[nReceived'] = r /\ order'[nReceived'] = order[nReceived + 1]
    BY <1>8
  <2> QED
    BY <2>1 DEF Received, Pkt, q
<1>14. \A i \in 1..nReceived : Received(i)' = Whole(Pkt(i))'
  BY <1>8, <1>10, <1>12 DEF AllWhole
<1>15. /\ Whole(q).hdr = Bytes(q, 0, 0 + HdrSize)
       /\ Whole(q).payload = Bytes(q, HdrSize, HdrSize + PayloadSize[q])
       /\ Whole(q) = [hdr |-> Whole(q).hdr, payload |-> Whole(q).payload]
  BY <1>2 DEF Whole, Total
<1>16. CASE nHdr = HdrSize /\ HdrSize + nPayload = Size(nReceived + 1)
  <2>1. hdr = Bytes(q, 0, 0 + Len(hdr)) /\ payload = Bytes(q, HdrSize, HdrSize + Len(payload))
    BY <1>1, <1>2, <1>3, <1>5, SeqIsBytes
  <2>2. Len(hdr) = HdrSize /\ HdrSize + Len(payload) = HdrSize + PayloadSize[q]
    BY <1>3, <1>16 DEF nHdr, nPayload
  <2>3. r = Whole(q)
    BY <1>15, <2>1, <2>2 DEF r
  <2>4. AllWhole'
    <3>1. ASSUME NEW i \in 1..nReceived'
          PROVE  Received(i)' = Whole(Pkt(i))'
      <4>1. CASE i \in 1..nReceived
        BY <1>14, <4>1
      <4>2. CASE i = nReceived'
        <5>1. received'[i] = r /\ order[i] = q
          BY <1>8, <4>2 DEF Pkt, q
        <5>2. Received(i)' = r /\ Pkt(i)' = q
          BY <1>10, <5>1 DEF Received, Pkt
        <5> QED
          BY <1>10, <1>12, <2>3, <5>2
      <4> QED
        BY <1>2, <1>8, <4>1, <4>2
    <3> QED
      BY <3>1 DEF AllWhole
  <2>5. ReadPos(st)' = ReadPos(st)
    <3>1. nReceived + 1 \in 1..nOrder
      BY <1>2
    <3>2. st[(nReceived + 1) + 1] = st[nReceived + 1] + Size(nReceived + 1)
      BY <3>1 DEF Frame, StartsInv
    <3>3. ReadPos(st)' = st[(nReceived + 1) + 1] + 0 + 0
      BY <1>8 DEF ReadPos
    <3>4. st[(nReceived + 1) + 1] \in Nat /\ st[nReceived + 1] \in Nat
      BY <1>2
    <3>5. ReadPos(st) = st[nReceived + 1] + nHdr + nPayload
      BY DEF ReadPos
    <3> QED
      BY <1>2, <1>16, <3>2, <3>3, <3>4, <3>5
  <2>6. nChan' = nChan /\ \A i : ChanByte(i)' = ChanByte(i)
    BY DEF nChan, ChanByte
  <2>7. StartsInv(st)' /\ WriterInv(st)'
    BY <1>10, <2>5, <2>6 DEF Frame, WriterInv
  <2>8. ChanInv(st)'
    BY <1>10, <2>5, <2>6 DEF Frame, ChanInv
  <2>9. ReaderInv'
    BY <1>2, <1>7, <1>8 DEF ReaderInv
  <2> QED
    BY <1>9, <1>11, <2>4, <2>7, <2>8, <2>9 DEF FramedInv, Frame
<1>17. CASE AtEOF
  <2>1. AtEOF'
    BY <1>17 DEF AtEOF
  <2>2. IsPrefix(r.hdr, Whole(q).hdr)
    <3>1. Len(hdr) <= HdrSize
      BY <1>2 DEF nHdr
    <3>2. IsPrefix(hdr, Bytes(q, 0, 0 + HdrSize))
      BY <1>1, <1>2, <1>3, <1>5, <3>1, SeqIsPrefix
    <3> QED
      BY <1>6, <1>15, <3>2
  <2>3. IsPrefix(r.payload, Whole(q).payload)
    <3>1. Len(payload) <= PayloadSize[q]
      BY <1>4 DEF nPayload
    <3>2. IsPrefix(payload, Bytes(q, HdrSize, HdrSize + PayloadSize[q]))
      BY <1>1, <1>2, <1>3, <1>5, <3>1, SeqIsPrefix
    <3> QED
      BY <1>6, <1>15, <3>2
  <2>4. Whole(Pkt(nReceived))' = Whole(q)
    BY <1>13 DEF Whole, Bytes, Total
  <2>5. /\ IsPrefix(Received(nReceived).hdr, Whole(Pkt(nReceived)).hdr)'
        /\ IsPrefix(Received(nReceived).payload, Whole(Pkt(nReceived)).payload)'
    BY <1>13, <2>2, <2>3, <2>4
  <2>6. \A i \in 1..(nReceived' - 1) : Received(i)' = Whole(Pkt(i))'
    BY <1>2, <1>8, <1>14
  <2>7. Cut'
    BY <1>2, <1>7, <1>8, <2>1, <2>5, <2>6 DEF Cut
  <2> QED
    BY <1>9, <1>11, <2>7 DEF FramedInv
<1> QED
  BY <1>16, <1>17

(* rio_readn has returned for the header. *)
LEMMA HdrDoneStep ==
  ASSUME FramedInv, HdrDone
  PROVE  FramedInv'
<1>1. TypeOK /\ nHdr \in Nat /\ nPayload \in Nat
  BY Lengths DEF FramedInv
<1>2. /\ rpc = "hdr" /\ (nHdr = HdrSize \/ AtEOF)
      /\ UNCHANGED <<chan, closed, lock, nwritten, order>>
  BY DEF HdrDone, nHdr
<1>3. (hdr = <<>> <=> nHdr = 0) /\ HdrSize \in Nat \ {0}
  BY Sizes, EmptySeq DEF FramedInv, TypeOK, nHdr
<1>4. CASE hdr = <<>> /\ rpc' = "end" /\ UNCHANGED <<hdr, payload, received>>
  <2>1. TypeOK'
    BY <1>1, <1>2, <1>4 DEF TypeOK
  <2>2. /\ nReceived' = nReceived /\ nOrder' = nOrder /\ nHdr' = nHdr /\ nPayload' = nPayload
        /\ (\A i : Received(i)' = Received(i)) /\ (\A k : Pkt(k)' = Pkt(k))
        /\ (AtEOF' <=> AtEOF) /\ Received(nReceived)' = Received(nReceived)
        /\ Whole(Pkt(nReceived))' = Whole(Pkt(nReceived))
        /\ (\A i : Whole(Pkt(i))' = Whole(Pkt(i)))
    BY <1>2, <1>4 DEF nReceived, nOrder, nHdr, nPayload, Received, Pkt, AtEOF, Whole, Bytes, Total
  <2>3. CASE Cut
    <3>1. Cut'
      BY <1>4, <2>2, <2>3 DEF Cut
    <3> QED
      BY <2>1, <2>2, <3>1 DEF FramedInv
  <2>4. CASE AllWhole
    <3>1. AllWhole'
      BY <2>2, <2>4 DEF AllWhole
    <3> QED
      BY <1>4, <2>1, <2>2, <3>1 DEF FramedInv
  <2> QED
    BY <2>3, <2>4 DEF FramedInv
<1>5. CASE hdr # <<>>
  <2>1. nHdr > 0 /\ rpc # "end"
    BY <1>1, <1>2, <1>3, <1>5
  <2>2. AllWhole
    BY <2>1, InFrame
  <2>3. PICK st \in [Nat -> Nat] : Frame(st)
    BY <2>1, InFrame
  <2>4. ReaderInv /\ nPayload = 0 /\ nReceived < nOrder /\ nHdr <= HdrSize
    BY <1>1, <1>2, <2>1, <2>3 DEF Frame, ReaderInv
  <2>5. Size(nReceived + 1) \in Nat /\ Size(nReceived + 1) >= HdrSize
    <3>1. nReceived + 1 \in 1..nOrder
      BY <1>1, <2>4, Lengths
    <3> QED
      BY <1>1, <3>1, Lengths
  <2>6. HdrSize + nPayload <= Size(nReceived + 1)
    BY <1>3, <2>4, <2>5
  <2>7. nHdr = HdrSize => HdrPayloadSize(hdr) = Size(nReceived + 1) - HdrSize
    <3> HAVE nHdr = HdrSize
    <3>1. /\ HdrPayloadSize(hdr) = PayloadSize[Pkt(nReceived + 1)]
          /\ PayloadSize[Pkt(nReceived + 1)] \in Nat
          /\ Size(nReceived + 1) = HdrSize + PayloadSize[Pkt(nReceived + 1)]
      BY <1>1, <2>4, WholeHdr
    <3> QED
      BY <1>3, <3>1
  <2>8. CASE HdrPayloadSize(hdr) = 0 /\ ReturnPacket
    <3>1. AtEOF \/ (nHdr = HdrSize /\ HdrSize + nPayload = Size(nReceived + 1))
      <4>1. nHdr = HdrSize => HdrSize + nPayload = Size(nReceived + 1)
        <5> HAVE nHdr = HdrSize
        <5>1. Size(nReceived + 1) - HdrSize = 0
          BY <2>7, <2>8
        <5> QED
          BY <1>3, <2>4, <2>5, <5>1
      <4> QED
        BY <1>2, <4>1
    <3> QED
      BY <1>2, <2>1, <2>2, <2>3, <2>6, <2>8, <3>1, ReturnStep
  <2>9. CASE rpc' = "payload" /\ UNCHANGED <<hdr, payload, received>>
    <3>1. TypeOK'
      BY <1>1, <1>2, <2>9 DEF TypeOK
    <3>2. /\ nOrder' = nOrder /\ Pkt(nOrder)' = Pkt(nOrder) /\ Size(nOrder)' = Size(nOrder)
          /\ (\A k : Pkt(k)' = Pkt(k)) /\ (\A k : Size(k)' = Size(k))
          /\ \A s : StartsInv(s) => StartsInv(s)'
      BY <1>2, SameOrder
    <3>3. /\ nReceived' = nReceived /\ nHdr' = nHdr /\ nPayload' = nPayload /\ nChan' = nChan
          /\ (\A i : HdrByte(i)' = HdrByte(i)) /\ (\A i : PayloadByte(i)' = PayloadByte(i))
          /\ (\A i : ChanByte(i)' = ChanByte(i)) /\ (AtEOF' <=> AtEOF)
          /\ Pkt(nReceived + 1)' = Pkt(nReceived + 1) /\ Size(nReceived + 1)' = Size(nReceived + 1)
      BY <1>2, <2>9 DEF nReceived, nHdr, nPayload, nChan, HdrByte, PayloadByte, ChanByte, AtEOF,
                        Pkt, Size, Total
    <3>4. ReadPos(st)' = ReadPos(st)
      BY <3>3 DEF ReadPos
    <3>5. StartsInv(st)' /\ WriterInv(st)' /\ ChanInv(st)'
      BY <1>2, <2>3, <3>2, <3>3, <3>4 DEF Frame, WriterInv, ChanInv
    <3>6. ReaderInv'
      BY <1>2, <2>1, <2>4, <2>6, <2>9, <3>2, <3>3 DEF ReaderInv
    <3>7. Frame(st)'
      BY <3>5, <3>6 DEF Frame
    <3> QED
      BY <1>2, <2>2, <2>9, <3>1, <3>7, ReaderStep
  <2> QED
    BY <1>5, <2>8, <2>9 DEF HdrDone
<1> QED
  BY <1>4, <1>5 DEF HdrDone

(* rio_readn has returned for the payload. *)
LEMMA PayloadDoneStep ==
  ASSUME FramedInv, PayloadDone
  PROVE  FramedInv'
<1>1. TypeOK /\ nHdr \in Nat /\ nPayload \in Nat
  BY Lengths DEF FramedInv
<1>2. /\ rpc = "payload" /\ (nPayload = HdrPayloadSize(hdr) \/ AtEOF)
      /\ UNCHANGED <<chan, closed, lock, nwritten, order>>
  BY DEF PayloadDone, nPayload
<1>3. payload # <<>> => nPayload > 0
  BY EmptySeq DEF FramedInv, TypeOK, nPayload
<1>4. AllWhole
  BY <1>2, InFrame
<1>5. PICK st \in [Nat -> Nat] : Frame(st)
  BY <1>2, InFrame
<1>6. CASE payload = <<>> /\ rpc' = "end" /\ UNCHANGED <<hdr, payload, received>>
  <2>1. TypeOK'
    BY <1>1, <1>2, <1>6 DEF TypeOK
  <2> QED
    BY <1>2, <1>4, <1>6, <2>1, ReaderStep
<1>7. CASE payload # <<>> /\ ReturnPacket
  <2>1. /\ ReaderInv /\ nHdr > 0 /\ nHdr = HdrSize
        /\ HdrSize + nPayload <= Size(nReceived + 1)
    BY <1>2, <1>3, <1>5, <1>7 DEF Frame, ReaderInv
  <2>2. /\ HdrPayloadSize(hdr) = PayloadSize[Pkt(nReceived + 1)]
        /\ Size(nReceived + 1) = HdrSize + PayloadSize[Pkt(nReceived + 1)]
    BY <1>1, <2>1, WholeHdr
  <2>3. nPayload = HdrPayloadSize(hdr) => HdrSize + nPayload = Size(nReceived + 1)
    BY <2>2
  <2>4. AtEOF \/ (nHdr = HdrSize /\ HdrSize + nPayload = Size(nReceived + 1))
    BY <1>2, <2>1, <2>3
  <2> QED
    BY <1>2, <1>4, <1>5, <1>7, <2>1, <2>4, ReturnStep
<1> QED
  BY <1>6, <1>7 DEF PayloadDone

-----------------------------------------------------------------------------
(* The connection starts with nothing sent and nothing received. *)
LEMMA InitFramed == Init => FramedInv
<1> SUFFICES ASSUME Init
             PROVE  FramedInv
  OBVIOUS
<1>1. TypeOK
  <2>1. <<>> \in Seq(Byte) /\ <<>> \in Seq(Packets)
        /\ <<>> \in Seq([hdr : Seq(Byte), payload : Seq(Byte)])
    BY EmptySeq
  <2> QED
    BY <2>1 DEF Init, TypeOK
<1>2. /\ nOrder = 0 /\ nReceived = 0 /\ nHdr = 0 /\ nPayload = 0 /\ nChan = 0
      /\ lock = {} /\ rpc = "hdr" /\ nwritten = 0
  BY DEF Init, nOrder, nReceived, nHdr, nPayload, nChan
<1>3. AllWhole
  BY <1>2 DEF AllWhole
<1>4. PICK st \in [Nat -> Nat] : \A k \in Nat : st[k] = 0
  <2> DEFINE z == [k \in Nat |-> 0]
  <2>1. z \in [Nat -> Nat] /\ \A k \in Nat : z[k] = 0
    OBVIOUS
  <2> HIDE DEF z
  <2> QED
    BY <2>1
<1>5. st[1] = 0
  BY <1>4
<1>6. StartsInv(st)
  BY <1>2, <1>4, <1>5 DEF StartsInv
<1>7. WriterInv(st) /\ ReadPos(st) = 0
  BY <1>2, <1>5 DEF WriterInv, ReadPos
<1>8. ReaderInv
  BY <1>2, Sizes DEF ReaderInv
<1>9. ChanInv(st)
  BY <1>2 DEF ChanInv
<1> QED
  BY <1>1, <1>2, <1>3, <1>6, <1>7, <1>8, <1>9 DEF FramedInv, Frame

(* Every step keeps the invariant. *)
LEMMA NextFramed == FramedInv /\ [Next]_vars => FramedInv'
<1> SUFFICES ASSUME FramedInv, [Next]_vars
             PROVE  FramedInv'
  OBVIOUS
<1>1. CASE Recv
  <2>1. CASE \E n \in 1..BufSize : ReadHdr(n) \/ ReadPayload(n)
    BY <2>1, ReadHdrStep, ReadPayloadStep
  <2>2. CASE HdrDone \/ PayloadDone
    BY <2>2, HdrDoneStep, PayloadDoneStep
  <2> QED
    BY <1>1, <2>1, <2>2 DEF Recv
<1>2. CASE Shutdown
  BY <1>2, ShutdownStep
<1>3. ASSUME NEW p \in Packets, SendPacket(p)
      PROVE  FramedInv'
  BY <1>3, SendPacketStep
<1>4. ASSUME NEW p \in Packets, Send(p)
      PROVE  FramedInv'
  <2>1. CASE \E n \in 1..BufSize : rio_writen(p, n)
    BY <2>1, rio_writenStep
  <2>2. CASE SendReturns(p)
    BY <2>2, SendReturnsStep
  <2> QED
    BY <1>4, <2>1, <2>2 DEF Send
<1>5. CASE UNCHANGED vars
  <2>1. UNCHANGED <<chan, closed, lock, nwritten, order, hdr, payload, rpc, received>>
    BY <1>5 DEF vars
  <2>2. /\ nOrder' = nOrder /\ nReceived' = nReceived /\ nHdr' = nHdr
        /\ nPayload' = nPayload /\ nChan' = nChan /\ AtEOF' = AtEOF /\ TypeOK'
    BY <2>1 DEF FramedInv, TypeOK, AtEOF, nOrder, nReceived, nHdr, nPayload, nChan
  <2>3. \A k : /\ Pkt(k)' = Pkt(k) /\ Size(k)' = Size(k) /\ Received(k)' = Received(k)
               /\ HdrByte(k)' = HdrByte(k) /\ PayloadByte(k)' = PayloadByte(k)
               /\ ChanByte(k)' = ChanByte(k)
    BY <2>1 DEF Pkt, Size, Received, HdrByte, PayloadByte, ChanByte
  <2>4. Cut => Cut'
    BY <2>1, <2>2, <2>3 DEF Cut
  <2>5. AllWhole => AllWhole'
    BY <2>2, <2>3 DEF AllWhole
  <2>6. ASSUME NEW st \in [Nat -> Nat], Frame(st)
        PROVE  Frame(st)'
    <3>1. ReadPos(st)' = ReadPos(st)
      BY <2>2 DEF ReadPos
    <3>2. StartsInv(st)'
      BY <2>2, <2>3, <2>6 DEF Frame, StartsInv
    <3>3. WriterInv(st)'
      BY <2>1, <2>2, <2>3, <2>6, <3>1 DEF Frame, WriterInv
    <3>4. ReaderInv'
      BY <2>1, <2>2, <2>3, <2>6 DEF Frame, ReaderInv
    <3>5. ChanInv(st)'
      BY <2>2, <2>3, <2>6, <3>1 DEF Frame, ChanInv
    <3> QED
      BY <3>2, <3>3, <3>4, <3>5 DEF Frame
  <2>7. (\E st \in [Nat -> Nat] : Frame(st)) => (\E st \in [Nat -> Nat] : Frame(st))'
    BY <2>6
  <2> QED
    BY <2>1, <2>2, <2>4, <2>5, <2>7 DEF FramedInv
<1> QED
  BY <1>1, <1>2, <1>3, <1>4, <1>5 DEF Next

(* The invariant says that the received packets are framed. *)
LEMMA FramedInvImplies == FramedInv => PacketsFramed
<1> SUFFICES ASSUME FramedInv, NEW i \in DOMAIN received
             PROVE  /\ i <= Len(order)
                    /\ \/ received[i] = Whole(order[i])
                       \/ /\ i = Len(received) /\ AtEOF
                          /\ IsPrefix(received[i].hdr, Whole(order[i]).hdr)
                          /\ IsPrefix(received[i].payload, Whole(order[i]).payload)
  BY DEF PacketsFramed
<1>1. nReceived \in Nat /\ nOrder \in Nat /\ nReceived <= nOrder
  BY Lengths DEF FramedInv
<1>2. i \in 1..nReceived
  BY LenProperties DEF FramedInv, TypeOK, nReceived
<1>3. i <= Len(order)
  BY <1>1, <1>2 DEF nOrder
<1>4. CASE AllWhole
  BY <1>2, <1>3, <1>4 DEF AllWhole, Received, Pkt
<1>5. CASE Cut
  <2>1. CASE i \in 1..(nReceived - 1)
    BY <1>3, <1>5, <2>1 DEF Cut, Received, Pkt
  <2>2. CASE i = nReceived
    BY <1>3, <1>5, <2>2 DEF Cut, Received, Pkt, nReceived
  <2> QED
    BY <1>1, <1>2, <2>1, <2>2
<1> QED
  BY <1>4, <1>5 DEF FramedInv

(* proto_recv_packet returns the packets that were sent, whole and in the  *)
(* order of the lock; only the last one before the end of the connection   *)
(* may be cut short.                                                       *)
THEOREM PacketsFramedCorrect == Spec => []PacketsFramed
<1>1. Spec => []FramedInv
  BY InitFramed, NextFramed, PTL DEF Spec
<1> QED
  BY <1>1, FramedInvImplies, PTL

=============================================================================
