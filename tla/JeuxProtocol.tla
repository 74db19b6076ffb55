---------------------------- MODULE JeuxProtocol -----------------------------
(***************************************************************************)
(* Packets over a stream (hw5, protocol.c, with rio_readn and rio_writen   *)
(* of csapp.c): one direction of a Jeux connection.  Threads send packets  *)
(* with proto_send_packet while they hold the client's lock, and one       *)
(* thread receives them with proto_recv_packet, until the connection ends. *)
(*                                                                         *)
(* A byte is the packet it belongs to and its offset, the header first.    *)
(* read() and write() move as many bytes as the socket has at the moment.  *)
(***************************************************************************)
EXTENDS Naturals, Sequences, SequencesExt, FiniteSets

CONSTANTS
  Packets,     \* the packets that may be sent
  PayloadSize, \* PayloadSize[p]: the size field of its header
  HdrSize,     \* sizeof(JEUX_PACKET_HEADER): 16
  SizeEnd,     \* offset after the size field: 6
  BufSize      \* bytes the socket holds

ASSUME ProtocolAssumption ==
  /\ PayloadSize \in [Packets -> Nat]
  /\ HdrSize \in Nat /\ SizeEnd \in 1..HdrSize /\ BufSize \in Nat \ {0}

VARIABLES
  chan,     \* bytes written and not yet read
  closed,   \* the sending side of the connection is shut
  lock,     \* the packet the lock is held for, {} or a singleton
  nwritten, \* bytes of it that rio_writen has written
  order,    \* the packets in the order in which the lock was taken for them
  sent,     \* the packets proto_send_packet has returned 0 for
  hdr,      \* bytes of the header that rio_readn has read
  payload,  \* bytes of the payload
  rpc,      \* where proto_recv_packet is: "hdr", "payload", or "end"
  received  \* what it has returned 0 with

vars == <<chan, closed, lock, nwritten, order, sent, hdr, payload, rpc, received>>

Init ==
  /\ chan = <<>> /\ closed = FALSE
  /\ lock = {} /\ nwritten = 0 /\ order = <<>> /\ sent = {}
  /\ hdr = <<>> /\ payload = <<>> /\ rpc = "hdr" /\ received = <<>>

Total(p) == HdrSize + PayloadSize[p]

Bytes(p, from, to) == [i \in 1..(to - from) |-> <<p, from + i - 1>>]

-----------------------------------------------------------------------------
(* client_send_packet takes the client's lock around proto_send_packet.    *)
SendPacket(p) ==
  /\ lock = {} /\ ~Contains(order, p)
  /\ lock' = {p} /\ nwritten' = 0
  /\ order' = Append(order, p)
  /\ UNCHANGED <<chan, closed, sent, hdr, payload, rpc, received>>

(* write() accepts n bytes of what is left of the header, or of the        *)
(* payload once the header is out; rio_writen goes on until all are.       *)
Left(p) == (IF nwritten < HdrSize THEN HdrSize ELSE Total(p)) - nwritten

rio_writenOnce(p, n) ==
  /\ lock = {p} /\ ~closed
  /\ n \in 1..Left(p) /\ Len(chan) + n <= BufSize
  /\ chan' = chan \o Bytes(p, nwritten, nwritten + n)
  /\ nwritten' = nwritten + Left(p)
  /\ UNCHANGED <<closed, lock, order, sent, hdr, payload, rpc, received>>

rio_writen(p, n) ==
  /\ lock = {p} /\ ~closed
  /\ n \in 1..Left(p) /\ Len(chan) + n <= BufSize
  /\ chan' = chan \o Bytes(p, nwritten, nwritten + n)
  /\ nwritten' = nwritten + n
  /\ UNCHANGED <<closed, lock, order, sent, hdr, payload, rpc, received>>

(* proto_send_packet returns 0, or -1 when write() fails. *)
SendReturns(p) ==
  /\ lock = {p}
  /\ \/ nwritten = Total(p) /\ sent' = sent \union {p}
     \/ nwritten < Total(p) /\ closed /\ UNCHANGED sent
  /\ lock' = {}
  /\ UNCHANGED <<chan, closed, nwritten, order, hdr, payload, rpc, received>>

(* The connection ends; what was written before can still be read. *)
Shutdown ==
  /\ ~closed /\ closed' = TRUE
  /\ UNCHANGED <<chan, lock, nwritten, order, sent, hdr, payload, rpc, received>>

-----------------------------------------------------------------------------
(* hdr->size: the header starts out as zeros, so the size of a header that *)
(* was cut off before the end of its size field is 0 (for payloads below   *)
(* 256 bytes, whose size is in the last byte of the field).                *)
HdrPayloadSize(h) == IF Len(h) >= SizeEnd THEN PayloadSize[h[SizeEnd][1]] ELSE 0

(* read() returns n bytes. *)
ReadHdr(n) ==
  /\ rpc = "hdr" /\ n \in 1..(HdrSize - Len(hdr)) /\ n <= Len(chan)
  /\ hdr' = hdr \o SubSeq(chan, 1, n)
  /\ chan' = SubSeq(chan, n + 1, Len(chan))
  /\ UNCHANGED <<closed, lock, nwritten, order, sent, payload, rpc, received>>

ReadPayload(n) ==
  /\ rpc = "payload" /\ n \in 1..(HdrPayloadSize(hdr) - Len(payload)) /\ n <= Len(chan)
  /\ payload' = payload \o SubSeq(chan, 1, n)
  /\ chan' = SubSeq(chan, n + 1, Len(chan))
  /\ UNCHANGED <<closed, lock, nwritten, order, sent, hdr, rpc, received>>

(* read() returns 0 and rio_readn what it has so far. *)
AtEOF == closed /\ chan = <<>>

(* proto_recv_packet returns 0: the packet goes to the service loop, which *)
(* calls it again with a header of zeros.                                  *)
ReturnPacket ==
  /\ received' = Append(received, [hdr |-> hdr, payload |-> payload])
  /\ hdr' = <<>> /\ payload' = <<>> /\ rpc' = "hdr"

HdrDoneAlwaysPayload ==
  /\ rpc = "hdr" /\ (Len(hdr) = HdrSize \/ AtEOF)
  /\ rpc' = IF hdr = <<>> THEN "end" ELSE "payload"
  /\ UNCHANGED <<hdr, payload, received, chan, closed, lock, nwritten, order, sent>>

(* rio_readn has returned for the header: no byte is an error, some bytes  *)
(* are a header.                                                           *)
HdrDone ==
  /\ rpc = "hdr" /\ (Len(hdr) = HdrSize \/ AtEOF)
  /\ \/ hdr = <<>> /\ rpc' = "end" /\ UNCHANGED <<hdr, payload, received>>
     \/ hdr # <<>> /\ HdrPayloadSize(hdr) = 0 /\ ReturnPacket
     \/ hdr # <<>> /\ HdrPayloadSize(hdr) # 0 /\ rpc' = "payload"
        /\ UNCHANGED <<hdr, payload, received>>
  /\ UNCHANGED <<chan, closed, lock, nwritten, order, sent>>

PayloadDone ==
  /\ rpc = "payload" /\ (Len(payload) = HdrPayloadSize(hdr) \/ AtEOF)
  /\ \/ payload = <<>> /\ rpc' = "end" /\ UNCHANGED <<hdr, payload, received>>
     \/ payload # <<>> /\ ReturnPacket
  /\ UNCHANGED <<chan, closed, lock, nwritten, order, sent>>

Recv ==
  \/ \E n \in 1..BufSize : ReadHdr(n) \/ ReadPayload(n)
  \/ HdrDone \/ PayloadDone

Send(p) == (\E n \in 1..BufSize : rio_writen(p, n)) \/ SendReturns(p)

Next == Recv \/ Shutdown \/ \E p \in Packets : SendPacket(p) \/ Send(p)

(* The receiver and a sender inside proto_send_packet keep running. *)
Spec == Init /\ [][Next]_vars /\ WF_vars(Recv) /\ \A p \in Packets : WF_vars(Send(p))

-----------------------------------------------------------------------------
Whole(p) == [hdr |-> Bytes(p, 0, HdrSize), payload |-> Bytes(p, HdrSize, Total(p))]

(* However read() and write() cut the stream up, proto_recv_packet returns *)
(* the packets that were sent, whole and in the order of the lock.  Only   *)
(* the last one before the connection ends may be cut short, and then the  *)
(* connection has ended and nothing is received after it.                  *)
PacketsFramed ==
  \A i \in DOMAIN received :
    /\ i <= Len(order)
    /\ \/ received[i] = Whole(order[i])
       \/ /\ i = Len(received) /\ AtEOF
          /\ IsPrefix(received[i].hdr, Whole(order[i]).hdr)
          /\ IsPrefix(received[i].payload, Whole(order[i]).payload)

(* Every packet that proto_send_packet has returned 0 for is received,     *)
(* also when the connection ends behind it.                                *)
SentIsReceived ==
  \A p \in Packets : (p \in sent) ~> (\E i \in DOMAIN received : received[i] = Whole(p))

=============================================================================
