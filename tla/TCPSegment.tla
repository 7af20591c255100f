----------------------------- MODULE TCPSegment -----------------------------
(***************************************************************************)
(* The pure part of the TCP module: the segments packet_factory.cc builds  *)
(* and the arithmetic that tcp_transit.cc does on a connection record when *)
(* a segment is received or sent.  A segment's payload is a sequence of    *)
(* bytes, and a byte is known by its place in its writer's stream (1, 2,   *)
(* ...), which is all the properties need to tell bytes apart.             *)
(***************************************************************************)
EXTENDS Integers, Sequences, TCPEvents

CONSTANTS
  MSS,          \* TCP_MAXIMUM_SEGMENT_SIZE: 536 in tcpstate.h
  Window,       \* N: 16 segments in tcpstate.cc
  PadTo,        \* payload that fills a minimal Ethernet frame: 6 bytes after
                \* two 20-byte headers, 0 on a link that does not pad
  Width,        \* number of values of an unsigned int: 2^32
  GarbageLen    \* what postSend's uninitialised datalen may hold

ASSUME MSSAssumption     == MSS \in Nat \ {0}
ASSUME WindowAssumption  == Window \in Nat \ {0}
ASSUME PadAssumption     == PadTo \in Nat
ASSUME WidthAssumption   == Width \in Nat \ {0}
ASSUME GarbageAssumption == GarbageLen \subseteq Nat /\ GarbageLen # {}

Packet == [flags : SUBSET Flag, seq : Nat \ {0}, ackno : Nat, data : Seq(Nat)]

MinOf(a, b) == IF a < b THEN a ELSE b
MaxOf(a, b) == IF a > b THEN a ELSE b

-----------------------------------------------------------------------------
(* The connection record: TCPState with bTmrActive.  "room" is what the    *)
(* send loop of establishedLoop has still to send; it is 0 whenever main   *)
(* is back in MinetGetNextEvent.                                           *)

Record == [state : State, lastSent : Nat \ {0}, lastAcked : Nat, lastRecvd : Nat,
           sendBuf : Seq(Nat), recvBuf : Seq(Nat), tmr : BOOLEAN, room : Nat]

\* TCPState(getSeq(), CLOSED, 0) as addClosedConnection pushes it.
ClosedRecord(isn) ==
  [state |-> "CLOSED", lastSent |-> isn, lastAcked |-> isn, lastRecvd |-> 0,
   sendBuf |-> <<>>, recvBuf |-> <<>>, tmr |-> TRUE, room |-> 0]

-----------------------------------------------------------------------------
(* packet_factory.cc.  Only synack and ack set the acknowledgement number; *)
(* the zeroed header shows through in the others.  fin takes last_sent     *)
(* itself as its sequence number, the others last_sent + 1.                *)

Syn(t)    == [flags |-> {"SYN"}, seq |-> t.lastSent + 1, ackno |-> 0,
              data |-> <<>>]
\* SynAck as it would be with SET_ACK and SetAckNum forgotten (mutant).
SynAckBare(t) == Syn(t)
SynAck(t) == [flags |-> {"SYN", "ACK"}, seq |-> t.lastSent + 1,
              ackno |-> t.lastRecvd + 1, data |-> <<>>]
Ack(t, d) == [flags |-> {"ACK"}, seq |-> t.lastSent + 1,
              ackno |-> t.lastRecvd + 1, data |-> d]
Fin(t)    == [flags |-> {"FIN"}, seq |-> t.lastSent, ackno |-> 0,
              data |-> <<>>]

-----------------------------------------------------------------------------
(* Sequence space a segment takes when its payload is still in the packet. *)
SegLen(p) == IF p.flags \cap {"SYN", "FIN"} # {} THEN 1 ELSE Len(p.data)

(* extractPayload takes the payload out of the packet.  The second call    *)
(* that establishedLoop makes through postRecv finds only the padding of   *)
(* the frame, and takes no more of it than the length the headers give.    *)
Residue(p) == MinOf(Len(p.data), MaxOf(0, PadTo - Len(p.data)))

(* postRecv accepts the expected segment, or any while nothing was received.*)
\* postRecv without its test of the sequence number (mutant).
AcceptsAny(t, p) == TRUE
Accepts(t, p) == p.seq = t.lastRecvd + 1 \/ t.lastRecvd = 0

\* postRecv that takes last_recvd for the next byte expected (mutant).
PostRecvNext(t, p, len) ==
  [t EXCEPT !.lastAcked = IF p.ackno > @ + 1 THEN p.ackno - 1 ELSE @,
            !.lastRecvd = IF Accepts(t, p) THEN p.seq + len ELSE @]
PostRecv(t, p, len) ==
  [t EXCEPT !.lastAcked = IF p.ackno > @ + 1 THEN p.ackno - 1 ELSE @,
            !.lastRecvd = IF Accepts(t, p) THEN p.seq + len - 1 ELSE @]

\* postSend that forgets the length of what it sends (mutant).
PostSendSeq(t, p, len) == [t EXCEPT !.lastSent = MaxOf(@, p.seq - 1)]
PostSend(t, p, len) == [t EXCEPT !.lastSent = MaxOf(@, p.seq + len - 1)]

(* Room for sending as establishedLoop computes it, in unsigned arithmetic.*)
Unacked(t)  == t.lastSent - t.lastAcked
\* The room with the window forgotten (mutant).
SendRoomUnbounded(t) == (Len(t.sendBuf) - Unacked(t)) % Width
\* The room in signed arithmetic (mutant).
SendRoomSigned(t) == MinOf(Len(t.sendBuf), Window) - Unacked(t)
SendRoom(t) == (MinOf(Len(t.sendBuf), Window) - Unacked(t)) % Width

(* A send that finds nothing under way starts the timer.                   *)
\* The send loop without its setTimer (mutant).
TimerUnset(t)   == t.tmr
TimerOnSend(t)  == t.tmr \/ t.lastAcked = t.lastSent

(* Buffer::Erase(0, n) and Buffer::Extract(off, n): what is taken, and     *)
(* what stays.  Extract is called with off <= Len(b) (see TCPConnection).  *)
EraseFront(b, n)      == SubSeq(b, MinOf(n, Len(b)) + 1, Len(b))
Extracted(b, off, n)  == SubSeq(b, off + 1, MinOf(off + n, Len(b)))
AfterExtract(b, off, n) ==
  SubSeq(b, 1, off) \o SubSeq(b, MinOf(off + n, Len(b)) + 1, Len(b))
=============================================================================
