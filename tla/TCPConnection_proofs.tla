------------------------ MODULE TCPConnection_proofs ------------------------
(***************************************************************************)
(* Proofs about TCPConnection, for all values of its constants.  First:    *)
(* the variables keep their types, and what one host takes for received or *)
(* acknowledged the other has sent or received.  Then: answers meet their  *)
(* calls, the send loop stays in its window, its timer runs, the two ends  *)
(* agree that a connection is open or being closed, and on a link that     *)
(* keeps the order of segments a record is dropped only when both FINs     *)
(* have been seen.                                                         *)
(*                                                                         *)
(* The second part rests on a connection being opened once: the record is  *)
(* as addClosedConnection made it, or no open is under way any more.       *)
(***************************************************************************)
EXTENDS TCPConnection, TLAPS

-----------------------------------------------------------------------------
(* Operators of TCPSegment.                                                *)

\* The other host is a host, and its other host is this one.
LEMMA PeerFacts ==
  ASSUME NEW h \in Host
  PROVE  Peer(h) \in Host /\ Peer(h) # h /\ Peer(Peer(h)) = h
  BY HostAssumption DEF Host, Peer

\* What postRecv may count of a segment is never more than what it carries.
LEMMA SegmentLengths ==
  ASSUME NEW p \in Packet
  PROVE  /\ SegLen(p) \in Nat
         /\ Residue(p) \in Nat /\ Residue(p) <= Len(p.data)
  BY PadAssumption DEF Packet, SegLen, Residue, MinOf, MaxOf

\* postRecv keeps a record a record.
LEMMA PostRecvType ==
  ASSUME NEW t \in Record, NEW p \in Packet, NEW len \in Nat
  PROVE  PostRecv(t, p, len) \in Record
<1>1. t.lastAcked \in Nat /\ t.lastRecvd \in Nat
  BY DEF Record
<1>2. p.seq + len - 1 \in Nat /\ (p.ackno > t.lastAcked + 1 => p.ackno - 1 \in Nat)
  BY <1>1 DEF Packet
<1>3. \A a, r \in Nat : [t EXCEPT !.lastAcked = a, !.lastRecvd = r] \in Record
  BY DEF Record
<1> QED
  BY <1>1, <1>2, <1>3 DEF PostRecv

\* postSend keeps a record a record.
LEMMA PostSendType ==
  ASSUME NEW t \in Record, NEW p \in Packet, NEW len \in Nat
  PROVE  PostSend(t, p, len) \in Record
<1>1. MaxOf(t.lastSent, p.seq + len - 1) \in Nat \ {0}
  BY DEF Record, Packet, MaxOf
<1>2. \A n \in Nat \ {0} : [t EXCEPT !.lastSent = n] \in Record
  BY DEF Record
<1> QED
  BY <1>1, <1>2 DEF PostSend

\* A transition only changes the state.
LEMMA GotoType ==
  ASSUME NEW t \in Record, NEW s \in State
  PROVE  Goto(t, s) \in Record
  BY DEF Goto, Record

\* The segments of packet_factory.cc are segments.
LEMMA FactoryTypes ==
  ASSUME NEW t \in Record
  PROVE  /\ Syn(t) \in Packet /\ SynAck(t) \in Packet /\ Fin(t) \in Packet
         /\ Ack(t, <<>>) \in Packet
         /\ \A d \in Seq(Nat) : Ack(t, d) \in Packet
  BY DEF Record, Packet, Flag, Syn, SynAck, Ack, Fin

\* The send loop's arithmetic and Buffer's operations stay in their types.
LEMMA BufferTypes ==
  ASSUME NEW b \in Seq(Nat), NEW n \in Nat, NEW off \in Nat
  PROVE  /\ EraseFront(b, n) \in Seq(Nat)
         /\ off <= Len(b) => /\ Extracted(b, off, n) \in Seq(Nat)
                             /\ AfterExtract(b, off, n) \in Seq(Nat)
  BY DEF EraseFront, Extracted, AfterExtract, MinOf

\* The room of the send loop is a number of bytes: the unsigned subtraction
\* gives one even when it wraps around.
LEMMA RoomType ==
  ASSUME NEW t \in Record
  PROVE  SendRoom(t) \in Nat
  BY WidthAssumption, WindowAssumption
  DEF SendRoom, Unacked, MinOf, Record

-----------------------------------------------------------------------------
(* The inductive invariant.  TypeOK is not inductive by itself: the send    *)
(* loop's offset into the send buffer is last_sent - last_acked, which must *)
(* not be negative, and what keeps last_acked from passing last_sent is     *)
(* that no segment under way acknowledges more than its sender received,    *)
(* nor carries more than its sender sent.                                   *)

\* last_sent starts at the initial sequence number and only grows.
Started == \A h \in Host : tcb[h].lastSent >= ISN[h]

AckInv == TypeOK /\ AckChain /\ SegmentsBacked /\ Started

\* Nothing is acknowledged that was not sent.
LEMMA UnackedIsNat ==
  ASSUME AckInv, NEW h \in Host
  PROVE  Unacked(tcb[h]) \in Nat
<1>1. /\ tcb[h].lastSent \in Nat /\ tcb[h].lastAcked \in Nat
      /\ tcb[Peer(h)].lastRecvd \in Nat /\ ISN[h] \in Nat
  BY PeerFacts, ISNAssumption DEF AckInv, TypeOK, Record
<1>2. /\ tcb[h].lastAcked <= MaxOf(ISN[h], tcb[Peer(h)].lastRecvd)
      /\ tcb[Peer(h)].lastRecvd <= tcb[h].lastSent
      /\ ISN[h] <= tcb[h].lastSent
  BY DEF AckInv, AckChain, Started
<1> QED
  BY <1>1, <1>2 DEF MaxOf, Unacked

-----------------------------------------------------------------------------
(* Every step keeps the types.                                             *)

\* The guards of tcp_module's transitions leave a segment or a request to take.
LEMMA HeadTypes ==
  ASSUME TypeOK, NEW h \in Host
  PROVE  /\ tcb[h] \in Record
         /\ net[h] # <<>> => Head(net[h]) \in Packet
         /\ toTcp[h] # <<>> => Head(toTcp[h]) \in Request
         /\ toSock[h] # <<>> => Head(toSock[h]) \in Response
  BY DEF TypeOK

\* Replacing one record.
LEMMA TcbType ==
  ASSUME TypeOK, NEW h \in Host, NEW t \in Record,
         tcb' = [tcb EXCEPT ![h] = t]
  PROVE  tcb' \in [Host -> Record]
  BY DEF TypeOK

\* Taking a segment, sending segments and messages.
LEMMA TakePacketType ==
  ASSUME TypeOK, NEW h \in Host, net[h] # <<>>,
         NEW out \in Seq(Packet), NEW msgs \in Seq(Response),
         TakePacket(h, out, msgs), tcb' \in [Host -> Record]
  PROVE  TypeOK'
<1>1. net' \in [Host -> Seq(Packet)]
  <2>1. Tail(net[h]) \in Seq(Packet) /\ net[Peer(h)] \o out \in Seq(Packet)
    BY PeerFacts DEF TypeOK
  <2> QED
    BY <2>1, PeerFacts DEF TakePacket, TypeOK
<1>2. toSock' \in [Host -> Seq(Response)]
  <2>1. toSock[h] \o msgs \in Seq(Response)
    BY DEF TypeOK
  <2> QED
    BY <2>1 DEF TakePacket, TypeOK
<1> QED
  BY <1>1, <1>2 DEF TakePacket, TypeOK, sockVars

\* Taking a request, sending segments and messages.
LEMMA TakeRequestType ==
  ASSUME TypeOK, NEW h \in Host, toTcp[h] # <<>>,
         NEW out \in Seq(Packet), NEW msgs \in Seq(Response),
         TakeRequest(h, out, msgs), tcb' \in [Host -> Record]
  PROVE  TypeOK'
<1>1. net' \in [Host -> Seq(Packet)]
  <2>1. net[Peer(h)] \o out \in Seq(Packet)
    BY PeerFacts DEF TypeOK
  <2> QED
    BY <2>1, PeerFacts DEF TakeRequest, TypeOK
<1>2. toSock' \in [Host -> Seq(Response)]
  <2>1. toSock[h] \o msgs \in Seq(Response)
    BY DEF TypeOK
  <2> QED
    BY <2>1 DEF TakeRequest, TypeOK
<1>3. toTcp' \in [Host -> Seq(Request)]
  <2>1. Tail(toTcp[h]) \in Seq(Request)
    BY DEF TypeOK
  <2> QED
    BY <2>1 DEF TakeRequest, TypeOK
<1> QED
  BY <1>1, <1>2, <1>3 DEF TakeRequest, TypeOK, sockVars

\* The messages to sock_module.
LEMMA MessageTypes ==
  /\ <<>> \in Seq(Response) /\ <<StatusUp>> \in Seq(Response)
  /\ \A d \in Seq(Nat) : <<WriteUp(d)>> \in Seq(Response)
  /\ <<WriteUp(<<>>)>> \in Seq(Response)
  BY DEF WriteUp, StatusUp, Response

\* What a step sends to the network.
LEMMA OutTypes ==
  /\ <<>> \in Seq(Packet)
  /\ \A p \in Packet : <<p>> \in Seq(Packet) /\ <<p, p>> \in Seq(Packet)
  OBVIOUS

\* Transitions that open a connection.
LEMMA OpeningType ==
  ASSUME TypeOK, NEW h \in Host,
         \/ IgnorePacket(h) \/ IgnoreRequest(h)
         \/ closedToListen(h) \/ closedToSynSent(h)
         \/ listenToSynRcvd(h) \/ synRcvdToEstablished(h)
         \/ synSentToEstablished(h)
  PROVE  TypeOK'
<1>0. tcb[h] \in Record /\ tcb \in [Host -> Record]
  BY DEF TypeOK
<1>1. CASE IgnorePacket(h)
  BY <1>0, <1>1, TakePacketType, MessageTypes, OutTypes
  DEF IgnorePacket, FromMux
<1>2. CASE IgnoreRequest(h)
  BY <1>0, <1>2, TakeRequestType, MessageTypes, OutTypes
  DEF IgnoreRequest, FromSock
<1>3. CASE closedToListen(h)
  <2>1. tcb' \in [Host -> Record]
    BY <1>0, <1>3, TcbType, GotoType DEF closedToListen, State
  <2> QED
    BY <1>3, <2>1, TakeRequestType, MessageTypes, OutTypes
    DEF closedToListen, FromSock
<1>4. CASE closedToSynSent(h)
  <2> DEFINE out == Syn(tcb[h])
  <2>1. out \in Packet
    BY <1>0, FactoryTypes
  <2>2. tcb' \in [Host -> Record]
    BY <1>0, <1>4, <2>1, TcbType, GotoType, PostSendType
    DEF closedToSynSent, State
  <2> HIDE DEF out
  <2> QED
    BY <1>4, <2>1, <2>2, TakeRequestType, MessageTypes, OutTypes
    DEF closedToSynSent, FromSock, out
<1>5. CASE listenToSynRcvd(h)
  <2> DEFINE t == PostRecv(tcb[h], Head(net[h]), 1)
             out == SynAck(t)
  <2>1. net[h] # <<>>
    BY <1>5 DEF listenToSynRcvd, FromMux
  <2>2. t \in Record /\ out \in Packet
    BY <1>0, <2>1, HeadTypes, PostRecvType, FactoryTypes
  <2>3. tcb' \in [Host -> Record]
    BY <1>5, <2>2, TcbType, GotoType, PostSendType DEF listenToSynRcvd, State
  <2> HIDE DEF out
  <2> QED
    BY <1>5, <2>1, <2>2, <2>3, TakePacketType, MessageTypes, OutTypes
    DEF listenToSynRcvd, out
<1>6. CASE synRcvdToEstablished(h)
  <2>1. net[h] # <<>>
    BY <1>6 DEF synRcvdToEstablished, FromMux
  <2>2. PostRecv(tcb[h], Head(net[h]), SegLen(Head(net[h]))) \in Record
    BY <1>0, <2>1, HeadTypes, PostRecvType, SegmentLengths
  <2>3. tcb' \in [Host -> Record]
    BY <1>6, <2>2, TcbType, GotoType DEF synRcvdToEstablished, State
  <2> QED
    BY <1>6, <2>1, <2>3, TakePacketType, MessageTypes, OutTypes
    DEF synRcvdToEstablished
<1>7. CASE synSentToEstablished(h)
  <2> DEFINE t == PostRecv(tcb[h], Head(net[h]), 1)
             out == Ack(t, <<>>)
  <2>1. net[h] # <<>>
    BY <1>7 DEF synSentToEstablished, FromMux
  <2>2. t \in Record /\ out \in Packet
    BY <1>0, <2>1, HeadTypes, PostRecvType, FactoryTypes
  <2>3. tcb' \in [Host -> Record]
    BY <1>7, <2>2, TcbType, GotoType, PostSendType
    DEF synSentToEstablished, State
  <2> HIDE DEF out
  <2> QED
    BY <1>7, <2>1, <2>2, <2>3, TakePacketType, MessageTypes, OutTypes
    DEF synSentToEstablished, out
<1> QED
  BY <1>1, <1>2, <1>3, <1>4, <1>5, <1>6, <1>7

\* The branches of establishedLoop.
LEMMA TransferType ==
  ASSUME TypeOK, NEW h \in Host, Unacked(tcb[h]) \in Nat,
         \/ establishedLoopPacket(h) \/ establishedLoopWrite(h)
         \/ establishedLoopStatus(h) \/ SendSegment(h) \/ ExtractThrows(h)
  PROVE  TypeOK'
<1>0. tcb[h] \in Record /\ tcb \in [Host -> Record]
  BY DEF TypeOK
<1> DEFINE Sending(t) == [t EXCEPT !.room = SendRoom(t)]
<1>s. \A t \in Record : Sending(t) \in Record
  BY RoomType DEF Record
<1>1. CASE establishedLoopPacket(h)
  <2> DEFINE p      == Head(net[h])
             t0     == tcb[h]
             t1     == PostRecv(t0, p, Residue(p))
             accept == p.data # <<>> /\ Accepts(t0, p)
             recv   == IF accept THEN t0.recvBuf \o p.data ELSE t0.recvBuf
             t2     == [t1 EXCEPT
                          !.recvBuf = recv,
                          !.sendBuf =
                             EraseFront(@, t1.lastAcked - t0.lastAcked),
                          !.tmr     = t1.lastAcked # t1.lastSent]
             out    == IF p.data # <<>> THEN <<Ack(t1, <<>>)>> ELSE <<>>
             msgs   == IF accept /\ t0.recvBuf = <<>>
                       THEN <<WriteUp(recv)>> ELSE <<>>
  <2>1. net[h] # <<>> /\ p \in Packet
    BY <1>1, HeadTypes DEF establishedLoopPacket, FromMux
  <2>2. t1 \in Record
    BY <1>0, <2>1, PostRecvType, SegmentLengths
  <2>3. recv \in Seq(Nat)
    <3>1. t0.recvBuf \in Seq(Nat) /\ p.data \in Seq(Nat)
      BY <1>0, <2>1 DEF Record, Packet
    <3> QED
      BY <3>1
  <2>4. t1.lastAcked - t0.lastAcked \in Nat
    <3>1. t0.lastAcked \in Nat /\ p.ackno \in Nat
      BY <1>0, <2>1 DEF Record, Packet
    <3>2. t1.lastAcked = IF p.ackno > t0.lastAcked + 1 THEN p.ackno - 1
                                                      ELSE t0.lastAcked
      BY <1>0 DEF PostRecv, Record
    <3> QED
      BY <3>1, <3>2
  <2>5. t2 \in Record
    <3>1. t1.sendBuf \in Seq(Nat)
      BY <2>2 DEF Record
    <3>2. EraseFront(t1.sendBuf, t1.lastAcked - t0.lastAcked) \in Seq(Nat)
      BY <2>4, <3>1, BufferTypes
    <3>3. \A r, b \in Seq(Nat) : \A x \in BOOLEAN :
            [t1 EXCEPT !.recvBuf = r, !.sendBuf = b, !.tmr = x] \in Record
      BY <2>2 DEF Record
    <3> QED
      BY <2>3, <3>2, <3>3
  <2>6. out \in Seq(Packet)
    BY <2>2, FactoryTypes, OutTypes
  <2>7. msgs \in Seq(Response)
    BY <2>3, MessageTypes
  <2>8. tcb' = [tcb EXCEPT ![h] = Sending(t2)] /\ TakePacket(h, out, msgs)
    BY <1>1 DEF establishedLoopPacket
  <2> HIDE DEF t2, out, msgs, Sending
  <2>9. tcb' \in [Host -> Record]
    BY <1>s, <2>5, <2>8, TcbType
  <2> QED
    BY <2>1, <2>6, <2>7, <2>8, <2>9, TakePacketType
<1>2. CASE establishedLoopWrite(h)
  <2> DEFINE t == [tcb[h] EXCEPT !.sendBuf = @ \o Head(toTcp[h]).data]
  <2>1. toTcp[h] # <<>> /\ Head(toTcp[h]) \in Request
    BY <1>2, HeadTypes DEF establishedLoopWrite, FromSock
  <2>2. t \in Record
    <3>1. tcb[h].sendBuf \o Head(toTcp[h]).data \in Seq(Nat)
      BY <1>0, <2>1 DEF Record, Request
    <3> QED
      BY <1>0, <3>1 DEF Record
  <2>3. tcb' = [tcb EXCEPT ![h] = Sending(t)]
        /\ TakeRequest(h, <<>>, <<StatusUp>>)
    BY <1>2 DEF establishedLoopWrite
  <2> HIDE DEF t, Sending
  <2>4. tcb' \in [Host -> Record]
    BY <1>s, <2>2, <2>3, TcbType
  <2> QED
    BY <2>1, <2>3, <2>4, TakeRequestType, MessageTypes, OutTypes
<1>3. CASE establishedLoopStatus(h)
  <2> DEFINE left == EraseFront(tcb[h].recvBuf, Head(toTcp[h]).bytes)
             msgs == IF left # <<>> THEN <<WriteUp(left)>> ELSE <<>>
  <2>1. toTcp[h] # <<>> /\ Head(toTcp[h]) \in Request
    BY <1>3, HeadTypes DEF establishedLoopStatus, FromSock
  <2>2. left \in Seq(Nat)
    BY <1>0, <2>1, BufferTypes DEF Record, Request
  <2>3. [tcb[h] EXCEPT !.recvBuf = left] \in Record
    BY <1>0, <2>2 DEF Record
  <2>4. tcb' = [tcb EXCEPT ![h] = [tcb[h] EXCEPT !.recvBuf = left]]
        /\ TakeRequest(h, <<>>, msgs)
    BY <1>0, <1>3 DEF establishedLoopStatus
  <2>5. tcb' \in [Host -> Record]
    BY <2>3, <2>4, TcbType
  <2>6. msgs \in Seq(Response)
    BY <2>2, MessageTypes
  <2> HIDE DEF msgs
  <2> QED
    BY <2>1, <2>4, <2>5, <2>6, TakeRequestType, OutTypes
<1>4. CASE SendSegment(h)
  <2> DEFINE t     == tcb[h]
             off   == Unacked(t)
             bytes == MinOf(t.room, MSS)
             out   == Ack(t, Extracted(t.sendBuf, off, bytes))
             sent  == PostSend(t, out, Len(out.data))
             t2    == [sent EXCEPT
                         !.sendBuf = AfterExtract(@, off, bytes),
                         !.tmr     = TimerOnSend(t),
                         !.room    = @ - bytes]
  <2>1. t.sendBuf \in Seq(Nat) /\ t.room \in Nat /\ t.tmr \in BOOLEAN
    BY <1>0 DEF Record
  <2>2. bytes \in Nat /\ bytes <= t.room
    BY <2>1, MSSAssumption DEF MinOf
  <2>3. off \in Nat /\ off <= Len(t.sendBuf)
    BY <1>4 DEF SendSegment
  <2>4. out \in Packet
    BY <1>0, <2>1, <2>2, <2>3, BufferTypes, FactoryTypes
  <2>5. sent \in Record /\ sent.room = t.room /\ sent.sendBuf = t.sendBuf
    <3>1. Len(out.data) \in Nat
      BY <2>4 DEF Packet
    <3>2. sent \in Record
      BY <1>0, <2>4, <3>1, PostSendType
    <3> QED
      BY <1>0, <3>2 DEF PostSend, Record
  <2>6. t2 \in Record
    <3>1. AfterExtract(t.sendBuf, off, bytes) \in Seq(Nat)
      BY <2>1, <2>2, <2>3, BufferTypes
    <3>2. TimerOnSend(t) \in BOOLEAN
      BY <2>1 DEF TimerOnSend
    <3>3. t.room - bytes \in Nat
      BY <2>1, <2>2
    <3>4. \A b \in Seq(Nat) : \A x \in BOOLEAN : \A n \in Nat :
            [sent EXCEPT !.sendBuf = b, !.tmr = x, !.room = n] \in Record
      BY <2>5 DEF Record
    <3> QED
      BY <2>5, <3>1, <3>2, <3>3, <3>4
  <2>7. /\ tcb' = [tcb EXCEPT ![h] = t2]
        /\ net' = [net EXCEPT ![Peer(h)] = Append(@, out)]
        /\ UNCHANGED <<up, toTcp, toSock, sockVars, faults>>
    BY <1>4 DEF SendSegment
  <2> HIDE DEF t2, out
  <2>8. tcb' \in [Host -> Record]
    BY <2>6, <2>7, TcbType
  <2>9. net' \in [Host -> Seq(Packet)]
    BY <2>4, <2>7, PeerFacts DEF TypeOK
  <2> QED
    BY <2>7, <2>8, <2>9 DEF TypeOK, sockVars
<1>5. CASE ExtractThrows(h)
  BY <1>5 DEF ExtractThrows, TypeOK, sockVars
<1> QED
  BY <1>1, <1>2, <1>3, <1>4, <1>5

\* Transitions that close a connection.
LEMMA ClosingType ==
  ASSUME TypeOK, NEW h \in Host,
         \/ establishedToFinWait1(h) \/ closeWaitToLastAck(h)
         \/ finWait1ToFinWait2(h) \/ finWait2ToTimeWait(h)
         \/ establishedToCloseWait(h) \/ lastAckToClosed(h)
  PROVE  TypeOK'
<1>0. tcb[h] \in Record /\ tcb \in [Host -> Record]
  BY DEF TypeOK
<1>1. ASSUME NEW s \in State, toTcp[h] # <<>>, SendFin(h, s)
      PROVE  TypeOK'
  <2> DEFINE out == Fin(tcb[h])
  <2>1. out \in Packet
    BY <1>0, FactoryTypes
  <2>2. PICK g \in GarbageLen :
          tcb' = [tcb EXCEPT ![h] = Goto(PostSend(@, out, g), s)]
    BY <1>1 DEF SendFin
  <2>3. tcb' \in [Host -> Record]
    <3>1. g \in Nat
      BY GarbageAssumption
    <3>2. Goto(PostSend(tcb[h], out, g), s) \in Record
      BY <1>0, <2>1, <3>1, PostSendType, GotoType
    <3> QED
      BY <1>0, <2>2, <3>2, TcbType
  <2>4. TakeRequest(h, <<out>>, <<StatusUp>>)
    BY <1>1 DEF SendFin
  <2> HIDE DEF out
  <2> QED
    BY <1>1, <2>1, <2>3, <2>4, TakeRequestType, MessageTypes, OutTypes
<1>2. ASSUME NEW s \in State, NEW msgs \in Seq(Response),
             net[h] # <<>>, AnswerFin(h, s, msgs)
      PROVE  TypeOK'
  <2> DEFINE t   == PostRecv(tcb[h], Head(net[h]), 1)
             out == Ack(t, <<>>)
             t2  == [Goto(PostSend(t, out, 0), s) EXCEPT
                       !.tmr = @ \/ s = "TIME_WAIT"]
  <2>1. t \in Record /\ out \in Packet
    BY <1>0, <1>2, HeadTypes, PostRecvType, FactoryTypes
  <2>2. t2 \in Record
    <3>1. Goto(PostSend(t, out, 0), s) \in Record
      BY <2>1, PostSendType, GotoType
    <3> HIDE DEF out
    <3> QED
      BY <3>1 DEF Record
  <2>3. tcb' = [tcb EXCEPT ![h] = t2] /\ TakePacket(h, <<out>>, msgs)
    BY <1>2 DEF AnswerFin
  <2> HIDE DEF out, t2
  <2>4. tcb' \in [Host -> Record]
    BY <2>2, <2>3, TcbType
  <2> QED
    BY <1>2, <2>1, <2>3, <2>4, TakePacketType, OutTypes
<1>3. ASSUME NEW s \in State, net[h] # <<>>,
             tcb' = [tcb EXCEPT ![h] =
                       Goto(PostRecv(@, Head(net[h]), SegLen(Head(net[h]))), s)],
             TakePacket(h, <<>>, <<>>)
      PROVE  TypeOK'
  <2>1. Goto(PostRecv(tcb[h], Head(net[h]), SegLen(Head(net[h]))), s) \in Record
    BY <1>0, <1>3, HeadTypes, SegmentLengths, PostRecvType, GotoType
  <2>2. tcb' \in [Host -> Record]
    BY <1>0, <1>3, <2>1, TcbType
  <2> QED
    BY <1>3, <2>2, TakePacketType, MessageTypes, OutTypes
<1>4. CASE establishedToFinWait1(h)
  BY <1>1, <1>4 DEF establishedToFinWait1, FromSock, State
<1>5. CASE closeWaitToLastAck(h)
  BY <1>1, <1>5 DEF closeWaitToLastAck, FromSock, State
<1>6. CASE finWait1ToFinWait2(h)
  BY <1>3, <1>6 DEF finWait1ToFinWait2, FromMux, State
<1>7. CASE finWait2ToTimeWait(h)
  BY <1>2, <1>7, MessageTypes DEF finWait2ToTimeWait, FromMux, State
<1>8. CASE establishedToCloseWait(h)
  BY <1>2, <1>8, MessageTypes DEF establishedToCloseWait, FromMux, State
<1>9. CASE lastAckToClosed(h)
  BY <1>3, <1>9 DEF lastAckToClosed, FromMux, State
<1> QED
  BY <1>4, <1>5, <1>6, <1>7, <1>8, <1>9

\* sock_module's request to tcp_module.
LEMMA SendTCPRequestType ==
  ASSUME TypeOK, NEW h \in Host, NEW r \in Request, NEW s \in Socket,
         SendTCPRequest(h, r, s)
  PROVE  toTcp' \in [Host -> Seq(Request)] /\ sock' \in [Host -> Socket]
<1>1. toTcp' \in [Host -> Seq(Request)]
  BY DEF SendTCPRequest, TypeOK
<1>2. r.type # "STATUS" => [s EXCEPT !.tcpq = Append(@, r.type)] \in Socket
  <2>1. r.type # "STATUS" => Append(s.tcpq, r.type) \in Seq(RequestType)
    BY DEF Socket, Request
  <2>2. \A q \in Seq(RequestType) : [s EXCEPT !.tcpq = q] \in Socket
    BY DEF Socket
  <2> QED
    BY <2>1, <2>2
<1>3. sock' \in [Host -> Socket]
  BY <1>2 DEF SendTCPRequest, TypeOK
<1> QED
  BY <1>1, <1>3

\* Steps of sock_module and of the application.
LEMMA SocketType ==
  ASSUME TypeOK, NEW h \in Host, SockStep(h) \/ AppStep(h)
  PROVE  TypeOK'
<1>0. /\ sock[h] \in Socket /\ sock \in [Host -> Socket]
      /\ app[h].wrote \in Nat /\ app[h].got \in Seq(Nat)
      /\ app[h].eof \in BOOLEAN
  BY DEF TypeOK
<1> DEFINE App == [wrote : Nat, got : Seq(Nat), eof : BOOLEAN]
<1>a. /\ \A n \in Nat : [app[h] EXCEPT !.wrote = n] \in App
      /\ \A g \in Seq(Nat) : \A e \in BOOLEAN :
           [app[h] EXCEPT !.got = g, !.eof = e] \in App
      /\ app \in [Host -> App]
  BY DEF TypeOK
<1>s. /\ \A x \in Status : [sock[h] EXCEPT !.status = x] \in Socket
      /\ \A x \in Status : \A b \in Seq(Nat) :
           [sock[h] EXCEPT !.status = x, !.bin = b] \in Socket
  BY <1>0 DEF Socket
<1>1. CASE AppOpen(h)
  <2>1. PICK ty \in OpenAs[h] :
          SendTCPRequest(h, Req(ty, <<>>, 0),
                         [sock[h] EXCEPT !.status = "OPEN_PENDING"])
    BY <1>1 DEF AppOpen
  <2>2. Req(ty, <<>>, 0) \in Request
    BY OpenAssumption DEF Req, Request, RequestType
  <2>3. [sock[h] EXCEPT !.status = "OPEN_PENDING"] \in Socket
    BY <1>s DEF Status
  <2> QED
    BY <1>1, <2>1, <2>2, <2>3, SendTCPRequestType DEF AppOpen, TypeOK, tcpVars
<1>2. CASE AppWrite(h)
  <2>1. PICK n \in WriteSizes[h] :
          /\ app' = [app EXCEPT ![h].wrote = @ + n]
          /\ SendTCPRequest(h,
               Req("WRITE", [i \in 1..n |-> app[h].wrote + i], 0),
               [sock[h] EXCEPT !.status = "WRITE_PENDING"])
    BY <1>2 DEF AppWrite
  <2>2. n \in Nat
    BY WriteAssumption
  <2>3. [i \in 1..n |-> app[h].wrote + i] \in Seq(Nat)
    BY <1>0, <2>2
  <2>4. Req("WRITE", [i \in 1..n |-> app[h].wrote + i], 0) \in Request
    BY <2>3 DEF Req, Request, RequestType
  <2>5. [sock[h] EXCEPT !.status = "WRITE_PENDING"] \in Socket
    BY <1>s DEF Status
  <2>6. toTcp' \in [Host -> Seq(Request)] /\ sock' \in [Host -> Socket]
    BY <2>1, <2>4, <2>5, SendTCPRequestType
  <2>7. app' \in [Host -> App]
    <3> DEFINE w == app[h].wrote + n
    <3>1. w \in Nat
      BY <1>0, <2>2
    <3>2. app' = [app EXCEPT ![h] = [app[h] EXCEPT !.wrote = w]]
      BY <1>a, <2>1
    <3> HIDE DEF App, w
    <3> QED
      BY <1>a, <3>1, <3>2
  <2> QED
    BY <1>2, <2>6, <2>7 DEF AppWrite, TypeOK, tcpVars
<1>3. CASE AppRead(h)
  <2>1. sock' \in [Host -> Socket]
    BY <1>0, <1>3, <1>s DEF AppRead, Status
  <2> QED
    BY <1>3, <2>1 DEF AppRead, TypeOK, tcpVars
<1>4. CASE AppClose(h)
  <2>1. Req("CLOSE", <<>>, 0) \in Request
    BY DEF Req, Request, RequestType
  <2>2. [sock[h] EXCEPT !.status = "CLOSED", !.bin = <<>>] \in Socket
    <3>1. "CLOSED" \in Status /\ <<>> \in Seq(Nat)
      BY DEF Status
    <3> QED
      BY <1>s, <3>1
  <2> QED
    BY <1>4, <2>1, <2>2, SendTCPRequestType DEF AppClose, TypeOK, tcpVars
<1>5. CASE HandleTCPWrite(h)
  <2> DEFINE d     == Head(toSock[h]).data
             s     == sock[h]
             taken == s.status \in {"CONNECTED", "READ_PENDING"}
             r     == Req("STATUS", <<>>,
                          IF s.status = "CLOSED" THEN 0 ELSE Len(d))
             s2    == [s EXCEPT
                         !.status = IF @ \in EndedByWrite
                                    THEN "CONNECTED" ELSE @,
                         !.bin    = IF s.status = "CONNECTED"
                                    THEN @ \o d ELSE @]
  <2>1. d \in Seq(Nat)
    BY <1>5, HeadTypes DEF HandleTCPWrite, Response
  <2>2. r \in Request
    BY <2>1 DEF Req, Request
  <2>3. s2 \in Socket
    <3> DEFINE x == IF s.status \in EndedByWrite THEN "CONNECTED"
                                                 ELSE s.status
               b == IF s.status = "CONNECTED" THEN s.bin \o d ELSE s.bin
    <3>1. s.status \in Status /\ s.bin \in Seq(Nat)
      BY <1>0 DEF Socket
    <3>2. x \in Status
      BY <3>1 DEF Status
    <3>3. b \in Seq(Nat)
      BY <2>1, <3>1
    <3>4. s2 = [sock[h] EXCEPT !.status = x, !.bin = b]
      BY <1>0 DEF Socket
    <3> HIDE DEF x, b
    <3> QED
      BY <1>s, <3>2, <3>3, <3>4
  <2>4. /\ SendTCPRequest(h, r, s2)
        /\ app' = [app EXCEPT
             ![h].got = IF taken THEN @ \o d ELSE @,
             ![h].eof = @ \/ (s.status = "READ_PENDING" /\ d = <<>>)]
        /\ toSock' = [toSock EXCEPT ![h] = Tail(@)]
        /\ toSock[h] # <<>>
        /\ UNCHANGED <<tcpVars, net, faults>>
    BY <1>5 DEF HandleTCPWrite
  <2>5. app' \in [Host -> App]
    <3> DEFINE g == IF taken THEN app[h].got \o d ELSE app[h].got
               e == app[h].eof \/ (s.status = "READ_PENDING" /\ d = <<>>)
    <3>1. g \in Seq(Nat) /\ e \in BOOLEAN
      BY <1>0, <2>1
    <3>2. app' = [app EXCEPT ![h] = [app[h] EXCEPT !.got = g, !.eof = e]]
      BY <1>a, <2>4
    <3> HIDE DEF App, g, e
    <3> QED
      BY <1>a, <3>1, <3>2
  <2>6. toSock' \in [Host -> Seq(Response)]
    BY <2>4 DEF TypeOK
  <2> HIDE DEF r, s2
  <2>7. toTcp' \in [Host -> Seq(Request)] /\ sock' \in [Host -> Socket]
    BY <2>2, <2>3, <2>4, SendTCPRequestType
  <2> QED
    BY <2>4, <2>5, <2>6, <2>7 DEF TypeOK, tcpVars
<1>6. CASE HandleTCPStatus(h)
  <2>1. sock' \in [Host -> Socket]
    <3>1. sock[h].tcpq # <<>> /\ sock[h].tcpq \in Seq(RequestType)
      BY <1>0, <1>6 DEF HandleTCPStatus, Socket
    <3>2. Tail(sock[h].tcpq) \in Seq(RequestType)
      BY <3>1
    <3>3. \A x \in Status : \A q \in Seq(RequestType) :
            [sock[h] EXCEPT !.tcpq = q, !.status = x] \in Socket
      BY <1>0 DEF Socket
    <3>4. sock[h].status \in Status /\ "CONNECTED" \in Status
      BY <1>0 DEF Socket, Status
    <3> QED
      BY <1>0, <1>6, <3>2, <3>3, <3>4 DEF HandleTCPStatus
  <2>2. toSock' \in [Host -> Seq(Response)]
    BY <1>6 DEF HandleTCPStatus, TypeOK
  <2> QED
    BY <1>6, <2>1, <2>2 DEF HandleTCPStatus, TypeOK, tcpVars
<1> QED
  BY <1>1, <1>2, <1>3, <1>4, <1>5, <1>6 DEF SockStep, AppStep

\* Faults of the network.
LEMMA NetType ==
  ASSUME TypeOK, NEW h \in Host, NetStep(h)
  PROVE  TypeOK'
<1>1. ASSUME NEW kind, NEW segments \in Seq(Packet), Fault(h, kind, segments)
      PROVE  TypeOK'
  BY <1>1 DEF Fault, TypeOK, tcpVars, sockVars
<1>2. net[h] # <<>> => /\ Tail(net[h]) \in Seq(Packet)
                       /\ Append(net[h], Head(net[h])) \in Seq(Packet)
                       /\ Append(Tail(net[h]), Head(net[h])) \in Seq(Packet)
  BY DEF TypeOK
<1>3. net[h] # <<>>
  BY DEF NetStep, Lose, Duplicate, Reorder, Fault
<1> QED
  BY <1>1, <1>2, <1>3 DEF NetStep, Lose, Duplicate, Reorder

-----------------------------------------------------------------------------
(* Every step keeps the chain of acknowledgements.                         *)

\* The counters of a connection record are naturals.
LEMMA RecordNats ==
  ASSUME NEW t \in Record
  PROVE  t.lastSent \in Nat /\ t.lastAcked \in Nat /\ t.lastRecvd \in Nat
  BY DEF Record

\* The numbers of a segment, and the space it takes, are naturals.
LEMMA PacketNats ==
  ASSUME NEW p \in Packet
  PROVE  p.seq \in Nat /\ p.seq >= 1 /\ p.ackno \in Nat /\ SegLen(p) \in Nat
  BY SegmentLengths DEF Packet

\* The counters of t continue those of h's record and stay within what the
\* peer has sent and received.
Counts(h, t) ==
  /\ t.lastSent >= tcb[h].lastSent
  /\ t.lastRecvd >= tcb[h].lastRecvd
  /\ t.lastRecvd <= tcb[Peer(h)].lastSent
  /\ t.lastAcked <= MaxOf(ISN[h], tcb[Peer(h)].lastRecvd)

\* A host's record changes to t, both of whose counters have only grown, and
\* what is new under way to its peer is backed by t: then the chain holds
\* again.  Losing, doubling and moving segments is the case of an equal t.
LEMMA ChainKept ==
  ASSUME AckInv, NEW h \in Host, NEW t \in Record,
         TypeOK', tcb' = [tcb EXCEPT ![h] = t],
         Counts(h, t),
         \A k \in Host : \A i \in DOMAIN net'[k] :
           \/ \E j \in DOMAIN net[k] : net'[k][i] = net[k][j]
           \/ k = Peer(h) /\ BackedBy(t, net'[k][i])
  PROVE  AckInv'
<1> USE DEF Counts
<1>1. \A k \in Host : /\ tcb[k] \in Record /\ tcb'[k] \in Record
                      /\ ISN[k] \in Nat
                      /\ tcb'[k] = IF k = h THEN t ELSE tcb[k]
  BY ISNAssumption DEF AckInv, TypeOK
<1>2. \A k \in Host : /\ tcb'[k].lastSent >= tcb[k].lastSent
                      /\ tcb'[k].lastRecvd >= tcb[k].lastRecvd
  <2> SUFFICES ASSUME NEW k \in Host
               PROVE  /\ tcb'[k].lastSent >= tcb[k].lastSent
                      /\ tcb'[k].lastRecvd >= tcb[k].lastRecvd
    OBVIOUS
  <2>1. CASE k = h
    BY <1>1, <2>1
  <2>2. CASE k # h
    <3>1. tcb'[k] = tcb[k] /\ tcb[k].lastSent \in Nat /\ tcb[k].lastRecvd \in Nat
      BY <1>1, <2>2, RecordNats
    <3> QED
      BY <3>1
  <2> QED
    BY <2>1, <2>2
<1>3. AckChain'
  <2> SUFFICES ASSUME NEW k \in Host
               PROVE  /\ tcb'[Peer(k)].lastRecvd <= tcb'[k].lastSent
                      /\ tcb'[k].lastAcked
                           <= MaxOf(ISN[k], tcb'[Peer(k)].lastRecvd)
    BY DEF AckChain, Peer
  <2>1. /\ tcb[Peer(k)].lastRecvd <= tcb[k].lastSent
        /\ tcb[k].lastAcked <= MaxOf(ISN[k], tcb[Peer(k)].lastRecvd)
    BY DEF AckInv, AckChain
  <2>2. CASE k = h
    <3>1. tcb'[k] = t /\ tcb'[Peer(k)] = tcb[Peer(k)]
      BY <1>1, <2>2, PeerFacts
    <3>2. /\ tcb[Peer(k)].lastRecvd \in Nat /\ tcb[k].lastSent \in Nat
          /\ t.lastSent \in Nat
      BY <1>1, PeerFacts, RecordNats
    <3> QED
      BY <2>1, <2>2, <3>1, <3>2
  <2>3. CASE k # h
    <3>1. Peer(k) = h /\ Peer(h) = k
      BY <2>3 DEF Peer, Host
    <3>2. tcb'[k] = tcb[k] /\ tcb'[Peer(k)] = t
      BY <1>1, <2>3, <3>1
    <3>3. /\ tcb[k].lastSent \in Nat /\ tcb[k].lastAcked \in Nat
          /\ t.lastRecvd \in Nat /\ tcb[h].lastRecvd \in Nat /\ ISN[k] \in Nat
      BY <1>1, RecordNats
    <3> QED
      BY <2>1, <3>1, <3>2, <3>3 DEF MaxOf
  <2> QED
    BY <2>2, <2>3
<1>4. SegmentsBacked'
  <2> SUFFICES ASSUME NEW k \in Host, NEW i \in DOMAIN net'[k]
               PROVE  BackedBy(tcb'[Peer(k)], net'[k][i])
    BY DEF SegmentsBacked, Peer, BackedBy, SegLen
  <2>1. CASE \E j \in DOMAIN net[k] : net'[k][i] = net[k][j]
    <3>1. PICK j \in DOMAIN net[k] : net'[k][i] = net[k][j]
      BY <2>1
    <3>2. net[k][j] \in Packet
      <4>1. net[k] \in Seq(Packet)
        BY DEF AckInv, TypeOK
      <4> QED
        BY <4>1
    <3>3. BackedBy(tcb[Peer(k)], net[k][j])
      BY DEF AckInv, SegmentsBacked
    <3> DEFINE q == Peer(k)
    <3>4. /\ tcb[q].lastSent \in Nat /\ tcb[q].lastRecvd \in Nat
          /\ tcb'[q].lastSent \in Nat /\ tcb'[q].lastRecvd \in Nat
          /\ tcb'[q].lastSent >= tcb[q].lastSent
          /\ tcb'[q].lastRecvd >= tcb[q].lastRecvd
      BY <1>1, <1>2, PeerFacts, RecordNats
    <3> HIDE DEF q
    <3>5. BackedBy(tcb'[q], net[k][j])
      BY <3>2, <3>3, <3>4, PacketNats DEF BackedBy, q
    <3> QED
      BY <3>1, <3>5 DEF q
  <2>2. CASE k = Peer(h) /\ BackedBy(t, net'[k][i])
    BY <1>1, <2>2, PeerFacts
  <2> QED
    BY <2>1, <2>2
<1>5. Started'
  <2>1. \A k \in Host : /\ tcb[k].lastSent \in Nat /\ tcb'[k].lastSent \in Nat
                        /\ tcb[k].lastSent >= ISN[k]
    BY <1>1, RecordNats DEF AckInv, Started
  <2> QED
    BY <1>1, <1>2, <2>1 DEF Started
<1> QED
  BY <1>3, <1>4, <1>5 DEF AckInv

\* Receiving: postRecv counts no more of the segment at hand than it carries.
LEMMA ReceivedIsBacked ==
  ASSUME AckInv, NEW h \in Host, net[h] # <<>>, NEW len \in Nat,
         len <= SegLen(Head(net[h]))
  PROVE  LET t == PostRecv(tcb[h], Head(net[h]), len)
         IN  /\ t \in Record
             /\ Counts(h, t)
<1> DEFINE p == Head(net[h])
           t == PostRecv(tcb[h], p, len)
<1>1. tcb[h] \in Record /\ tcb[Peer(h)] \in Record /\ p \in Packet
  BY PeerFacts, HeadTypes DEF AckInv, TypeOK
<1>2. SegLen(p) \in Nat /\ ISN[h] \in Nat
  BY <1>1, SegmentLengths, ISNAssumption
<1>3. BackedBy(tcb[Peer(h)], p)
  <2>1. 1 \in DOMAIN net[h] /\ net[h][1] = p
    BY DEF AckInv, TypeOK
  <2> QED
    BY <2>1 DEF AckInv, SegmentsBacked
<1>4. /\ tcb[Peer(h)].lastRecvd <= tcb[h].lastSent
      /\ tcb[h].lastRecvd <= tcb[Peer(h)].lastSent
      /\ tcb[h].lastAcked <= MaxOf(ISN[h], tcb[Peer(h)].lastRecvd)
  BY PeerFacts DEF AckInv, AckChain
<1>5. t \in Record
  BY <1>1, PostRecvType
<1>6. /\ t.lastSent = tcb[h].lastSent
      /\ t.lastAcked = IF p.ackno > tcb[h].lastAcked + 1
                       THEN p.ackno - 1 ELSE tcb[h].lastAcked
      /\ t.lastRecvd = IF Accepts(tcb[h], p) THEN p.seq + len - 1
                                              ELSE tcb[h].lastRecvd
  BY <1>1 DEF PostRecv, Record
<1> DEFINE u == tcb[h]
           q == tcb[Peer(h)]
<1>n. /\ u.lastSent \in Nat /\ u.lastAcked \in Nat /\ u.lastRecvd \in Nat
      /\ q.lastSent \in Nat /\ q.lastRecvd \in Nat
      /\ p.seq \in Nat /\ p.seq >= 1 /\ p.ackno \in Nat
  BY <1>1, RecordNats, PacketNats
<1> HIDE DEF t, p, u, q
<1>7. t.lastRecvd >= u.lastRecvd /\ t.lastRecvd <= q.lastSent
  <2>1. p.seq + SegLen(p) - 1 <= q.lastSent
    BY <1>3 DEF BackedBy, q
  <2>2. CASE Accepts(u, p)
    <3>1. t.lastRecvd = p.seq + len - 1
      BY <1>6, <2>2 DEF u
    <3>2. p.seq = u.lastRecvd + 1 \/ u.lastRecvd = 0
      BY <2>2 DEF Accepts
    <3> QED
      BY <1>2, <1>n, <2>1, <3>1, <3>2 DEF p
  <2>3. CASE ~Accepts(u, p)
    BY <1>4, <1>6, <1>n, <2>3 DEF u, q
  <2> QED
    BY <2>2, <2>3
<1>8. t.lastAcked <= MaxOf(ISN[h], q.lastRecvd)
  <2>1. p.ackno <= q.lastRecvd + 1
    BY <1>3 DEF BackedBy, q
  <2>2. u.lastAcked <= MaxOf(ISN[h], q.lastRecvd)
    BY <1>4 DEF u, q
  <2>3. t.lastAcked = IF p.ackno > u.lastAcked + 1
                      THEN p.ackno - 1 ELSE u.lastAcked
    BY <1>6 DEF u
  <2> QED
    BY <1>2, <1>n, <2>1, <2>2, <2>3 DEF MaxOf
<1> QED
  BY <1>5, <1>6, <1>7, <1>8, <1>n DEF t, p, u, q, Counts

\* Sending: every segment the factory makes is backed by the record after
\* postSend has counted it.
LEMMA SentIsBacked ==
  ASSUME NEW t \in Record
  PROVE  /\ BackedBy(PostSend(t, Syn(t), 1), Syn(t))
         /\ BackedBy(PostSend(t, SynAck(t), 1), SynAck(t))
         /\ BackedBy(t, Ack(t, <<>>))
         /\ BackedBy(PostSend(t, Ack(t, <<>>), 0), Ack(t, <<>>))
         /\ \A n \in Nat : BackedBy(PostSend(t, Fin(t), n), Fin(t))
         /\ \A d \in Seq(Nat) :
              BackedBy(PostSend(t, Ack(t, d), Len(d)), Ack(t, d))
<1> USE DEF BackedBy, PostSend, SegLen, MaxOf, Record
<1>1. BackedBy(PostSend(t, Syn(t), 1), Syn(t))
  BY DEF Syn
<1>2. BackedBy(PostSend(t, SynAck(t), 1), SynAck(t))
  BY DEF SynAck
<1>3. /\ BackedBy(t, Ack(t, <<>>))
      /\ BackedBy(PostSend(t, Ack(t, <<>>), 0), Ack(t, <<>>))
  BY DEF Ack
<1>4. \A n \in Nat : BackedBy(PostSend(t, Fin(t), n), Fin(t))
  BY DEF Fin
<1>5. \A d \in Seq(Nat) : BackedBy(PostSend(t, Ack(t, d), Len(d)), Ack(t, d))
  BY DEF Ack
<1> QED
  BY <1>1, <1>2, <1>3, <1>4, <1>5

\* Counts survives what the transitions do after postRecv.
LEMMA CountsFacts ==
  ASSUME AckInv, NEW h \in Host, NEW t \in Record, Counts(h, t)
  PROVE  /\ \A p \in Packet : \A n \in Nat : Counts(h, PostSend(t, p, n))
         /\ \A s \in State : Counts(h, Goto(t, s))
<1>1. tcb[h].lastSent \in Nat /\ t.lastSent \in Nat
  BY RecordNats DEF AckInv, TypeOK
<1>2. ASSUME NEW p \in Packet, NEW n \in Nat
      PROVE  Counts(h, PostSend(t, p, n))
  <2>1. p.seq + n - 1 \in Nat
    BY PacketNats
  <2>2. /\ PostSend(t, p, n).lastSent = MaxOf(t.lastSent, p.seq + n - 1)
        /\ PostSend(t, p, n).lastRecvd = t.lastRecvd
        /\ PostSend(t, p, n).lastAcked = t.lastAcked
    BY DEF PostSend, Record
  <2> QED
    BY <1>1, <2>1, <2>2 DEF Counts, MaxOf
<1>3. ASSUME NEW s \in State
      PROVE  Counts(h, Goto(t, s))
  BY DEF Counts, Goto, Record
<1> QED
  BY <1>2, <1>3

\* The record a host has counts as its own continuation.
LEMMA CountsSelf ==
  ASSUME AckInv, NEW h \in Host
  PROVE  Counts(h, tcb[h])
<1>1. /\ tcb[h].lastSent \in Nat /\ tcb[h].lastRecvd \in Nat
      /\ Peer(h) \in Host /\ Peer(Peer(h)) = h
  BY RecordNats, PeerFacts DEF AckInv, TypeOK
<1>2. /\ tcb[h].lastRecvd <= tcb[Peer(h)].lastSent
      /\ tcb[h].lastAcked <= MaxOf(ISN[h], tcb[Peer(h)].lastRecvd)
  BY <1>1 DEF AckInv, AckChain
<1> QED
  BY <1>1, <1>2 DEF Counts

\* Whether a record backs a segment depends on its counters only.
LEMMA BackedByGoto ==
  ASSUME NEW t \in Record, NEW s \in State, NEW p
  PROVE  BackedBy(Goto(t, s), p) <=> BackedBy(t, p)
  BY DEF BackedBy, Goto, Record

\* A step of tcp_module that takes a segment.
LEMMA PacketStep ==
  ASSUME AckInv, NEW h \in Host, NEW t \in Record, TypeOK', net[h] # <<>>,
         tcb' = [tcb EXCEPT ![h] = t], Counts(h, t),
         NEW out \in Seq(Packet), NEW msgs, TakePacket(h, out, msgs),
         \A i \in DOMAIN out : BackedBy(t, out[i])
  PROVE  AckInv'
<1>1. net \in [Host -> Seq(Packet)]
  BY DEF AckInv, TypeOK
<1>2. net' = [net EXCEPT ![h] = Tail(@), ![Peer(h)] = @ \o out]
  BY DEF TakePacket
<1>3. ASSUME NEW k \in Host, NEW i \in DOMAIN net'[k]
      PROVE  \/ \E j \in DOMAIN net[k] : net'[k][i] = net[k][j]
             \/ k = Peer(h) /\ BackedBy(t, net'[k][i])
  <2>1. CASE k = h
    <3>1. net'[k] = Tail(net[h])
      BY <1>1, <1>2, <2>1, PeerFacts
    <3>2. i + 1 \in DOMAIN net[h] /\ net'[k][i] = net[h][i + 1]
      BY <1>1, <3>1
    <3> QED
      BY <2>1, <3>2
  <2>2. CASE k = Peer(h)
    <3>1. net'[k] = net[k] \o out
      BY <1>1, <1>2, <2>2, PeerFacts
    <3>2. \/ i \in DOMAIN net[k] /\ net'[k][i] = net[k][i]
          \/ i - Len(net[k]) \in DOMAIN out
             /\ net'[k][i] = out[i - Len(net[k])]
      BY <1>1, <3>1
    <3> QED
      BY <2>2, <3>2
  <2> QED
    BY <2>1, <2>2 DEF Peer, Host
<1> QED
  BY <1>3, ChainKept

\* A step of tcp_module that takes none.
LEMMA RequestStep ==
  ASSUME AckInv, NEW h \in Host, NEW t \in Record, TypeOK',
         tcb' = [tcb EXCEPT ![h] = t], Counts(h, t),
         NEW out \in Seq(Packet), net' = [net EXCEPT ![Peer(h)] = @ \o out],
         \A i \in DOMAIN out : BackedBy(t, out[i])
  PROVE  AckInv'
<1>1. net \in [Host -> Seq(Packet)]
  BY DEF AckInv, TypeOK
<1>2. ASSUME NEW k \in Host, NEW i \in DOMAIN net'[k]
      PROVE  \/ \E j \in DOMAIN net[k] : net'[k][i] = net[k][j]
             \/ k = Peer(h) /\ BackedBy(t, net'[k][i])
  <2>1. CASE k = h
    <3>1. net'[k] = net[k]
      BY <1>1, <2>1, PeerFacts
    <3> QED
      BY <3>1
  <2>2. CASE k = Peer(h)
    <3>1. net'[k] = net[k] \o out
      BY <1>1, <2>2, PeerFacts
    <3>2. \/ i \in DOMAIN net[k] /\ net'[k][i] = net[k][i]
          \/ i - Len(net[k]) \in DOMAIN out
             /\ net'[k][i] = out[i - Len(net[k])]
      BY <1>1, <3>1
    <3> QED
      BY <2>2, <3>2
  <2> QED
    BY <2>1, <2>2 DEF Peer, Host
<1> QED
  BY <1>2, ChainKept

\* The record a typed step writes is a record.
LEMMA NewRecord ==
  ASSUME TypeOK, TypeOK', NEW h \in Host, NEW t,
         tcb' = [tcb EXCEPT ![h] = t]
  PROVE  t \in Record
  BY DEF TypeOK

\* What a step sends, element by element.
LEMMA OutBacked ==
  ASSUME NEW t, NEW p, BackedBy(t, p)
  PROVE  /\ \A i \in DOMAIN <<>> : BackedBy(t, <<>>[i])
         /\ \A i \in DOMAIN <<p>> : BackedBy(t, <<p>>[i])
         /\ \A i \in DOMAIN <<p, p>> : BackedBy(t, <<p, p>>[i])
  OBVIOUS

\* The transitions that open a connection preserve the acknowledgement chain.
LEMMA OpeningChain ==
  ASSUME AckInv, TypeOK', NEW h \in Host,
         \/ IgnorePacket(h) \/ IgnoreRequest(h)
         \/ closedToListen(h) \/ closedToSynSent(h)
         \/ listenToSynRcvd(h) \/ synRcvdToEstablished(h)
         \/ synSentToEstablished(h)
  PROVE  AckInv'
<1>0. /\ TypeOK /\ tcb[h] \in Record /\ Counts(h, tcb[h])
      /\ net[h] # <<>> => Head(net[h]) \in Packet
  BY CountsSelf, HeadTypes DEF AckInv, TypeOK
<1>n. ASSUME NEW t PROVE \A i \in DOMAIN <<>> : BackedBy(t, <<>>[i])
  OBVIOUS
<1>1. CASE IgnorePacket(h)
  <2>1. tcb' = [tcb EXCEPT ![h] = tcb[h]] /\ net[h] # <<>>
        /\ TakePacket(h, <<>>, <<>>)
    BY <1>0, <1>1 DEF IgnorePacket, FromMux, TypeOK
  <2> QED
    BY <1>0, <1>n, <2>1, PacketStep, OutTypes
<1>2. CASE IgnoreRequest(h)
  <2>1. tcb' = [tcb EXCEPT ![h] = tcb[h]]
        /\ net' = [net EXCEPT ![Peer(h)] = @ \o <<>>]
    BY <1>0, <1>2 DEF IgnoreRequest, TakeRequest, TypeOK
  <2> QED
    BY <1>0, <1>n, <2>1, RequestStep, OutTypes
<1>3. CASE closedToListen(h)
  <2> DEFINE t == Goto(tcb[h], "LISTEN")
  <2>1. tcb' = [tcb EXCEPT ![h] = t]
        /\ net' = [net EXCEPT ![Peer(h)] = @ \o <<>>]
    BY <1>0, <1>3 DEF closedToListen, TakeRequest, TypeOK
  <2>2. t \in Record /\ Counts(h, t)
    BY <1>0, GotoType, CountsFacts DEF State
  <2> HIDE DEF t
  <2> QED
    BY <1>0, <1>n, <2>1, <2>2, RequestStep, OutTypes
<1>4. CASE closedToSynSent(h)
  <2> DEFINE out == Syn(tcb[h])
             u   == PostSend(tcb[h], out, 1)
             t   == Goto(u, "SYN_SENT")
  <2>1. tcb' = [tcb EXCEPT ![h] = t]
        /\ net' = [net EXCEPT ![Peer(h)] = @ \o <<out, out>>]
    BY <1>0, <1>4 DEF closedToSynSent, TakeRequest, TypeOK
  <2>2. out \in Packet /\ u \in Record
    BY <1>0, FactoryTypes, PostSendType
  <2>3. BackedBy(u, out)
    BY <1>0, SentIsBacked
  <2>4. Counts(h, u)
    BY <1>0, <2>2, CountsFacts
  <2> HIDE DEF out, u
  <2>5. t \in Record /\ Counts(h, t) /\ BackedBy(t, out)
    BY <2>2, <2>3, <2>4, GotoType, CountsFacts, BackedByGoto DEF State
  <2> HIDE DEF t
  <2> QED
    BY <2>1, <2>2, <2>5, RequestStep, OutTypes, OutBacked
<1>5. CASE listenToSynRcvd(h)
  <2> DEFINE r   == PostRecv(tcb[h], Head(net[h]), 1)
             out == SynAck(r)
             u   == PostSend(r, out, 1)
             t   == Goto(u, "SYN_RCVD")
  <2>1. /\ tcb' = [tcb EXCEPT ![h] = t]
        /\ TakePacket(h, <<out>>, <<>>)
        /\ net[h] # <<>>
    BY <1>5 DEF listenToSynRcvd, FromMux
  <2>2. SegLen(Head(net[h])) = 1
    BY <1>5 DEF listenToSynRcvd, FromMux, OnPacket, SegLen, IsSyn
  <2>3. r \in Record /\ Counts(h, r)
    BY <2>1, <2>2, ReceivedIsBacked
  <2> HIDE DEF r
  <2>4. out \in Packet /\ u \in Record /\ BackedBy(u, out)
    BY <2>3, FactoryTypes, PostSendType, SentIsBacked
  <2>5. Counts(h, u)
    BY <2>3, <2>4, CountsFacts
  <2> HIDE DEF out, u
  <2>6. t \in Record /\ Counts(h, t) /\ BackedBy(t, out)
    BY <2>4, <2>5, GotoType, CountsFacts, BackedByGoto DEF State
  <2> HIDE DEF t
  <2> QED
    BY <2>1, <2>4, <2>6, PacketStep, OutTypes, OutBacked
<1>6. CASE synRcvdToEstablished(h)
  <2> DEFINE p == Head(net[h])
             r == PostRecv(tcb[h], p, SegLen(p))
             t == Goto(r, "ESTABLISHED")
  <2>1. /\ tcb' = [tcb EXCEPT ![h] = t]
        /\ TakePacket(h, <<>>, <<WriteUp(<<>>)>>)
        /\ net[h] # <<>>
    BY <1>0, <1>6 DEF synRcvdToEstablished, FromMux, TypeOK
  <2>2. SegLen(p) \in Nat
    BY <1>0, <2>1, PacketNats
  <2>3. r \in Record /\ Counts(h, r)
    BY <2>1, <2>2, ReceivedIsBacked
  <2> HIDE DEF r
  <2>4. t \in Record /\ Counts(h, t)
    BY <2>3, GotoType, CountsFacts DEF State
  <2> HIDE DEF t
  <2> QED
    BY <1>n, <2>1, <2>4, PacketStep, OutTypes
<1>7. CASE synSentToEstablished(h)
  <2> DEFINE r   == PostRecv(tcb[h], Head(net[h]), 1)
             out == Ack(r, <<>>)
             u   == PostSend(r, out, 0)
             t   == Goto(u, "ESTABLISHED")
  <2>1. /\ tcb' = [tcb EXCEPT ![h] = t]
        /\ TakePacket(h, <<out>>, <<WriteUp(<<>>)>>)
        /\ net[h] # <<>>
    BY <1>7 DEF synSentToEstablished, FromMux
  <2>2. SegLen(Head(net[h])) = 1
    BY <1>7 DEF synSentToEstablished, FromMux, OnPacket, SegLen, IsSynAck, IsSyn
  <2>3. r \in Record /\ Counts(h, r)
    BY <2>1, <2>2, ReceivedIsBacked
  <2> HIDE DEF r
  <2>4. out \in Packet /\ u \in Record /\ BackedBy(u, out)
    BY <2>3, FactoryTypes, PostSendType, SentIsBacked
  <2>5. Counts(h, u)
    BY <2>3, <2>4, CountsFacts
  <2> HIDE DEF out, u
  <2>6. t \in Record /\ Counts(h, t) /\ BackedBy(t, out)
    BY <2>4, <2>5, GotoType, CountsFacts, BackedByGoto DEF State
  <2> HIDE DEF t
  <2> QED
    BY <2>1, <2>4, <2>6, PacketStep, OutTypes, OutBacked
<1> QED
  BY <1>1, <1>2, <1>3, <1>4, <1>5, <1>6, <1>7

\* The transitions of establishedLoop preserve the acknowledgement chain.
LEMMA TransferChain ==
  ASSUME AckInv, TypeOK', NEW h \in Host,
         \/ establishedLoopPacket(h) \/ establishedLoopWrite(h)
         \/ establishedLoopStatus(h) \/ SendSegment(h) \/ ExtractThrows(h)
  PROVE  AckInv'
<1>0. /\ TypeOK /\ tcb[h] \in Record /\ Counts(h, tcb[h])
      /\ net[h] # <<>> => Head(net[h]) \in Packet
  BY CountsSelf, HeadTypes DEF AckInv, TypeOK
<1>n. ASSUME NEW t PROVE \A i \in DOMAIN <<>> : BackedBy(t, <<>>[i])
  OBVIOUS
<1>1. CASE establishedLoopPacket(h)
  <2> DEFINE p      == Head(net[h])
             t0     == tcb[h]
             t1     == PostRecv(t0, p, Residue(p))
             accept == p.data # <<>> /\ Accepts(t0, p)
             recv   == IF accept THEN t0.recvBuf \o p.data ELSE t0.recvBuf
             t2     == [t1 EXCEPT
                          !.recvBuf = recv,
                          !.sendBuf =
                             EraseFront(@, t1.lastAcked - t0.lastAcked),
                          !.tmr     = t1.lastAcked # t1.lastSent]
             t3     == [t2 EXCEPT !.room = SendRoom(t2)]
             out    == IF p.data # <<>> THEN <<Ack(t1, <<>>)>> ELSE <<>>
             msgs   == IF accept /\ t0.recvBuf = <<>>
                       THEN <<WriteUp(recv)>> ELSE <<>>
  <2>1. /\ tcb' = [tcb EXCEPT ![h] = t3] /\ TakePacket(h, out, msgs)
        /\ net[h] # <<>> /\ p \in Packet
    BY <1>0, <1>1 DEF establishedLoopPacket, FromMux
  <2>2. SegLen(p) = Len(p.data)
    BY <1>1 DEF establishedLoopPacket, FromMux, OnPacket, SegLen, IsSyn, IsFin
  <2>3. t1 \in Record /\ Counts(h, t1)
    BY <2>1, <2>2, SegmentLengths, ReceivedIsBacked
  <2>4. /\ t3.lastSent = t1.lastSent /\ t3.lastRecvd = t1.lastRecvd
        /\ t3.lastAcked = t1.lastAcked
    <3> HIDE DEF t1, recv
    <3> QED
      BY <2>3 DEF Record
  <2>5. t3 \in Record
    <3> HIDE DEF t3
    <3> QED
      BY <1>0, <2>1, NewRecord
  <2>6. out \in Seq(Packet) /\ \A i \in DOMAIN out : BackedBy(t1, out[i])
    <3> HIDE DEF t1
    <3> QED
      BY <2>3, FactoryTypes, OutTypes, SentIsBacked, OutBacked
  <2> HIDE DEF t1, t3, out, msgs
  <2>7. Counts(h, t3) /\ \A i \in DOMAIN out : BackedBy(t3, out[i])
    BY <2>3, <2>4, <2>6 DEF Counts, BackedBy
  <2> QED
    BY <2>1, <2>5, <2>6, <2>7, PacketStep
<1>2. ASSUME NEW t \in Record, tcb' = [tcb EXCEPT ![h] = t],
             t.lastSent = tcb[h].lastSent, t.lastRecvd = tcb[h].lastRecvd,
             t.lastAcked = tcb[h].lastAcked,
             net' = [net EXCEPT ![Peer(h)] = @ \o <<>>]
      PROVE  AckInv'
  <2>1. Counts(h, t)
    BY <1>0, <1>2 DEF Counts
  <2> QED
    BY <1>2, <1>n, <2>1, RequestStep, OutTypes
<1>3. CASE establishedLoopWrite(h)
  <2> DEFINE u == [tcb[h] EXCEPT !.sendBuf = @ \o Head(toTcp[h]).data]
             t == [u EXCEPT !.room = SendRoom(u)]
  <2>1. /\ tcb' = [tcb EXCEPT ![h] = t]
        /\ net' = [net EXCEPT ![Peer(h)] = @ \o <<>>]
    BY <1>3 DEF establishedLoopWrite, TakeRequest
  <2>2. /\ t.lastSent = tcb[h].lastSent /\ t.lastRecvd = tcb[h].lastRecvd
        /\ t.lastAcked = tcb[h].lastAcked
    BY <1>0 DEF Record
  <2> HIDE DEF t
  <2> QED
    BY <1>0, <1>2, <2>1, <2>2, NewRecord
<1>4. CASE establishedLoopStatus(h)
  <2> DEFINE left == EraseFront(tcb[h].recvBuf, Head(toTcp[h]).bytes)
             t    == [tcb[h] EXCEPT !.recvBuf = left]
  <2>1. /\ tcb' = [tcb EXCEPT ![h] = t]
        /\ net' = [net EXCEPT ![Peer(h)] = @ \o <<>>]
    BY <1>0, <1>4 DEF establishedLoopStatus, TakeRequest, TypeOK
  <2>2. /\ t.lastSent = tcb[h].lastSent /\ t.lastRecvd = tcb[h].lastRecvd
        /\ t.lastAcked = tcb[h].lastAcked
    BY <1>0 DEF Record
  <2> HIDE DEF t
  <2> QED
    BY <1>0, <1>2, <2>1, <2>2, NewRecord
<1>5. CASE SendSegment(h)
  <2> DEFINE u     == tcb[h]
             off   == Unacked(u)
             bytes == MinOf(u.room, MSS)
             d     == Extracted(u.sendBuf, off, bytes)
             out   == Ack(u, d)
             sent  == PostSend(u, out, Len(d))
             t     == [sent EXCEPT
                         !.sendBuf = AfterExtract(@, off, bytes),
                         !.tmr     = TimerOnSend(u),
                         !.room    = @ - bytes]
  <2>1. /\ tcb' = [tcb EXCEPT ![h] = t]
        /\ net' = [net EXCEPT ![Peer(h)] = Append(@, out)]
        /\ off <= Len(u.sendBuf)
    BY <1>5 DEF SendSegment, Ack
  <2>2. d \in Seq(Nat)
    <3>1. off \in Nat /\ u.sendBuf \in Seq(Nat) /\ u.room \in Nat
      BY <1>0, UnackedIsNat DEF Record
    <3>2. bytes \in Nat
      BY <3>1, MSSAssumption DEF MinOf
    <3> QED
      BY <2>1, <3>1, <3>2, BufferTypes
  <2> HIDE DEF d
  <2>3. out \in Packet /\ Len(d) \in Nat
    BY <1>0, <2>2, FactoryTypes
  <2>4. sent \in Record /\ Counts(h, sent) /\ BackedBy(sent, out)
    BY <1>0, <2>2, <2>3, PostSendType, CountsFacts, SentIsBacked
  <2> HIDE DEF sent, out
  <2>5. /\ t.lastSent = sent.lastSent /\ t.lastRecvd = sent.lastRecvd
        /\ t.lastAcked = sent.lastAcked
    BY <2>4 DEF Record
  <2> HIDE DEF t
  <2>6. t \in Record /\ Counts(h, t) /\ BackedBy(t, out)
    BY <1>0, <2>1, <2>4, <2>5, NewRecord DEF Counts, BackedBy
  <2>7. net' = [net EXCEPT ![Peer(h)] = @ \o <<out>>]
    <3>1. net[Peer(h)] \in Seq(Packet)
      BY <1>0, PeerFacts DEF TypeOK
    <3>2. Append(net[Peer(h)], out) = net[Peer(h)] \o <<out>>
      BY <2>3, <3>1
    <3> QED
      BY <2>1, <3>2
  <2> QED
    BY <2>1, <2>3, <2>6, <2>7, RequestStep, OutTypes, OutBacked
<1>6. CASE ExtractThrows(h)
  <2>1. /\ tcb' = [tcb EXCEPT ![h] = tcb[h]]
        /\ net' = [net EXCEPT ![Peer(h)] = @ \o <<>>]
    BY <1>0, <1>6, PeerFacts DEF ExtractThrows, TypeOK
  <2> QED
    BY <1>0, <1>2, <2>1
<1> QED
  BY <1>1, <1>3, <1>4, <1>5, <1>6

\* The transitions that close a connection preserve the acknowledgement chain,
\* whatever length postSend adds for a FIN.
LEMMA ClosingChain ==
  ASSUME AckInv, TypeOK', NEW h \in Host,
         \/ establishedToFinWait1(h) \/ closeWaitToLastAck(h)
         \/ finWait1ToFinWait2(h) \/ finWait2ToTimeWait(h)
         \/ establishedToCloseWait(h) \/ lastAckToClosed(h)
  PROVE  AckInv'
<1>0. /\ TypeOK /\ tcb[h] \in Record /\ Counts(h, tcb[h])
      /\ net[h] # <<>> => Head(net[h]) \in Packet
  BY CountsSelf, HeadTypes DEF AckInv, TypeOK
<1>n. ASSUME NEW t PROVE \A i \in DOMAIN <<>> : BackedBy(t, <<>>[i])
  OBVIOUS
<1>1. ASSUME NEW s \in State, SendFin(h, s)
      PROVE  AckInv'
  <2> DEFINE out == Fin(tcb[h])
  <2>1. PICK g \in GarbageLen :
          tcb' = [tcb EXCEPT ![h] = Goto(PostSend(@, out, g), s)]
    BY <1>1 DEF SendFin
  <2> DEFINE u == PostSend(tcb[h], out, g)
             t == Goto(u, s)
  <2>2. /\ tcb' = [tcb EXCEPT ![h] = t]
        /\ net' = [net EXCEPT ![Peer(h)] = @ \o <<out>>]
    BY <1>0, <1>1, <2>1 DEF SendFin, TakeRequest, TypeOK
  <2>3. g \in Nat
    BY GarbageAssumption
  <2>4. out \in Packet /\ u \in Record /\ BackedBy(u, out)
    BY <1>0, <2>3, FactoryTypes, PostSendType, SentIsBacked
  <2>5. Counts(h, u)
    BY <1>0, <2>3, <2>4, CountsFacts
  <2> HIDE DEF out, u
  <2>6. t \in Record /\ Counts(h, t) /\ BackedBy(t, out)
    BY <2>4, <2>5, GotoType, CountsFacts, BackedByGoto
  <2> HIDE DEF t
  <2> QED
    BY <2>2, <2>4, <2>6, RequestStep, OutTypes, OutBacked
<1>2. ASSUME NEW s \in State, NEW msgs, net[h] # <<>>,
             IsFin(Head(net[h]).flags), AnswerFin(h, s, msgs)
      PROVE  AckInv'
  <2> DEFINE r   == PostRecv(tcb[h], Head(net[h]), 1)
             out == Ack(r, <<>>)
             u   == Goto(PostSend(r, out, 0), s)
             t   == [u EXCEPT !.tmr = @ \/ s = "TIME_WAIT"]
  <2>1. tcb' = [tcb EXCEPT ![h] = t] /\ TakePacket(h, <<out>>, msgs)
    BY <1>2 DEF AnswerFin
  <2>2. SegLen(Head(net[h])) = 1
    BY <1>2 DEF SegLen, IsFin
  <2>3. r \in Record /\ Counts(h, r)
    <3>1. net[h] # <<>>
      BY <1>2
    <3> QED
      BY <2>2, <3>1, ReceivedIsBacked
  <2> HIDE DEF r
  <2>4. /\ out \in Packet /\ PostSend(r, out, 0) \in Record
        /\ BackedBy(PostSend(r, out, 0), out)
    BY <2>3, FactoryTypes, PostSendType, SentIsBacked
  <2>5. u \in Record /\ Counts(h, u) /\ BackedBy(u, out)
    <3>1. Counts(h, PostSend(r, out, 0))
      BY <2>3, <2>4, CountsFacts
    <3> HIDE DEF out
    <3> QED
      BY <2>4, <3>1, GotoType, CountsFacts, BackedByGoto
  <2> HIDE DEF out, u
  <2>6. /\ t.lastSent = u.lastSent /\ t.lastRecvd = u.lastRecvd
        /\ t.lastAcked = u.lastAcked
    BY <2>5 DEF Record
  <2> HIDE DEF t
  <2>7. t \in Record /\ Counts(h, t) /\ BackedBy(t, out)
    BY <1>0, <2>1, <2>5, <2>6, NewRecord DEF Counts, BackedBy
  <2> QED
    BY <1>2, <2>1, <2>4, <2>7, PacketStep, OutTypes, OutBacked
<1>3. ASSUME NEW s \in State, net[h] # <<>>,
             tcb' = [tcb EXCEPT ![h] =
                       Goto(PostRecv(@, Head(net[h]), SegLen(Head(net[h]))), s)],
             TakePacket(h, <<>>, <<>>)
      PROVE  AckInv'
  <2> DEFINE r == PostRecv(tcb[h], Head(net[h]), SegLen(Head(net[h])))
             t == Goto(r, s)
  <2>1. tcb' = [tcb EXCEPT ![h] = t]
    BY <1>0, <1>3 DEF TypeOK
  <2>2. SegLen(Head(net[h])) \in Nat /\ SegLen(Head(net[h])) <= SegLen(Head(net[h]))
    BY <1>0, <1>3, PacketNats
  <2>3. r \in Record /\ Counts(h, r)
    <3>1. net[h] # <<>>
      BY <1>3
    <3> QED
      BY <2>2, <3>1, ReceivedIsBacked
  <2> HIDE DEF r
  <2>4. t \in Record /\ Counts(h, t)
    BY <2>3, GotoType, CountsFacts
  <2> HIDE DEF t
  <2> QED
    BY <1>3, <1>n, <2>1, <2>4, PacketStep, OutTypes
<1>4. CASE establishedToFinWait1(h)
  BY <1>1, <1>4 DEF establishedToFinWait1, State
<1>5. CASE closeWaitToLastAck(h)
  BY <1>1, <1>5 DEF closeWaitToLastAck, State
<1>6. CASE finWait1ToFinWait2(h)
  BY <1>3, <1>6 DEF finWait1ToFinWait2, FromMux, State
<1>7. CASE finWait2ToTimeWait(h)
  BY <1>2, <1>7 DEF finWait2ToTimeWait, FromMux, OnPacket, State
<1>8. CASE establishedToCloseWait(h)
  BY <1>2, <1>8 DEF establishedToCloseWait, FromMux, OnPacket, State
<1>9. CASE lastAckToClosed(h)
  BY <1>3, <1>9 DEF lastAckToClosed, FromMux, State
<1> QED
  BY <1>4, <1>5, <1>6, <1>7, <1>8, <1>9

\* Losing, doubling or reordering a segment preserves the acknowledgement chain:
\* it puts no segment under way that was not under way before.
LEMMA NetChain ==
  ASSUME AckInv, TypeOK', NEW h \in Host, NetStep(h)
  PROVE  AckInv'
<1>0. /\ TypeOK /\ tcb[h] \in Record /\ Counts(h, tcb[h])
      /\ net \in [Host -> Seq(Packet)] /\ net[h] # <<>>
  BY CountsSelf DEF AckInv, TypeOK, NetStep, Lose, Duplicate, Reorder, Fault
<1>1. ASSUME NEW s,
             \A i \in DOMAIN s : \E j \in DOMAIN net[h] : s[i] = net[h][j],
             net' = [net EXCEPT ![h] = s], tcb' = tcb
      PROVE  AckInv'
  <2>1. \A k \in Host : \A i \in DOMAIN net'[k] :
          \E j \in DOMAIN net[k] : net'[k][i] = net[k][j]
    <3>1. \A k \in Host : net'[k] = IF k = h THEN s ELSE net[k]
      BY <1>0, <1>1
    <3> QED
      BY <1>1, <3>1
  <2>2. tcb' = [tcb EXCEPT ![h] = tcb[h]]
    BY <1>0, <1>1 DEF TypeOK
  <2>3. \A k \in Host : \A i \in DOMAIN net'[k] :
          \/ \E j \in DOMAIN net[k] : net'[k][i] = net[k][j]
          \/ k = Peer(h) /\ BackedBy(tcb[h], net'[k][i])
    BY <2>1
  <2> DEFINE t == tcb[h]
  <2>4. t \in Record /\ Counts(h, t) /\ tcb' = [tcb EXCEPT ![h] = t]
    BY <1>0, <2>2
  <2> HIDE DEF t
  <2> QED
    BY <2>3, <2>4, ChainKept DEF t
<1>2. CASE Lose(h)
  <2>1. \A i \in DOMAIN Tail(net[h]) :
          \E j \in DOMAIN net[h] : Tail(net[h])[i] = net[h][j]
    <3> SUFFICES ASSUME NEW i \in DOMAIN Tail(net[h])
                 PROVE  \E j \in DOMAIN net[h] : Tail(net[h])[i] = net[h][j]
      OBVIOUS
    <3>1. i + 1 \in DOMAIN net[h] /\ Tail(net[h])[i] = net[h][i + 1]
      BY <1>0
    <3> QED
      BY <3>1
  <2> QED
    BY <1>1, <1>2, <2>1 DEF Lose, Fault, tcpVars
<1>3. CASE Duplicate(h)
  <2> DEFINE s == Append(net[h], Head(net[h]))
  <2>1. \A i \in DOMAIN s : \E j \in DOMAIN net[h] : s[i] = net[h][j]
    <3> SUFFICES ASSUME NEW i \in DOMAIN s
                 PROVE  \E j \in DOMAIN net[h] : s[i] = net[h][j]
      OBVIOUS
    <3>1. \/ i \in DOMAIN net[h] /\ s[i] = net[h][i]
          \/ 1 \in DOMAIN net[h] /\ s[i] = net[h][1]
      BY <1>0
    <3> QED
      BY <3>1
  <2> QED
    BY <1>1, <1>3, <2>1 DEF Duplicate, Fault, tcpVars
<1>4. CASE Reorder(h)
  <2> DEFINE s == Append(Tail(net[h]), Head(net[h]))
  <2>1. \A i \in DOMAIN s : \E j \in DOMAIN net[h] : s[i] = net[h][j]
    <3> SUFFICES ASSUME NEW i \in DOMAIN s
                 PROVE  \E j \in DOMAIN net[h] : s[i] = net[h][j]
      OBVIOUS
    <3>1. \/ i + 1 \in DOMAIN net[h] /\ s[i] = net[h][i + 1]
          \/ 1 \in DOMAIN net[h] /\ s[i] = net[h][1]
      BY <1>0
    <3> QED
      BY <3>1
  <2> QED
    BY <1>1, <1>4, <2>1 DEF Reorder, Fault, tcpVars
<1> QED
  BY <1>2, <1>3, <1>4 DEF NetStep

\* Steps of sock_module and the application touch neither records nor segments.
LEMMA ChainUntouched ==
  ASSUME AckInv, TypeOK', UNCHANGED <<tcb, net>>
  PROVE  AckInv'
  BY DEF AckInv, AckChain, SegmentsBacked, BackedBy, Started

-----------------------------------------------------------------------------

\* The inductive invariant holds before anything is sent.
LEMMA AckInvInit == Init => AckInv
<1> SUFFICES ASSUME Init PROVE AckInv
  OBVIOUS
<1>1. \A h \in Host : ClosedRecord(ISN[h]) \in Record
  BY ISNAssumption DEF ClosedRecord, Record, State
<1>2. TypeOK
  BY <1>1 DEF Init, TypeOK, Socket, Status
<1>3. \A h \in Host : /\ tcb[h].lastSent = ISN[h] /\ tcb[h].lastAcked = ISN[h]
                      /\ tcb[h].lastRecvd = 0 /\ ISN[h] \in Nat
  BY ISNAssumption DEF Init, ClosedRecord
<1>4. AckChain /\ Started
  BY <1>3, PeerFacts DEF AckChain, Started, MaxOf
<1>5. SegmentsBacked
  BY DEF Init, SegmentsBacked
<1> QED
  BY <1>2, <1>4, <1>5 DEF AckInv

\* Every step of either host, of its sockets and of the network preserves it.
LEMMA AckInvStep == AckInv /\ [Next]_vars => AckInv'
<1> SUFFICES ASSUME AckInv, [Next]_vars PROVE AckInv'
  OBVIOUS
<1>0. TypeOK
  BY DEF AckInv
<1>1. ASSUME NEW h \in Host, TcpStep(h)
      PROVE  AckInv'
  <2>1. CASE \/ IgnorePacket(h) \/ IgnoreRequest(h)
             \/ closedToListen(h) \/ closedToSynSent(h)
             \/ listenToSynRcvd(h) \/ synRcvdToEstablished(h)
             \/ synSentToEstablished(h)
    BY <1>0, <2>1, OpeningType, OpeningChain
  <2>2. CASE \/ establishedLoopPacket(h) \/ establishedLoopWrite(h)
             \/ establishedLoopStatus(h) \/ SendSegment(h) \/ ExtractThrows(h)
    BY <1>0, <2>2, UnackedIsNat, TransferType, TransferChain
  <2>3. CASE \/ establishedToFinWait1(h) \/ closeWaitToLastAck(h)
             \/ finWait1ToFinWait2(h) \/ finWait2ToTimeWait(h)
             \/ establishedToCloseWait(h) \/ lastAckToClosed(h)
    BY <1>0, <2>3, ClosingType, ClosingChain
  <2> QED
    BY <1>1, <2>1, <2>2, <2>3 DEF TcpStep
<1>2. ASSUME NEW h \in Host, SockStep(h) \/ AppStep(h)
      PROVE  AckInv'
  <2>1. TypeOK'
    BY <1>0, <1>2, SocketType
  <2>2. UNCHANGED <<tcb, net>>
    BY <1>2 DEF SockStep, AppStep, HandleTCPWrite, HandleTCPStatus, AppOpen,
                AppWrite, AppRead, AppClose, tcpVars
  <2> QED
    BY <2>1, <2>2, ChainUntouched
<1>3. ASSUME NEW h \in Host, NetStep(h)
      PROVE  AckInv'
  BY <1>0, <1>3, NetType, NetChain
<1>4. CASE UNCHANGED vars
  <2>1. TypeOK'
    BY <1>0, <1>4 DEF vars, TypeOK
  <2> QED
    BY <1>4, <2>1, ChainUntouched DEF vars
<1> QED
  BY <1>1, <1>2, <1>3, <1>4 DEF Next

\* AckInv is an invariant.
LEMMA AckInvHolds == Spec => []AckInv
  BY AckInvInit, AckInvStep, PTL DEF Spec

\* The variables keep their types in every behaviour, whatever the network
\* does: in particular the send loop never computes a negative offset.
THEOREM TypeCorrect == Spec => []TypeOK
<1>1. AckInv => TypeOK
  BY DEF AckInv
<1> QED
  BY <1>1, AckInvHolds, PTL

\* Nothing is taken for acknowledged that the peer has not received, and nothing
\* for received that the peer has not sent.
THEOREM AcknowledgedWasReceived == Spec => []AckChain
<1>1. AckInv => AckChain
  BY DEF AckInv
<1> QED
  BY <1>1, AckInvHolds, PTL

\* Every segment under way is backed by its sender's record, at any time until
\* it is received.
THEOREM SegmentsStayBacked == Spec => []SegmentsBacked
<1>1. AckInv => SegmentsBacked
  BY DEF AckInv
<1> QED
  BY <1>1, AckInvHolds, PTL

-----------------------------------------------------------------------------
(* What a FIFO holds of some types of messages.                            *)
NoneOf(s, T) == \A i \in DOMAIN s : s[i].type \notin T
OneOf(s, T) ==
  \E i \in DOMAIN s : /\ s[i].type \in T
                      /\ \A j \in DOMAIN s : s[j].type \in T => j = i

\* A FIFO without such a message: what is sent to it, what is received from it.
LEMMA NoneFacts ==
  ASSUME NEW D, NEW s \in Seq(D), NEW T
  PROVE  /\ NoneOf(<<>>, T)
         /\ \A x \in D : NoneOf(s, T) /\ x.type \notin T => NoneOf(Append(s, x), T)
         /\ s # <<>> /\ NoneOf(s, T) =>
              NoneOf(Tail(s), T) /\ Head(s).type \notin T
         /\ \A r \in Seq(D) : NoneOf(s, T) /\ NoneOf(r, T) => NoneOf(s \o r, T)
<1>1. NoneOf(<<>>, T)
  BY DEF NoneOf
<1>2. ASSUME NEW x \in D, NoneOf(s, T), x.type \notin T
      PROVE  NoneOf(Append(s, x), T)
  <2> SUFFICES ASSUME NEW i \in DOMAIN Append(s, x)
               PROVE  Append(s, x)[i].type \notin T
    BY DEF NoneOf
  <2>1. \/ i \in DOMAIN s /\ Append(s, x)[i] = s[i]
        \/ Append(s, x)[i] = x
    OBVIOUS
  <2> QED
    BY <1>2, <2>1 DEF NoneOf
<1>3. ASSUME s # <<>>, NoneOf(s, T)
      PROVE  NoneOf(Tail(s), T) /\ Head(s).type \notin T
  <2>1. \A i \in DOMAIN Tail(s) : i + 1 \in DOMAIN s /\ Tail(s)[i] = s[i + 1]
    BY <1>3
  <2>2. 1 \in DOMAIN s /\ Head(s) = s[1]
    BY <1>3
  <2> QED
    BY <1>3, <2>1, <2>2, Zenon DEF NoneOf
<1>4. ASSUME NEW r \in Seq(D), NoneOf(s, T), NoneOf(r, T)
      PROVE  NoneOf(s \o r, T)
  <2> SUFFICES ASSUME NEW i \in DOMAIN (s \o r)
               PROVE  (s \o r)[i].type \notin T
    BY DEF NoneOf
  <2>1. \/ i \in DOMAIN s /\ (s \o r)[i] = s[i]
        \/ i - Len(s) \in DOMAIN r /\ (s \o r)[i] = r[i - Len(s)]
    OBVIOUS
  <2> QED
    BY <1>4, <2>1, Zenon DEF NoneOf
<1> QED
  BY <1>1, <1>2, <1>3, <1>4

\* A FIFO with one such message.
LEMMA OneFacts ==
  ASSUME NEW D, NEW s \in Seq(D), NEW T
  PROVE  /\ \A x \in D : NoneOf(s, T) /\ x.type \in T => OneOf(Append(s, x), T)
         /\ \A x \in D : OneOf(s, T) /\ x.type \notin T => OneOf(Append(s, x), T)
         /\ s # <<>> /\ OneOf(s, T) => IF Head(s).type \in T THEN NoneOf(Tail(s), T)
                                       ELSE OneOf(Tail(s), T)
<1>1. ASSUME NEW x \in D, NoneOf(s, T), x.type \in T
      PROVE  OneOf(Append(s, x), T)
  <2>1. Len(s) + 1 \in DOMAIN Append(s, x) /\ Append(s, x)[Len(s) + 1] = x
    OBVIOUS
  <2>2. ASSUME NEW j \in DOMAIN Append(s, x), Append(s, x)[j].type \in T
        PROVE  j = Len(s) + 1
    <3>1. j = Len(s) + 1 \/ (j \in DOMAIN s /\ Append(s, x)[j] = s[j])
      OBVIOUS
    <3> QED
      BY <1>1, <2>2, <3>1 DEF NoneOf
  <2> QED
    BY <1>1, <2>1, <2>2 DEF OneOf
<1>2. ASSUME NEW x \in D, OneOf(s, T), x.type \notin T
      PROVE  OneOf(Append(s, x), T)
  <2>1. PICK i \in DOMAIN s : s[i].type \in T /\ \A j \in DOMAIN s : s[j].type \in T => j = i
    BY <1>2 DEF OneOf
  <2>2. i \in DOMAIN Append(s, x) /\ Append(s, x)[i] = s[i]
    OBVIOUS
  <2>3. ASSUME NEW j \in DOMAIN Append(s, x), Append(s, x)[j].type \in T
        PROVE  j = i
    <3>1. Append(s, x)[j] = x \/ (j \in DOMAIN s /\ Append(s, x)[j] = s[j])
      OBVIOUS
    <3> QED
      BY <1>2, <2>1, <2>3, <3>1
  <2> QED
    BY <2>1, <2>2, <2>3 DEF OneOf
<1>3. ASSUME s # <<>>, OneOf(s, T)
      PROVE  IF Head(s).type \in T THEN NoneOf(Tail(s), T) ELSE OneOf(Tail(s), T)
  <2>1. PICK i \in DOMAIN s : s[i].type \in T /\ \A j \in DOMAIN s : s[j].type \in T => j = i
    BY <1>3 DEF OneOf
  <2>2. \A j \in DOMAIN Tail(s) : j + 1 \in DOMAIN s /\ Tail(s)[j] = s[j + 1] /\ j + 1 # 1
    BY <1>3
  <2>3. 1 \in DOMAIN s /\ Head(s) = s[1]
    BY <1>3
  <2>4. CASE Head(s).type \in T
    <3>1. i = 1
      BY <2>1, <2>3, <2>4
    <3> QED
      BY <2>1, <2>2, <2>4, <3>1 DEF NoneOf
  <2>5. CASE Head(s).type \notin T
    <3>1. i # 1
      BY <2>1, <2>3, <2>5
    <3>2. i - 1 \in DOMAIN Tail(s) /\ Tail(s)[i - 1] = s[i]
      BY <1>3, <3>1
    <3>3. ASSUME NEW j \in DOMAIN Tail(s), Tail(s)[j].type \in T
          PROVE  j = i - 1
      <4>1. j + 1 = i
        BY <2>1, <2>2, <3>3
      <4> QED
        BY <4>1
    <3> QED
      BY <2>1, <2>5, <3>2, <3>3 DEF OneOf
  <2> QED
    BY <2>4, <2>5
<1> QED
  BY <1>1, <1>2, <1>3

-----------------------------------------------------------------------------
(* Calls.  The status of the socket, tcpq and the two FIFOs between the    *)
(* modules say together where the application's call stands.               *)
Opens == {"CONNECT", "ACCEPT"}

\* The open has not been made, or not been seen by tcp_module.
NotOpened(status, asked, tt, ts) ==
  /\ ts = <<>>
  /\ \/ status = "FREE" /\ asked = <<>> /\ tt = <<>>
     \/ /\ status = "OPEN_PENDING"
        /\ \E ty \in Opens : asked = <<ty>> /\ tt = <<Req(ty, <<>>, 0)>>

\* No request waits for tcp_module, and no answer for sock_module.
Quiet(tt, ts) == NoneOf(tt, RequestType) /\ NoneOf(ts, {"STATUS"})

\* The STATUS of an open comes before the WRITE that ends it; that of a write is
\* all there is; an application that has its socket back owes nothing.
CallRight(status, asked, tt, ts) ==
  /\ status # "FREE"
  /\ NoneOf(tt, Opens)
  /\ status = "OPEN_PENDING" =>
       \/ asked = <<>> /\ Quiet(tt, ts)
       \/ /\ \E ty \in Opens : asked = <<ty>>
          /\ NoneOf(tt, RequestType)
          /\ ts # <<>> /\ Head(ts).type = "STATUS" /\ NoneOf(Tail(ts), {"STATUS"})
  /\ status \in {"CONNECTED", "READ_PENDING"} => asked = <<>> /\ Quiet(tt, ts)
  /\ status = "WRITE_PENDING" =>
       /\ asked = <<"WRITE">>
       /\ \/ Quiet(tt, ts)
          \/ OneOf(tt, RequestType) /\ NoneOf(ts, {"STATUS"})
          \/ NoneOf(tt, RequestType) /\ OneOf(ts, {"STATUS"})
  /\ status = "CLOSED" => asked = <<>> \/ asked = <<"CLOSE">>

Fresh(h) == /\ tcb[h] = ClosedRecord(ISN[h])
            /\ NotOpened(sock[h].status, sock[h].tcpq, toTcp[h], toSock[h])
Begun(h) == CallRight(sock[h].status, sock[h].tcpq, toTcp[h], toSock[h])

CallInv == \A h \in Host : Fresh(h) \/ Begun(h)

\* tcp_module sends something that is no answer.
LEMMA CallTold ==
  ASSUME NEW st \in Status, NEW q, NEW tt \in Seq(Request), NEW ts \in Seq(Response),
         CallRight(st, q, tt, ts),
         NEW msgs \in Seq(Response), NoneOf(msgs, {"STATUS"})
  PROVE  CallRight(st, q, tt, ts \o msgs)
<1>1. NoneOf(ts, {"STATUS"}) => NoneOf(ts \o msgs, {"STATUS"})
  BY NoneFacts
<1>2. OneOf(ts, {"STATUS"}) => OneOf(ts \o msgs, {"STATUS"})
  <2> SUFFICES ASSUME OneOf(ts, {"STATUS"}) PROVE OneOf(ts \o msgs, {"STATUS"})
    OBVIOUS
  <2>1. PICK i \in DOMAIN ts :
          ts[i].type \in {"STATUS"} /\ \A j \in DOMAIN ts : ts[j].type \in {"STATUS"} => j = i
    BY DEF OneOf
  <2>2. i \in DOMAIN (ts \o msgs) /\ (ts \o msgs)[i] = ts[i]
    OBVIOUS
  <2>3. ASSUME NEW j \in DOMAIN (ts \o msgs), (ts \o msgs)[j].type \in {"STATUS"}
        PROVE  j = i
    <3>1. \/ j \in DOMAIN ts /\ (ts \o msgs)[j] = ts[j]
          \/ j - Len(ts) \in DOMAIN msgs /\ (ts \o msgs)[j] = msgs[j - Len(ts)]
      OBVIOUS
    <3> QED
      BY <2>1, <2>3, <3>1, Zenon DEF NoneOf
  <2> QED
    BY <2>1, <2>2, <2>3 DEF OneOf
<1>3. ts # <<>> =>
        /\ ts \o msgs # <<>> /\ Head(ts \o msgs) = Head(ts)
        /\ Tail(ts \o msgs) = Tail(ts) \o msgs
  OBVIOUS
<1>4. ts # <<>> /\ NoneOf(Tail(ts), {"STATUS"}) => NoneOf(Tail(ts) \o msgs, {"STATUS"})
  <2>1. ts # <<>> => Tail(ts) \in Seq(Response)
    OBVIOUS
  <2> QED
    BY <2>1, NoneFacts
<1> QED
  BY <1>1, <1>2, <1>3, <1>4, Zenon DEF CallRight, Quiet

\* tcp_module takes a message, and perhaps answers a request.
LEMMA CallTaken ==
  ASSUME NEW st \in Status, NEW q, NEW tt \in Seq(Request), NEW ts \in Seq(Response),
         CallRight(st, q, tt, ts), tt # <<>>,
         NEW msgs \in Seq(Response),
         \/ NoneOf(msgs, {"STATUS"})
         \/ msgs = <<StatusUp>> /\ Head(tt).type \in RequestType
  PROVE  CallRight(st, q, Tail(tt), ts \o msgs)
<1>0. Tail(tt) \in Seq(Request)
  OBVIOUS
<1>1. /\ NoneOf(tt, RequestType) => NoneOf(Tail(tt), RequestType)
      /\ NoneOf(tt, Opens) => NoneOf(Tail(tt), Opens)
      /\ NoneOf(tt, RequestType) => Head(tt).type \notin RequestType
  BY NoneFacts
<1>2. OneOf(tt, RequestType) => IF Head(tt).type \in RequestType
                                THEN NoneOf(Tail(tt), RequestType)
                                ELSE OneOf(Tail(tt), RequestType)
  BY OneFacts
<1>3. CallRight(st, q, Tail(tt), ts) \/ ~NoneOf(msgs, {"STATUS"})
  BY <1>1, <1>2, Zenon DEF CallRight, Quiet
<1>4. CASE NoneOf(msgs, {"STATUS"})
  BY <1>0, <1>3, <1>4, CallTold
<1>5. CASE msgs = <<StatusUp>> /\ Head(tt).type \in RequestType
  <2>1. ts \o msgs = Append(ts, StatusUp) /\ StatusUp \in Response
    BY <1>5 DEF StatusUp, Response
  <2>2. StatusUp.type \in {"STATUS"}
    BY DEF StatusUp
  <2>3. NoneOf(ts, {"STATUS"}) => OneOf(ts \o msgs, {"STATUS"})
    BY <2>1, <2>2, OneFacts
  <2>4. ~NoneOf(tt, RequestType)
    BY <1>1, <1>5
  <2>5. OneOf(tt, RequestType) => NoneOf(Tail(tt), RequestType)
    BY <1>2, <1>5
  <2> QED
    BY <1>1, <2>3, <2>4, <2>5, Zenon DEF CallRight, Quiet
<1> QED
  BY <1>4, <1>5

\* sock_module takes a WRITE and answers it.
LEMMA CallFed ==
  ASSUME NEW st \in Status, NEW q, NEW tt \in Seq(Request), NEW ts \in Seq(Response),
         CallRight(st, q, tt, ts), ts # <<>>, Head(ts).type = "WRITE",
         NEW r \in Request, r.type = "STATUS"
  PROVE  CallRight(IF st \in EndedByWrite THEN "CONNECTED" ELSE st, q,
                   Append(tt, r), Tail(ts))
<1>1. /\ NoneOf(tt, RequestType) => NoneOf(Append(tt, r), RequestType)
      /\ NoneOf(tt, Opens) => NoneOf(Append(tt, r), Opens)
  <2>1. r.type \notin RequestType /\ r.type \notin Opens
    BY DEF RequestType, Opens
  <2> QED
    BY <2>1, NoneFacts
<1>2. OneOf(tt, RequestType) => OneOf(Append(tt, r), RequestType)
  <2>1. r.type \notin RequestType
    BY DEF RequestType
  <2> QED
    BY <2>1, OneFacts
<1>3. NoneOf(ts, {"STATUS"}) => NoneOf(Tail(ts), {"STATUS"})
  BY NoneFacts
<1>4. OneOf(ts, {"STATUS"}) => OneOf(Tail(ts), {"STATUS"})
  BY OneFacts
<1>5. CASE st = "OPEN_PENDING"
  BY <1>1, <1>3, <1>5 DEF CallRight, Quiet, EndedByWrite
<1>6. CASE st # "OPEN_PENDING"
  BY <1>1, <1>2, <1>3, <1>4, <1>6 DEF CallRight, Quiet, EndedByWrite
<1> QED
  BY <1>5, <1>6

\* sock_module takes a STATUS for the oldest record of tcpq.
LEMMA CallAnswered ==
  ASSUME NEW st \in Status, NEW q \in Seq(RequestType),
         NEW tt \in Seq(Request), NEW ts \in Seq(Response),
         CallRight(st, q, tt, ts), ts # <<>>, Head(ts).type = "STATUS", q # <<>>
  PROVE  CallRight(IF Head(q) = "WRITE" THEN "CONNECTED" ELSE st, Tail(q), tt, Tail(ts))
<1>1. ~NoneOf(ts, {"STATUS"})
  BY NoneFacts
<1>2. OneOf(ts, {"STATUS"}) => NoneOf(Tail(ts), {"STATUS"})
  BY OneFacts
<1>3. \A x : q = <<x>> => Head(q) = x /\ Tail(q) = <<>>
  OBVIOUS
<1>4. CASE st = "OPEN_PENDING"
  <2>1. PICK ty \in Opens : q = <<ty>>
    BY <1>1, <1>4 DEF CallRight, Quiet
  <2>2. Head(q) # "WRITE" /\ Tail(q) = <<>>
    BY <1>3, <2>1 DEF Opens
  <2> QED
    BY <1>1, <1>4, <2>2 DEF CallRight, Quiet
<1>5. CASE st = "WRITE_PENDING"
  <2>1. Head(q) = "WRITE" /\ Tail(q) = <<>>
    BY <1>3, <1>5 DEF CallRight
  <2> QED
    BY <1>1, <1>2, <1>5, <2>1 DEF CallRight, Quiet
<1>6. CASE st = "CLOSED"
  <2>1. Head(q) = "CLOSE" /\ Tail(q) = <<>>
    BY <1>3, <1>6 DEF CallRight
  <2> QED
    BY <1>6, <2>1 DEF CallRight
<1> QED
  BY <1>1, <1>4, <1>5, <1>6 DEF CallRight, Quiet, Status

\* What any step of tcp_module does to the FIFOs between it and sock_module.
Tells(h, msgs) ==
  /\ UNCHANGED <<sock, app>>
  /\ toSock' = [toSock EXCEPT ![h] = @ \o msgs]
  /\ \/ UNCHANGED toTcp /\ NoneOf(msgs, {"STATUS"})
     \/ /\ toTcp[h] # <<>> /\ toTcp' = [toTcp EXCEPT ![h] = Tail(@)]
        /\ \/ NoneOf(msgs, {"STATUS"})
           \/ msgs = <<StatusUp>> /\ Head(toTcp[h]).type \in RequestType

LEMMA NoAnswers ==
  /\ <<>> \in Seq(Response) /\ NoneOf(<<>>, {"STATUS"})
  /\ \A d \in Seq(Nat) : /\ <<WriteUp(d)>> \in Seq(Response)
                         /\ NoneOf(<<WriteUp(d)>>, {"STATUS"})
  /\ <<StatusUp>> \in Seq(Response)
BY MessageTypes DEF NoneOf, WriteUp

LEMMA TcpTells ==
  ASSUME TypeOK, NEW h \in Host, TcpStep(h)
  PROVE  \E msgs \in Seq(Response) : Tells(h, msgs)
<1>0. tcb[h] \in Record /\ \A d \in Seq(Nat) : d \in Seq(Nat)
  BY DEF TypeOK
<1>1. ASSUME NEW out, NEW msgs \in Seq(Response), NoneOf(msgs, {"STATUS"}),
             TakePacket(h, out, msgs)
      PROVE  \E m \in Seq(Response) : Tells(h, m)
  BY <1>1 DEF TakePacket, Tells, sockVars
<1>2. ASSUME NEW out, NEW msgs \in Seq(Response), TakeRequest(h, out, msgs), toTcp[h] # <<>>,
             \/ NoneOf(msgs, {"STATUS"})
             \/ msgs = <<StatusUp>> /\ Head(toTcp[h]).type \in RequestType
      PROVE  \E m \in Seq(Response) : Tells(h, m)
  BY <1>2 DEF TakeRequest, Tells, sockVars
<1>3. CASE IgnorePacket(h)
  BY <1>1, <1>3, NoAnswers DEF IgnorePacket
<1>4. CASE IgnoreRequest(h)
  BY <1>2, <1>4, NoAnswers DEF IgnoreRequest, FromSock
<1>5. CASE \/ closedToListen(h) \/ closedToSynSent(h) \/ establishedLoopWrite(h)
           \/ establishedToFinWait1(h) \/ closeWaitToLastAck(h)
  <2>1. \E out : TakeRequest(h, out, <<StatusUp>>)
    BY <1>5, Zenon DEF closedToListen, closedToSynSent, establishedLoopWrite,
              establishedToFinWait1, closeWaitToLastAck, SendFin
  <2>2. toTcp[h] # <<>> /\ Head(toTcp[h]).type \in RequestType
    BY <1>5 DEF closedToListen, closedToSynSent, establishedLoopWrite,
              establishedToFinWait1, closeWaitToLastAck, FromSock, OnRequest, RequestType
  <2> QED
    BY <1>2, <2>1, <2>2, NoAnswers
<1>6. CASE \/ listenToSynRcvd(h) \/ finWait1ToFinWait2(h) \/ finWait2ToTimeWait(h)
           \/ lastAckToClosed(h)
  <2>1. \E out : TakePacket(h, out, <<>>)
    BY <1>6, Zenon DEF listenToSynRcvd, finWait1ToFinWait2, finWait2ToTimeWait,
              lastAckToClosed, AnswerFin
  <2> QED
    BY <1>1, <2>1, NoAnswers
<1>7. CASE \/ synRcvdToEstablished(h) \/ synSentToEstablished(h)
           \/ establishedToCloseWait(h)
  <2>1. \E out : TakePacket(h, out, <<WriteUp(<<>>)>>)
    BY <1>7, Zenon DEF synRcvdToEstablished, synSentToEstablished, establishedToCloseWait,
              AnswerFin
  <2>2. <<>> \in Seq(Nat)
    OBVIOUS
  <2> QED
    BY <1>1, <2>1, <2>2, NoAnswers
<1>8. CASE establishedLoopPacket(h)
  <2>1. net[h] # <<>> /\ Head(net[h]) \in Packet
    BY <1>8, HeadTypes DEF establishedLoopPacket, FromMux
  <2>2. Head(net[h]).data \in Seq(Nat) /\ tcb[h].recvBuf \in Seq(Nat)
    BY <1>0, <2>1 DEF Record, Packet
  <2>3. tcb[h].recvBuf \o Head(net[h]).data \in Seq(Nat)
    BY <2>2
  <2>4. \E out : \/ TakePacket(h, out, <<>>)
                 \/ TakePacket(h, out, <<WriteUp(tcb[h].recvBuf \o Head(net[h]).data)>>)
    BY <1>8, Zenon DEF establishedLoopPacket
  <2> QED
    BY <1>1, <2>3, <2>4, NoAnswers
<1>9. CASE establishedLoopStatus(h)
  <2> DEFINE left == EraseFront(tcb[h].recvBuf, Head(toTcp[h]).bytes)
  <2>1. toTcp[h] # <<>> /\ Head(toTcp[h]) \in Request
    BY <1>9, HeadTypes DEF establishedLoopStatus, FromSock
  <2>2. left \in Seq(Nat)
    BY <1>0, <2>1, BufferTypes DEF Record, Request
  <2>3. \/ TakeRequest(h, <<>>, <<>>) \/ TakeRequest(h, <<>>, <<WriteUp(left)>>)
    BY <1>9, Zenon DEF establishedLoopStatus
  <2> HIDE DEF left
  <2> QED
    BY <1>2, <2>1, <2>2, <2>3, NoAnswers
<1>10. CASE SendSegment(h) \/ ExtractThrows(h)
  <2>1. UNCHANGED <<toTcp, toSock, sock, app>>
    BY <1>10 DEF SendSegment, ExtractThrows, sockVars
  <2>2. toSock' = [toSock EXCEPT ![h] = @ \o <<>>]
    BY <2>1 DEF TypeOK
  <2> QED
    BY <2>1, <2>2, NoAnswers DEF Tells
<1> QED
  BY <1>3, <1>4, <1>5, <1>6, <1>7, <1>8, <1>9, <1>10, Zenon DEF TcpStep

\* A record that is as addClosedConnection made it waits for an open, and for
\* nothing else; with the open, the call is under way.
LEMMA FreshStep ==
  ASSUME TypeOK, NEW h \in Host, Fresh(h), TcpStep(h)
  PROVE  \/ tcb' = tcb /\ toTcp' = toTcp /\ toSock' = toSock /\ sock' = sock
         \/ Begun(h)'
<1>1. /\ tcb[h].state = "CLOSED" /\ tcb[h].room = 0
      /\ toSock[h] = <<>>
      /\ \/ toTcp[h] = <<>>
         \/ /\ sock[h].status = "OPEN_PENDING"
            /\ \E ty \in Opens : sock[h].tcpq = <<ty>> /\ toTcp[h] = <<Req(ty, <<>>, 0)>>
  BY DEF Fresh, NotOpened, ClosedRecord
<1>2. \A f : OnPacket("CLOSED", f) = "ignore"
  BY DEF OnPacket
<1>3. \A ty \in RequestType \cup {"STATUS"} :
        OnRequest("CLOSED", ty) = CASE ty = "CONNECT" -> "SynSent" [] ty = "ACCEPT" -> "Listen"
                          [] OTHER -> "ignore"
  BY DEF OnRequest, RequestType
<1>4. CASE IgnorePacket(h)
  <2>1. toSock' = [toSock EXCEPT ![h] = @ \o <<>>] /\ UNCHANGED <<tcb, toTcp, sock>>
    BY <1>4 DEF IgnorePacket, TakePacket, sockVars
  <2>2. toSock' = toSock
    BY <2>1 DEF TypeOK
  <2> QED
    BY <2>1, <2>2
<1>5. CASE \E tr \in {"SynRcvd", "SynRcvdEstablished", "SynSentEstablished", "Loop",
                      "FinWait2", "TimeWait", "CloseWait", "Closed"} : FromMux(h, tr)
  BY <1>1, <1>2, <1>5 DEF FromMux
<1>6. CASE \E tr : FromSock(h, tr)
  <2>1. PICK ty \in Opens : /\ sock[h].status = "OPEN_PENDING" /\ sock[h].tcpq = <<ty>>
                            /\ toTcp[h] = <<Req(ty, <<>>, 0)>>
    BY <1>1, <1>6 DEF FromSock
  <2>2. Head(toTcp[h]).type = ty /\ Tail(toTcp[h]) = <<>>
    BY <2>1 DEF Req
  <2>3. CASE closedToListen(h) \/ closedToSynSent(h)
    <3>1. \E out : TakeRequest(h, out, <<StatusUp>>)
      BY <2>3, Zenon DEF closedToListen, closedToSynSent
    <3>2. toTcp'[h] = <<>> /\ toSock'[h] = <<StatusUp>> /\ sock' = sock
      BY <1>1, <2>2, <3>1 DEF TakeRequest, TypeOK, sockVars
    <3>3. NoneOf(<<>>, Opens) /\ NoneOf(<<>>, RequestType) /\ NoneOf(<<>>, {"STATUS"})
      BY DEF NoneOf
    <3>4. /\ <<StatusUp>> # <<>> /\ Head(<<StatusUp>>).type = "STATUS"
          /\ Tail(<<StatusUp>>) = <<>>
      BY DEF StatusUp
    <3>5. CallRight("OPEN_PENDING", <<ty>>, <<>>, <<StatusUp>>)
      BY <3>3, <3>4 DEF CallRight
    <3> QED
      BY <2>1, <3>2, <3>5 DEF Begun
  <2>4. CASE ~(closedToListen(h) \/ closedToSynSent(h))
    <3>1. OnRequest(tcb[h].state, Head(toTcp[h]).type) \in {"SynSent", "Listen"}
      BY <1>1, <1>3, <2>2 DEF Opens, RequestType
    <3>2. ~ \E tr \in {"ignore", "LoopWrite", "LoopStatus", "FinWait1", "LastAck"} :
              FromSock(h, tr)
      BY <3>1 DEF FromSock
    <3>3. ~ \/ IgnoreRequest(h) \/ establishedLoopWrite(h) \/ establishedLoopStatus(h)
            \/ establishedToFinWait1(h) \/ closeWaitToLastAck(h)
      BY <3>2 DEF IgnoreRequest, establishedLoopWrite, establishedLoopStatus,
                  establishedToFinWait1, closeWaitToLastAck
    <3> HIDE DEF Host
    <3>4. ~ \/ listenToSynRcvd(h) \/ synRcvdToEstablished(h) \/ synSentToEstablished(h)
            \/ establishedLoopPacket(h) \/ finWait1ToFinWait2(h) \/ finWait2ToTimeWait(h)
            \/ establishedToCloseWait(h) \/ lastAckToClosed(h)
      BY <1>1, <1>2 DEF FromMux, listenToSynRcvd, synRcvdToEstablished,
         synSentToEstablished, establishedLoopPacket, finWait1ToFinWait2,
         finWait2ToTimeWait, establishedToCloseWait, lastAckToClosed
    <3>5. ~(SendSegment(h) \/ ExtractThrows(h))
      BY <1>1 DEF SendSegment, ExtractThrows
    <3>6. IgnorePacket(h)
      BY <2>4, <3>3, <3>4, <3>5, Zenon DEF TcpStep
    <3> QED
      BY <1>4, <3>6
  <2> QED
    BY <2>3, <2>4
<1>7. CASE SendSegment(h) \/ ExtractThrows(h)
  BY <1>1, <1>7 DEF SendSegment, ExtractThrows
<1> QED
  BY <1>4, <1>5, <1>6, <1>7, Zenon
  DEF TcpStep, IgnoreRequest, closedToListen, closedToSynSent, listenToSynRcvd,
      synRcvdToEstablished, synSentToEstablished, establishedLoopPacket,
      establishedLoopWrite, establishedLoopStatus, establishedToFinWait1,
      closeWaitToLastAck, finWait1ToFinWait2, finWait2ToTimeWait,
      establishedToCloseWait, lastAckToClosed

\* What a host is not concerned with does not change its call.
LEMMA CallElsewhere ==
  ASSUME NEW k \in Host, Fresh(k) \/ Begun(k),
         tcb'[k] = tcb[k], sock'[k] = sock[k], toTcp'[k] = toTcp[k], toSock'[k] = toSock[k]
  PROVE  (Fresh(k) \/ Begun(k))'
BY DEF Fresh, Begun

\* The parts of a host's state that its call is about.
LEMMA CallTypes ==
  ASSUME TypeOK, NEW h \in Host
  PROVE  /\ sock[h].status \in Status /\ sock[h].tcpq \in Seq(RequestType)
         /\ toTcp[h] \in Seq(Request) /\ toSock[h] \in Seq(Response)
         /\ sock[h].bin \in Seq(Nat)
BY DEF TypeOK, Socket

LEMMA TcpCall ==
  ASSUME TypeOK, CallInv, NEW h \in Host, TcpStep(h), TypeOK',
         \A k \in Host \ {h} : tcb'[k] = tcb[k]
  PROVE  CallInv'
<1>1. PICK msgs \in Seq(Response) : Tells(h, msgs)
  BY TcpTells
<1>2. ASSUME NEW k \in Host, k # h
      PROVE  (Fresh(k) \/ Begun(k))'
  <2>1. /\ tcb'[k] = tcb[k] /\ sock'[k] = sock[k] /\ toTcp'[k] = toTcp[k]
        /\ toSock'[k] = toSock[k]
    BY <1>1, <1>2 DEF Tells, TypeOK
  <2> QED
    BY <2>1, CallElsewhere DEF CallInv
<1>3. ASSUME Fresh(h)
      PROVE  (Fresh(h) \/ Begun(h))'
  BY <1>3, FreshStep, CallElsewhere
<1>4. ASSUME Begun(h)
      PROVE  (Fresh(h) \/ Begun(h))'
  <2>1. toSock'[h] = toSock[h] \o msgs /\ sock'[h] = sock[h]
    BY <1>1 DEF Tells, TypeOK
  <2>2. CASE UNCHANGED toTcp /\ NoneOf(msgs, {"STATUS"})
    BY <1>4, <2>1, <2>2, CallTypes, CallTold DEF Begun
  <2>3. CASE /\ toTcp[h] # <<>> /\ toTcp' = [toTcp EXCEPT ![h] = Tail(@)]
             /\ \/ NoneOf(msgs, {"STATUS"})
                \/ msgs = <<StatusUp>> /\ Head(toTcp[h]).type \in RequestType
    <3>1. toTcp'[h] = Tail(toTcp[h])
      BY <2>3 DEF TypeOK
    <3> QED
      BY <1>4, <2>1, <2>3, <3>1, CallTypes, CallTaken DEF Begun
  <2> QED
    BY <1>1, <2>2, <2>3 DEF Tells
<1> QED
  BY <1>2, <1>3, <1>4 DEF CallInv

\* A request that is recorded in tcpq.
LEMMA Recorded ==
  ASSUME TypeOK, NEW h \in Host, NEW r \in Request, r.type \in RequestType,
         NEW s \in Socket, SendTCPRequest(h, r, s)
  PROVE  /\ sock'[h].status = s.status /\ sock'[h].tcpq = Append(s.tcpq, r.type)
         /\ toTcp'[h] = Append(toTcp[h], r)
<1>1. r.type # "STATUS"
  BY DEF RequestType
<1>2. sock' = [sock EXCEPT ![h] = [s EXCEPT !.tcpq = Append(@, r.type)]]
      /\ toTcp' = [toTcp EXCEPT ![h] = Append(@, r)]
  BY <1>1 DEF SendTCPRequest
<1>3. sock'[h] = [s EXCEPT !.tcpq = Append(@, r.type)]
  BY <1>2 DEF TypeOK
<1> QED
  BY <1>2, <1>3 DEF TypeOK, Socket

LEMMA SockCall ==
  ASSUME TypeOK, CallInv, NEW h \in Host, SockStep(h) \/ AppStep(h)
  PROVE  CallInv'
<1>0. UNCHANGED tcb
  BY DEF SockStep, AppStep, HandleTCPWrite, HandleTCPStatus, AppOpen, AppWrite, AppRead,
         AppClose, tcpVars
<1> DEFINE st == sock[h].status
           q  == sock[h].tcpq
           tt == toTcp[h]
           ts == toSock[h]
<1>1. /\ st \in Status /\ q \in Seq(RequestType) /\ tt \in Seq(Request)
      /\ ts \in Seq(Response)
  BY CallTypes
<1>2. /\ \A k \in Host \ {h} : /\ sock'[k] = sock[k] /\ toTcp'[k] = toTcp[k]
                               /\ toSock'[k] = toSock[k]
  BY DEF SockStep, AppStep, HandleTCPWrite, HandleTCPStatus, AppOpen, AppWrite, AppRead,
         AppClose, SendTCPRequest, TypeOK
<1>3. ASSUME (Fresh(h) \/ Begun(h))'
      PROVE  CallInv'
  BY <1>0, <1>2, <1>3, CallElsewhere DEF CallInv
<1>4. Fresh(h) \/ Begun(h)
  BY DEF CallInv
<1>f. Fresh(h) => ts = <<>> /\ st \in {"FREE", "OPEN_PENDING"}
  BY DEF Fresh, NotOpened
<1>5. CASE HandleTCPWrite(h)
  <2> DEFINE n == IF st = "CLOSED" THEN 0 ELSE Len(Head(ts).data)
             r == Req("STATUS", <<>>, n)
  <2>1. ts # <<>> /\ Head(ts).type = "WRITE" /\ Head(ts).data \in Seq(Nat)
    <3>1. ts # <<>> /\ Head(ts).type = "WRITE"
      BY <1>5 DEF HandleTCPWrite
    <3>2. Head(ts) \in Response
      BY <1>1, <3>1
    <3> QED
      BY <3>1, <3>2 DEF Response
  <2>2. r \in Request /\ r.type = "STATUS"
    BY <2>1 DEF Req, Request
  <2>3. /\ sock'[h].status = IF st \in EndedByWrite THEN "CONNECTED" ELSE st
        /\ sock'[h].tcpq = q /\ toTcp'[h] = Append(tt, r) /\ toSock'[h] = Tail(ts)
    BY <1>5 DEF HandleTCPWrite, SendTCPRequest, TypeOK, Socket, Req
  <2>4. Begun(h)
    BY <1>4, <1>f, <2>1
  <2> HIDE DEF r, st, q, tt, ts
  <2>5. Begun(h)'
    BY <1>1, <2>1, <2>2, <2>3, <2>4, CallFed DEF Begun, st, q, tt, ts
  <2> QED
    BY <1>3, <2>5
<1>6. CASE HandleTCPStatus(h)
  <2>1. ts # <<>> /\ Head(ts).type = "STATUS" /\ q # <<>>
    BY <1>6 DEF HandleTCPStatus
  <2>2. /\ sock'[h].status = IF Head(q) = "WRITE" THEN "CONNECTED" ELSE st
        /\ sock'[h].tcpq = Tail(q) /\ toTcp'[h] = tt /\ toSock'[h] = Tail(ts)
    BY <1>6 DEF HandleTCPStatus, TypeOK, Socket
  <2>3. Begun(h)
    BY <1>4, <1>f, <2>1
  <2> HIDE DEF st, q, tt, ts
  <2>4. Begun(h)'
    BY <1>1, <2>1, <2>2, <2>3, CallAnswered DEF Begun, st, q, tt, ts
  <2> QED
    BY <1>3, <2>4
<1>7. CASE AppOpen(h)
  <2>1. Fresh(h) /\ st = "FREE"
    BY <1>4, <1>7 DEF AppOpen, Begun, CallRight
  <2>2. q = <<>> /\ tt = <<>> /\ ts = <<>>
    BY <2>1 DEF Fresh, NotOpened
  <2>3. PICK ty \in OpenAs[h] :
          SendTCPRequest(h, Req(ty, <<>>, 0), [sock[h] EXCEPT !.status = "OPEN_PENDING"])
    BY <1>7 DEF AppOpen
  <2>4. ty \in Opens
    BY OpenAssumption DEF Opens
  <2>5. /\ sock'[h].status = "OPEN_PENDING" /\ sock'[h].tcpq = <<ty>>
        /\ toTcp'[h] = <<Req(ty, <<>>, 0)>> /\ toSock'[h] = <<>>
    <3>1. /\ Req(ty, <<>>, 0) \in Request /\ Req(ty, <<>>, 0).type = ty
          /\ ty \in RequestType
      BY <2>4 DEF Req, Request, RequestType, Opens
    <3> DEFINE z == [sock[h] EXCEPT !.status = "OPEN_PENDING"]
               r == Req(ty, <<>>, 0)
    <3>2. z \in Socket /\ z.tcpq = q /\ z.status = "OPEN_PENDING"
      BY DEF TypeOK, Socket, Status
    <3>3. SendTCPRequest(h, r, z) /\ r \in Request /\ r.type = ty
      BY <2>3, <3>1
    <3> HIDE DEF z, r
    <3>4. /\ sock'[h].status = "OPEN_PENDING" /\ sock'[h].tcpq = Append(<<>>, ty)
          /\ toTcp'[h] = Append(<<>>, r)
      BY <2>2, <3>1, <3>2, <3>3, Recorded
    <3>5. toSock' = toSock
      BY <1>7 DEF AppOpen
    <3> QED
      BY <2>2, <3>4, <3>5 DEF r
  <2>6. Fresh(h)'
    BY <1>0, <2>1, <2>4, <2>5 DEF Fresh, NotOpened
  <2> QED
    BY <1>3, <2>6
<1>8. CASE AppWrite(h) \/ AppRead(h) \/ AppClose(h)
  <2>1. st = "CONNECTED" /\ Begun(h)
    BY <1>4, <1>8, <1>f DEF AppWrite, AppRead, AppClose
  <2>2. q = <<>> /\ NoneOf(tt, Opens) /\ Quiet(tt, ts)
    BY <2>1 DEF Begun, CallRight
  <2>3. CASE AppRead(h)
    <3>1. /\ sock'[h].status = "READ_PENDING" /\ sock'[h].tcpq = q
          /\ toTcp'[h] = tt /\ toSock'[h] = ts
      BY <2>3 DEF AppRead, TypeOK, Socket
    <3>2. Begun(h)'
      BY <2>2, <3>1 DEF Begun, CallRight
    <3> QED
      BY <1>3, <3>2
  <2>4. CASE AppWrite(h)
    <3>1. PICK n \in WriteSizes[h] :
            SendTCPRequest(h, Req("WRITE", [i \in 1..n |-> app[h].wrote + i], 0),
                           [sock[h] EXCEPT !.status = "WRITE_PENDING"])
      BY <2>4 DEF AppWrite
    <3> DEFINE r == Req("WRITE", [i \in 1..n |-> app[h].wrote + i], 0)
    <3>2. r \in Request /\ r.type = "WRITE"
      <4>1. app[h].wrote \in Nat /\ n \in Nat
        BY WriteAssumption DEF TypeOK
      <4>2. [i \in 1..n |-> app[h].wrote + i] \in Seq(Nat)
        BY <4>1
      <4> QED
        BY <4>2 DEF Req, Request, RequestType
    <3>3. SendTCPRequest(h, r, [sock[h] EXCEPT !.status = "WRITE_PENDING"])
      BY <3>1
    <3> HIDE DEF r
    <3>4. /\ sock'[h].status = "WRITE_PENDING" /\ sock'[h].tcpq = <<"WRITE">>
          /\ toTcp'[h] = Append(tt, r) /\ toSock'[h] = ts
      <4> DEFINE z == [sock[h] EXCEPT !.status = "WRITE_PENDING"]
      <4>1. z \in Socket /\ z.tcpq = q /\ z.status = "WRITE_PENDING"
        BY DEF TypeOK, Socket, Status
      <4>2. r.type \in RequestType /\ toSock' = toSock
        BY <2>4, <3>2 DEF RequestType, AppWrite
      <4> HIDE DEF z
      <4>3. SendTCPRequest(h, r, z)
        BY <3>3 DEF z
      <4>4. /\ sock'[h].status = "WRITE_PENDING" /\ sock'[h].tcpq = Append(<<>>, "WRITE")
            /\ toTcp'[h] = Append(tt, r)
        BY <2>2, <3>2, <4>1, <4>2, <4>3, Recorded
      <4> QED
        BY <4>2, <4>4
    <3>5. NoneOf(Append(tt, r), Opens) /\ OneOf(Append(tt, r), RequestType)
      <4>1. r.type \notin Opens /\ r.type \in RequestType
        BY <3>2 DEF Opens, RequestType
      <4>2. NoneOf(Append(tt, r), Opens)
        BY <1>1, <2>2, <3>2, <4>1, NoneFacts
      <4>3. OneOf(Append(tt, r), RequestType)
        BY <1>1, <2>2, <3>2, <4>1, OneFacts DEF Quiet
      <4> QED
        BY <4>2, <4>3
    <3>6. Begun(h)'
      BY <2>2, <3>4, <3>5 DEF Begun, CallRight, Quiet
    <3> QED
      BY <1>3, <3>6
  <2>5. CASE AppClose(h)
    <3> DEFINE r == Req("CLOSE", <<>>, 0)
    <3>2. r \in Request /\ r.type = "CLOSE"
      BY DEF Req, Request, RequestType
    <3>3. SendTCPRequest(h, r, [sock[h] EXCEPT !.status = "CLOSED", !.bin = <<>>])
      BY <2>5 DEF AppClose
    <3> HIDE DEF r
    <3>4. /\ sock'[h].status = "CLOSED" /\ sock'[h].tcpq = <<"CLOSE">>
          /\ toTcp'[h] = Append(tt, r)
      <4> DEFINE z == [sock[h] EXCEPT !.status = "CLOSED", !.bin = <<>>]
      <4>1. z \in Socket /\ z.tcpq = q /\ z.status = "CLOSED"
        <5>1. <<>> \in Seq(Nat) /\ sock[h] \in Socket /\ "CLOSED" \in Status
          BY DEF TypeOK, Status
        <5>2. \A b \in Seq(Nat), x \in Status :
                [sock[h] EXCEPT !.status = x, !.bin = b] \in Socket
          BY <5>1 DEF Socket
        <5> QED
          BY <5>1, <5>2 DEF Socket
      <4>2. r.type \in RequestType
        BY <3>2 DEF RequestType
      <4> HIDE DEF z
      <4>3. SendTCPRequest(h, r, z)
        BY <3>3 DEF z
      <4>4. /\ sock'[h].status = "CLOSED" /\ sock'[h].tcpq = Append(<<>>, "CLOSE")
            /\ toTcp'[h] = Append(tt, r)
        BY <2>2, <3>2, <4>1, <4>2, <4>3, Recorded
      <4> QED
        BY <4>4
    <3>5. NoneOf(Append(tt, r), Opens)
      <4>1. r.type \notin Opens
        BY <3>2 DEF Opens
      <4> QED
        BY <1>1, <2>2, <3>2, <4>1, NoneFacts
    <3>6. Begun(h)'
      BY <3>4, <3>5 DEF Begun, CallRight
    <3> QED
      BY <1>3, <3>6
  <2> QED
    BY <1>8, <2>3, <2>4, <2>5
<1> QED
  BY <1>5, <1>6, <1>7, <1>8 DEF SockStep, AppStep

-----------------------------------------------------------------------------
(* The window and the timer.  If the room of a send loop has wrapped around*)
(* the loop starts with more under way than the send buffer holds, and the *)
(* first Extract throws; otherwise room and what is under way fit into the *)
(* window, from one iteration to the next.                                 *)
SentRight(t, isn) ==
  /\ t.state # "ESTABLISHED" => t.room = 0
  /\ t.lastAcked >= isn
  /\ t.state = "LISTEN" => t.lastSent = isn /\ t.tmr
  /\ t.state \in {"SYN_SENT", "SYN_RCVD"} => t.lastSent = isn + 1 /\ t.tmr
  /\ t.state = "ESTABLISHED" =>
       /\ t.tmr \/ t.lastAcked = t.lastSent
       /\ Unacked(t) <= Window
       /\ t.room > 0 =>
            Unacked(t) > Len(t.sendBuf) \/ t.room + Unacked(t) <= Window

SendInv == \A h \in Host : SentRight(tcb[h], ISN[h])

LEMMA Remainder ==
  ASSUME NEW x \in Nat, NEW w \in Nat \ {0}
  PROVE  x % w \in Nat /\ x % w <= x
OBVIOUS

\* The room that the loop computes.
LEMMA RoomFits ==
  ASSUME NEW t, t.sendBuf \in Seq(Nat),
         Unacked(t) \in Nat, Unacked(t) <= Window, SendRoom(t) > 0
  PROVE  Unacked(t) > Len(t.sendBuf) \/ SendRoom(t) + Unacked(t) <= Window
<1> DEFINE n == Len(t.sendBuf)
           u == Unacked(t)
           m == MinOf(n, Window)
<1>1. n \in Nat /\ u \in Nat /\ Window \in Nat /\ m \in Nat
  BY WindowAssumption DEF MinOf
<1>2. SendRoom(t) = (m - u) % Width
  BY DEF SendRoom
<1>3. m <= n /\ m <= Window /\ (m = n \/ m = Window)
  BY <1>1 DEF MinOf
<1> HIDE DEF n, u, m
<1>4. CASE u <= m
  <2>1. m - u \in Nat
    BY <1>1, <1>4
  <2>2. SendRoom(t) \in Nat /\ SendRoom(t) <= m - u
    BY <1>2, <2>1, Remainder, WidthAssumption
  <2> QED
    BY <1>1, <1>3, <2>1, <2>2 DEF u
<1>5. CASE u > m
  BY <1>1, <1>3, <1>5 DEF u, n
<1> QED
  BY <1>1, <1>4, <1>5

\* A record that may follow h's has no more acknowledged than sent.
LEMMA UnackedOf ==
  ASSUME AckInv, NEW h \in Host, NEW t \in Record, Counts(h, t)
  PROVE  Unacked(t) \in Nat
<1> DEFINE r == tcb[Peer(h)].lastRecvd
           s == tcb[h].lastSent
<1>1. t.lastSent \in Nat /\ t.lastAcked \in Nat /\ r \in Nat /\ s \in Nat /\ ISN[h] \in Nat
  BY RecordNats, PeerFacts, ISNAssumption DEF AckInv, TypeOK
<1>2. r <= s /\ ISN[h] <= s
  BY DEF AckInv, AckChain, Started
<1>3. t.lastSent >= s /\ t.lastAcked <= MaxOf(ISN[h], r)
  BY DEF Counts
<1> QED
  BY <1>1, <1>2, <1>3 DEF MaxOf, Unacked

\* What postRecv, postSend and a transition leave alone.
LEMMA ReceivedParts ==
  ASSUME NEW t \in Record, NEW p \in Packet, NEW n \in Nat
  PROVE  LET r == PostRecv(t, p, n)
         IN  /\ r \in Record
             /\ r.state = t.state /\ r.lastSent = t.lastSent /\ r.tmr = t.tmr
             /\ r.room = t.room /\ r.sendBuf = t.sendBuf
             /\ r.lastAcked >= t.lastAcked
             /\ r.lastRecvd = IF Accepts(t, p) THEN p.seq + n - 1 ELSE t.lastRecvd
<1> DEFINE r == PostRecv(t, p, n)
<1>1. r \in Record
  BY PostRecvType
<1>2. t.lastAcked \in Nat /\ p.ackno \in Nat
  BY RecordNats, PacketNats
<1>3. /\ r.state = t.state /\ r.lastSent = t.lastSent /\ r.tmr = t.tmr
      /\ r.room = t.room /\ r.sendBuf = t.sendBuf
  BY DEF PostRecv, Record
<1>4. r.lastRecvd = IF Accepts(t, p) THEN p.seq + n - 1 ELSE t.lastRecvd
  BY DEF PostRecv, Record
<1>5. r.lastAcked = IF p.ackno > t.lastAcked + 1 THEN p.ackno - 1 ELSE t.lastAcked
  BY DEF PostRecv, Record
<1> HIDE DEF r
<1>6. r.lastAcked >= t.lastAcked
  BY <1>2, <1>5
<1> QED
  BY <1>1, <1>3, <1>4, <1>6 DEF r

LEMMA SentParts ==
  ASSUME NEW t \in Record, NEW p \in Packet, NEW n \in Nat
  PROVE  LET r == PostSend(t, p, n)
         IN  /\ r \in Record
             /\ r.state = t.state /\ r.lastAcked = t.lastAcked /\ r.tmr = t.tmr
             /\ r.room = t.room /\ r.sendBuf = t.sendBuf /\ r.lastRecvd = t.lastRecvd
             /\ r.lastSent = MaxOf(t.lastSent, p.seq + n - 1)
<1>1. PostSend(t, p, n) \in Record
  BY PostSendType
<1> QED
  BY <1>1 DEF PostSend, Record

LEMMA GotoParts ==
  ASSUME NEW t \in Record, NEW s \in State
  PROVE  LET r == Goto(t, s)
         IN  /\ r \in Record
             /\ r.state = s /\ r.lastAcked = t.lastAcked /\ r.tmr = t.tmr
             /\ r.room = t.room /\ r.sendBuf = t.sendBuf /\ r.lastRecvd = t.lastRecvd
             /\ r.lastSent = t.lastSent
<1>1. Goto(t, s) \in Record
  BY GotoType
<1> QED
  BY <1>1 DEF Goto, Record

\* The numbers of the segments that transitions send.
LEMMA OutParts ==
  ASSUME NEW t \in Record
  PROVE  /\ \A d \in Seq(Nat) :
              /\ Ack(t, d) \in Packet /\ Ack(t, d).seq = t.lastSent + 1
              /\ Ack(t, d).flags = {"ACK"} /\ Ack(t, d).data = d
         /\ Syn(t) \in Packet /\ Syn(t).seq = t.lastSent + 1 /\ Syn(t).flags = {"SYN"}
         /\ SynAck(t) \in Packet /\ SynAck(t).seq = t.lastSent + 1
         /\ SynAck(t).flags = {"SYN", "ACK"}
         /\ Fin(t) \in Packet /\ Fin(t).seq = t.lastSent /\ Fin(t).flags = {"FIN"}
<1>1. \A d \in Seq(Nat) : Ack(t, d) \in Packet
  BY FactoryTypes
<1> QED
  BY <1>1, FactoryTypes DEF Ack, Syn, SynAck, Fin

-----------------------------------------------------------------------------
(* What the two hosts agree on.  A record that has been through the open   *)
(* says so by its last_recvd: nothing else makes it positive.              *)
Leaving   == {"FIN_WAIT1", "FIN_WAIT2", "TIME_WAIT"}
Ended(t)  == t.state = "CLOSED" /\ t.lastRecvd > 0
Opened(t) == t.state \in Synchronized \/ Ended(t)

\* A host with record t and the peer with record u.
Agrees(t, isn, u, isnu) ==
  /\ t.state \in {"LISTEN", "SYN_SENT"} => t.lastRecvd = 0
  /\ t.state = "SYN_RCVD" => u.state = "SYN_SENT" \/ Opened(u)
  /\ t.state = "SYN_RCVD" \/ Opened(t) => t.lastRecvd > isnu
  /\ t.state \in Synchronized =>
       /\ u.lastRecvd > isn
       /\ u.state = "SYN_RCVD" \/ Opened(u)
  /\ t.state \in {"CLOSE_WAIT", "LAST_ACK"} \/ Ended(t) => u.state \in Leaving

\* A segment of the host with record t to the host with record u.
SegAgrees(p, t, isn, u) ==
  /\ p.flags \in {{"SYN"}, {"SYN", "ACK"}, {"ACK"}, {"FIN"}}
  /\ "SYN" \in p.flags => p.seq = isn + 1
  /\ p.flags = {"SYN"} => t.state = "SYN_SENT" \/ Opened(t)
  /\ p.flags = {"SYN", "ACK"} => /\ t.state = "SYN_RCVD" \/ Opened(t)
                                 /\ u.state = "SYN_SENT" \/ Opened(u)
  /\ p.flags = {"ACK"} => Opened(t)
  /\ p.flags = {"FIN"} => t.state \in Leaving \cup {"LAST_ACK"} \/ Ended(t)

AgreeInv ==
  \A h \in Host :
    /\ Agrees(tcb[h], ISN[h], tcb[Peer(h)], ISN[Peer(h)])
    /\ \A i \in DOMAIN net[h] :
         SegAgrees(net[h][i], tcb[Peer(h)], ISN[Peer(h)], tcb[h])

\* A connection goes through its states in one direction, so that what the peer
\* and the segments under way know of it stays true.
Onward(t, r) ==
  /\ r.lastRecvd >= t.lastRecvd
  /\ t.state \in {"SYN_SENT", "SYN_RCVD"} => r.state = t.state \/ Opened(r)
  /\ Opened(t) => Opened(r)
  /\ t.state \in Leaving => r.state \in Leaving
  /\ t.state = "LAST_ACK" \/ Ended(t) => r.state = "LAST_ACK" \/ Ended(r)

LEMMA OnwardKeeps ==
  ASSUME NEW t \in Record, NEW r \in Record, NEW u \in Record,
         NEW isn \in Nat, NEW isnu \in Nat, Onward(t, r)
  PROVE  /\ Agrees(u, isnu, t, isn) => Agrees(u, isnu, r, isn)
         /\ \A p : SegAgrees(p, t, isn, u) => SegAgrees(p, r, isn, u)
         /\ \A p : SegAgrees(p, u, isnu, t) => SegAgrees(p, u, isnu, r)
<1>0. /\ t.lastRecvd \in Nat /\ r.lastRecvd \in Nat /\ u.lastRecvd \in Nat
      /\ r.lastRecvd >= t.lastRecvd
  BY RecordNats DEF Onward
<1>1. t.lastRecvd > isnu => r.lastRecvd > isnu
  BY <1>0
<1>2. /\ t.state = "SYN_SENT" \/ Opened(t) => r.state = "SYN_SENT" \/ Opened(r)
      /\ t.state = "SYN_RCVD" \/ Opened(t) => r.state = "SYN_RCVD" \/ Opened(r)
      /\ t.state \in Leaving => r.state \in Leaving
      /\ t.state \in Leaving \cup {"LAST_ACK"} \/ Ended(t) =>
           r.state \in Leaving \cup {"LAST_ACK"} \/ Ended(r)
      /\ Opened(t) => Opened(r)
  BY DEF Onward
<1>3. Agrees(u, isnu, t, isn) => Agrees(u, isnu, r, isn)
  BY <1>1, <1>2, Zenon DEF Agrees
<1>4. ASSUME NEW p, SegAgrees(p, t, isn, u)
      PROVE  SegAgrees(p, r, isn, u)
  BY <1>2, <1>4, Zenon DEF SegAgrees
<1>5. ASSUME NEW p, SegAgrees(p, u, isnu, t)
      PROVE  SegAgrees(p, u, isnu, r)
  BY <1>2, <1>5, Zenon DEF SegAgrees
<1> QED
  BY <1>3, <1>4, <1>5

\* The record of h becomes t, and it sends what agrees with t.
LEMMA AgreeKept ==
  ASSUME TypeOK, AgreeInv, NEW h \in Host, NEW t \in Record,
         tcb' = [tcb EXCEPT ![h] = t], Onward(tcb[h], t),
         Agrees(t, ISN[h], tcb[Peer(h)], ISN[Peer(h)]),
         \A k \in Host : \A i \in DOMAIN net'[k] :
           \/ \E j \in DOMAIN net[k] : net'[k][i] = net[k][j]
           \/ k = Peer(h) /\ SegAgrees(net'[k][i], t, ISN[h], tcb[Peer(h)])
  PROVE  AgreeInv'
<1> DEFINE u == tcb[Peer(h)]
           isn == ISN[h]
           isnu == ISN[Peer(h)]
<1>1. /\ tcb'[h] = t /\ tcb'[Peer(h)] = u /\ u \in Record /\ tcb[h] \in Record
      /\ isn \in Nat /\ isnu \in Nat /\ Peer(h) \in Host /\ Peer(Peer(h)) = h
  BY PeerFacts, ISNAssumption DEF TypeOK
<1>2. /\ Agrees(u, isnu, tcb[h], isn)
      /\ \A i \in DOMAIN net[h] : SegAgrees(net[h][i], u, isnu, tcb[h])
      /\ \A i \in DOMAIN net[Peer(h)] : SegAgrees(net[Peer(h)][i], tcb[h], isn, u)
  BY <1>1, Zenon DEF AgreeInv
<1> HIDE DEF u, isn, isnu
<1>3. /\ Agrees(u, isnu, t, isn)
      /\ \A i \in DOMAIN net[h] : SegAgrees(net[h][i], u, isnu, t)
      /\ \A i \in DOMAIN net[Peer(h)] : SegAgrees(net[Peer(h)][i], t, isn, u)
  BY <1>1, <1>2, OnwardKeeps
<1>4. \A i \in DOMAIN net'[h] : SegAgrees(net'[h][i], u, isnu, t)
  BY <1>3, PeerFacts
<1>5. \A i \in DOMAIN net'[Peer(h)] : SegAgrees(net'[Peer(h)][i], t, isn, u)
  BY <1>1, <1>3 DEF u, isn
<1>6. \A k \in Host : k = h \/ k = Peer(h)
  BY DEF Host, Peer
<1>7. Agrees(t, isn, u, isnu)
  BY DEF u, isn, isnu
<1>8. /\ Agrees(tcb'[h], isn, tcb'[Peer(h)], isnu)
      /\ Agrees(tcb'[Peer(h)], isnu, tcb'[h], isn)
      /\ \A i \in DOMAIN net'[h] : SegAgrees(net'[h][i], tcb'[Peer(h)], isnu, tcb'[h])
      /\ \A i \in DOMAIN net'[Peer(h)] :
           SegAgrees(net'[Peer(h)][i], tcb'[h], isn, tcb'[Peer(h)])
  BY <1>1, <1>3, <1>4, <1>5, <1>7
<1> SUFFICES ASSUME NEW k \in Host
             PROVE  /\ Agrees(tcb'[k], ISN[k], tcb'[Peer(k)], ISN[Peer(k)])
                    /\ \A i \in DOMAIN net'[k] :
                         SegAgrees(net'[k][i], tcb'[Peer(k)], ISN[Peer(k)], tcb'[k])
  BY Zenon DEF AgreeInv, Agrees, SegAgrees, Opened, Ended, Peer
<1>9. CASE k = h
  BY <1>8, <1>9 DEF isn, isnu
<1>10. CASE k = Peer(h)
  BY <1>1, <1>8, <1>10 DEF isn, isnu
<1> QED
  BY <1>6, <1>9, <1>10

\* A step of tcp_module of h that makes t its record and sends out.
LEMMA RecordKept ==
  ASSUME TypeOK, SendInv, AgreeInv, NEW h \in Host, NEW t \in Record,
         tcb' = [tcb EXCEPT ![h] = t],
         SentRight(t, ISN[h]), Onward(tcb[h], t),
         Agrees(t, ISN[h], tcb[Peer(h)], ISN[Peer(h)]),
         NEW out \in Seq(Packet),
         \A i \in DOMAIN out : SegAgrees(out[i], t, ISN[h], tcb[Peer(h)]),
         \/ net[h] # <<>> /\ net' = [net EXCEPT ![h] = Tail(@), ![Peer(h)] = @ \o out]
         \/ net' = [net EXCEPT ![Peer(h)] = @ \o out]
  PROVE  SendInv' /\ AgreeInv'
<1>1. net \in [Host -> Seq(Packet)] /\ tcb \in [Host -> Record]
  BY DEF TypeOK
<1>2. SendInv'
  BY <1>1 DEF SendInv, SentRight, Unacked
<1>3. ASSUME NEW k \in Host, NEW i \in DOMAIN net'[k]
      PROVE  \/ \E j \in DOMAIN net[k] : net'[k][i] = net[k][j]
             \/ k = Peer(h) /\ SegAgrees(net'[k][i], t, ISN[h], tcb[Peer(h)])
  <2>1. CASE k = h
    <3>1. \/ net'[k] = net[h]
          \/ net[h] # <<>> /\ net'[k] = Tail(net[h])
      BY <1>1, <2>1, PeerFacts
    <3>2. net'[k] = Tail(net[h]) /\ net[h] # <<>> =>
            i + 1 \in DOMAIN net[h] /\ net'[k][i] = net[h][i + 1]
      BY <1>1
    <3> QED
      BY <2>1, <3>1, <3>2
  <2>2. CASE k = Peer(h)
    <3>1. net'[k] = net[k] \o out
      BY <1>1, <2>2, PeerFacts
    <3>2. \/ i \in DOMAIN net[k] /\ net'[k][i] = net[k][i]
          \/ i - Len(net[k]) \in DOMAIN out
             /\ net'[k][i] = out[i - Len(net[k])]
      BY <1>1, <3>1
    <3> QED
      BY <2>2, <3>2
  <2> QED
    BY <2>1, <2>2 DEF Peer, Host
<1> QED
  BY <1>2, <1>3, AgreeKept

LEMMA OutAgrees ==
  ASSUME NEW t, NEW isn, NEW u, NEW p, SegAgrees(p, t, isn, u)
  PROVE  /\ \A i \in DOMAIN <<p>> : SegAgrees(<<p>>[i], t, isn, u)
         /\ \A i \in DOMAIN <<p, p>> : SegAgrees(<<p, p>>[i], t, isn, u)
OBVIOUS

\* What each branch of the switch says of the state, and of the segment.
LEMMA PacketGuards ==
  ASSUME NEW s, NEW f
  PROVE  /\ OnPacket(s, f) = "SynRcvd" => s = "LISTEN" /\ "SYN" \in f
         /\ OnPacket(s, f) = "SynSentEstablished" =>
              s = "SYN_SENT" /\ "SYN" \in f /\ "ACK" \in f
         /\ OnPacket(s, f) = "SynRcvdEstablished" => s = "SYN_RCVD" /\ "ACK" \in f
         /\ OnPacket(s, f) = "CloseWait" => s = "ESTABLISHED" /\ "FIN" \in f
         /\ OnPacket(s, f) = "Loop" => s = "ESTABLISHED" /\ f = {"ACK"}
         /\ OnPacket(s, f) = "FinWait2" => s = "FIN_WAIT1"
         /\ OnPacket(s, f) = "TimeWait" => s = "FIN_WAIT2" /\ "FIN" \in f
         /\ OnPacket(s, f) = "Closed" => s = "LAST_ACK"
BY DEF OnPacket, IsSyn, IsAck, IsFin, IsSynAck

LEMMA RequestGuards ==
  ASSUME NEW s, NEW ty
  PROVE  /\ OnRequest(s, ty) = "SynSent" => s = "CLOSED" /\ ty = "CONNECT"
         /\ OnRequest(s, ty) = "Listen" => s = "CLOSED" /\ ty = "ACCEPT"
         /\ OnRequest(s, ty) = "FinWait1" => s = "ESTABLISHED"
         /\ OnRequest(s, ty) = "LoopWrite" => s = "ESTABLISHED"
         /\ OnRequest(s, ty) = "LoopStatus" => s = "ESTABLISHED"
         /\ OnRequest(s, ty) = "LastAck" => s = "CLOSE_WAIT"
BY DEF OnRequest

\* The host, its peer and the next segment, as a step of tcp_module finds them.
LEMMA Finds ==
  ASSUME AckInv, SendInv, AgreeInv, NEW h \in Host
  PROVE  /\ TypeOK /\ tcb[h] \in Record /\ tcb[Peer(h)] \in Record
         /\ ISN[h] \in Nat \ {0} /\ ISN[Peer(h)] \in Nat \ {0}
         /\ SentRight(tcb[h], ISN[h])
         /\ Agrees(tcb[h], ISN[h], tcb[Peer(h)], ISN[Peer(h)])
         /\ Agrees(tcb[Peer(h)], ISN[Peer(h)], tcb[h], ISN[h])
         /\ net[h] # <<>> => /\ Head(net[h]) \in Packet
                             /\ SegAgrees(Head(net[h]), tcb[Peer(h)], ISN[Peer(h)], tcb[h])
<1>1. /\ TypeOK /\ tcb[h] \in Record /\ tcb[Peer(h)] \in Record
      /\ ISN[h] \in Nat \ {0} /\ ISN[Peer(h)] \in Nat \ {0}
      /\ Peer(h) \in Host /\ Peer(Peer(h)) = h /\ net[h] \in Seq(Packet)
  BY PeerFacts, ISNAssumption DEF AckInv, TypeOK
<1>2. SentRight(tcb[h], ISN[h])
  BY DEF SendInv
<1>3. /\ Agrees(tcb[h], ISN[h], tcb[Peer(h)], ISN[Peer(h)])
      /\ Agrees(tcb[Peer(h)], ISN[Peer(h)], tcb[h], ISN[h])
  BY <1>1, Zenon DEF AgreeInv
<1>4. net[h] # <<>> => /\ Head(net[h]) \in Packet /\ 1 \in DOMAIN net[h]
                       /\ Head(net[h]) = net[h][1]
  BY <1>1
<1>5. net[h] # <<>> => SegAgrees(Head(net[h]), tcb[Peer(h)], ISN[Peer(h)], tcb[h])
  BY <1>4, Zenon DEF AgreeInv
<1> QED
  BY <1>1, <1>2, <1>3, <1>4, <1>5

\* Taking an event without a change to the record.
LEMMA IgnoreAgrees ==
  ASSUME AckInv, SendInv, AgreeInv, NEW h \in Host,
         tcb' = tcb,
         \/ net[h] # <<>> /\ net' = [net EXCEPT ![h] = Tail(@), ![Peer(h)] = @ \o <<>>]
         \/ net' = [net EXCEPT ![Peer(h)] = @ \o <<>>]
  PROVE  SendInv' /\ AgreeInv'
<1>1. /\ TypeOK /\ tcb[h] \in Record /\ tcb' = [tcb EXCEPT ![h] = tcb[h]]
      /\ SentRight(tcb[h], ISN[h])
      /\ Agrees(tcb[h], ISN[h], tcb[Peer(h)], ISN[Peer(h)])
  BY Finds DEF TypeOK
<1>2. tcb[h].lastRecvd \in Nat
  BY <1>1, RecordNats
<1>3. Onward(tcb[h], tcb[h])
  BY <1>2 DEF Onward
<1>4. <<>> \in Seq(Packet)
  OBVIOUS
<1>5. \A i \in DOMAIN <<>> : SegAgrees(<<>>[i], tcb[h], ISN[h], tcb[Peer(h)])
  OBVIOUS
<1> DEFINE t == tcb[h]
           out == <<>>
<1>6. /\ t \in Record /\ tcb' = [tcb EXCEPT ![h] = t] /\ SentRight(t, ISN[h])
      /\ Agrees(t, ISN[h], tcb[Peer(h)], ISN[Peer(h)]) /\ Onward(tcb[h], t)
      /\ out \in Seq(Packet)
      /\ \A i \in DOMAIN out : SegAgrees(out[i], t, ISN[h], tcb[Peer(h)])
  BY <1>1, <1>3, <1>4, <1>5
<1>7. \/ net[h] # <<>> /\ net' = [net EXCEPT ![h] = Tail(@), ![Peer(h)] = @ \o out]
      \/ net' = [net EXCEPT ![Peer(h)] = @ \o out]
  OBVIOUS
<1> HIDE DEF t, out
<1> QED
  BY <1>1, <1>6, <1>7, RecordKept

\* The open of this host: its record is fresh, whatever the peer is doing.
LEMMA OpenAgrees ==
  ASSUME AckInv, CallInv, SendInv, AgreeInv, NEW h \in Host,
         closedToListen(h) \/ closedToSynSent(h)
  PROVE  SendInv' /\ AgreeInv'
<1> DEFINE u == tcb[Peer(h)]
           isn == ISN[h]
           isnu == ISN[Peer(h)]
           r == ClosedRecord(isn)
<1>0. /\ TypeOK /\ isn \in Nat \ {0} /\ isnu \in Nat \ {0} /\ u \in Record
      /\ tcb[h] \in Record
  BY Finds
<1>1. tcb[h] = r
  <2>1. toTcp[h] # <<>> /\ Head(toTcp[h]).type \in Opens /\ toTcp[h] \in Seq(Request)
    BY <1>0, RequestGuards DEF closedToListen, closedToSynSent, FromSock, Opens, TypeOK
  <2>2. ~ NoneOf(toTcp[h], Opens)
    BY <2>1, NoneFacts
  <2> QED
    BY <2>2 DEF CallInv, Fresh, Begun, CallRight
<1>2. /\ r \in Record /\ r.state = "CLOSED" /\ r.lastSent = isn /\ r.lastAcked = isn
      /\ r.lastRecvd = 0 /\ r.tmr /\ r.room = 0
  BY <1>0, <1>1 DEF ClosedRecord
<1> HIDE DEF r, u, isn, isnu
<1>3. ASSUME NEW t \in Record, t.state \in {"LISTEN", "SYN_SENT"}, t.lastRecvd = 0
      PROVE  Onward(r, t) /\ Agrees(t, isn, u, isnu)
  BY <1>2, <1>3 DEF Onward, Agrees, Opened, Ended, Synchronized, Leaving
<1>4. CASE closedToListen(h)
  <2> DEFINE t == Goto(r, "LISTEN")
             out == <<>>
  <2>1. /\ tcb' = [tcb EXCEPT ![h] = t]
        /\ net' = [net EXCEPT ![Peer(h)] = @ \o out]
    BY <1>1, <1>4 DEF closedToListen, TakeRequest
  <2>2. /\ t \in Record /\ t.state = "LISTEN" /\ t.lastRecvd = 0 /\ t.lastSent = isn
        /\ t.lastAcked = isn /\ t.tmr /\ t.room = 0
    BY <1>2, GotoParts DEF State
  <2>3. out \in Seq(Packet) /\ \A i \in DOMAIN out : SegAgrees(out[i], t, isn, u)
    OBVIOUS
  <2> HIDE DEF t, out
  <2>4. SentRight(t, isn)
    BY <1>0, <2>2 DEF SentRight
  <2>5. Onward(tcb[h], t) /\ Agrees(t, isn, u, isnu)
    BY <1>1, <1>3, <2>2
  <2> QED
    BY <1>0, <2>1, <2>2, <2>3, <2>4, <2>5, RecordKept DEF isn, isnu, u
<1>5. CASE closedToSynSent(h)
  <2> DEFINE p == Syn(r)
             v == PostSend(r, p, 1)
             t == Goto(v, "SYN_SENT")
             out == <<p, p>>
  <2>1. /\ tcb' = [tcb EXCEPT ![h] = t]
        /\ net' = [net EXCEPT ![Peer(h)] = @ \o out]
    BY <1>1, <1>5 DEF closedToSynSent, TakeRequest
  <2>2. p \in Packet /\ p.seq = isn + 1 /\ p.flags = {"SYN"}
    BY <1>2, OutParts
  <2> HIDE DEF p
  <2>3. /\ v \in Record /\ v.lastRecvd = 0 /\ v.lastAcked = isn /\ v.tmr /\ v.room = 0
        /\ v.lastSent = MaxOf(isn, isn + 1 + 1 - 1)
    BY <1>2, <2>2, SentParts
  <2>4. v.lastSent = isn + 1
    BY <1>0, <2>3 DEF MaxOf
  <2> HIDE DEF v
  <2>5. /\ t \in Record /\ t.state = "SYN_SENT" /\ t.lastRecvd = 0 /\ t.lastSent = isn + 1
        /\ t.lastAcked = isn /\ t.tmr /\ t.room = 0
    BY <2>3, <2>4, GotoParts DEF State
  <2> HIDE DEF t
  <2>6. SegAgrees(p, t, isn, u)
    BY <2>2, <2>5 DEF SegAgrees
  <2>7. out \in Seq(Packet) /\ \A i \in DOMAIN out : SegAgrees(out[i], t, isn, u)
    BY <2>2, <2>6, OutTypes, OutAgrees
  <2> HIDE DEF out
  <2>8. SentRight(t, isn)
    BY <1>0, <2>5 DEF SentRight
  <2>9. Onward(tcb[h], t) /\ Agrees(t, isn, u, isnu)
    BY <1>1, <1>3, <2>5
  <2> QED
    BY <1>0, <2>1, <2>5, <2>7, <2>8, <2>9, RecordKept DEF isn, isnu, u
<1> QED
  BY <1>4, <1>5

\* A SYN opens only against a peer that is opening too, and brings its number.
LEMMA ListenAgrees ==
  ASSUME AckInv, SendInv, AgreeInv, NEW h \in Host, listenToSynRcvd(h)
  PROVE  SendInv' /\ AgreeInv'
<1> DEFINE u == tcb[Peer(h)]
           isn == ISN[h]
           isnu == ISN[Peer(h)]
           c == tcb[h]
           p == Head(net[h])
           r == PostRecv(c, p, 1)
           a == SynAck(r)
           v == PostSend(r, a, 1)
           t == Goto(v, "SYN_RCVD")
           out == <<a>>
<1>0. /\ TypeOK /\ isn \in Nat \ {0} /\ isnu \in Nat \ {0} /\ u \in Record
      /\ c \in Record /\ SentRight(c, isn) /\ Agrees(c, isn, u, isnu)
  BY Finds
<1>1. net[h] # <<>> /\ OnPacket(c.state, p.flags) = "SynRcvd"
  BY DEF listenToSynRcvd, FromMux
<1>2. p \in Packet /\ SegAgrees(p, u, isnu, c)
  BY <1>1, Finds
<1>3. /\ tcb' = [tcb EXCEPT ![h] = t]
      /\ net' = [net EXCEPT ![h] = Tail(@), ![Peer(h)] = @ \o out]
  BY DEF listenToSynRcvd, TakePacket
<1>4. c.state = "LISTEN" /\ "SYN" \in p.flags
  BY <1>1, PacketGuards
<1> HIDE DEF c, p, u, isn, isnu
<1>5. c.lastRecvd = 0 /\ c.lastSent = isn /\ c.tmr /\ c.room = 0
      /\ c.lastAcked \in Nat /\ c.lastAcked >= isn
  BY <1>0, <1>4, RecordNats DEF Agrees, SentRight
<1>6. p.flags = {"SYN"} /\ p.seq = isnu + 1 /\ (u.state = "SYN_SENT" \/ Opened(u))
  BY <1>2, <1>4 DEF SegAgrees, Opened, Ended, Synchronized
<1>7. /\ r \in Record /\ r.lastSent = isn /\ r.tmr /\ r.room = 0
      /\ r.lastAcked >= isn /\ r.lastRecvd = isnu + 1
  <2>1. /\ r \in Record /\ r.lastSent = c.lastSent /\ r.tmr = c.tmr /\ r.room = c.room
        /\ r.lastAcked >= c.lastAcked
        /\ r.lastRecvd = IF Accepts(c, p) THEN p.seq + 1 - 1 ELSE c.lastRecvd
    <3>1. 1 \in Nat
      OBVIOUS
    <3> QED
      BY <1>0, <1>2, <3>1, ReceivedParts, Zenon
  <2>2. Accepts(c, p)
    BY <1>5 DEF Accepts
  <2>3. r.lastAcked \in Nat
    BY <2>1, RecordNats
  <2> HIDE DEF r
  <2>4. r.lastAcked >= isn
    BY <1>0, <1>5, <2>1, <2>3
  <2>5. r.lastRecvd = isnu + 1
    BY <1>0, <1>6, <2>1, <2>2
  <2> QED
    BY <1>5, <2>1, <2>4, <2>5
<1> HIDE DEF r
<1>8. a \in Packet /\ a.seq = isn + 1 /\ a.flags = {"SYN", "ACK"}
  BY <1>7, OutParts
<1> HIDE DEF a
<1>9. /\ v \in Record /\ v.tmr /\ v.room = 0 /\ v.lastAcked >= isn
      /\ v.lastRecvd = isnu + 1 /\ v.lastSent = isn + 1
  <2>1. /\ v \in Record /\ v.tmr = r.tmr /\ v.room = r.room
        /\ v.lastAcked = r.lastAcked /\ v.lastRecvd = r.lastRecvd
        /\ v.lastSent = MaxOf(r.lastSent, a.seq + 1 - 1)
    BY <1>7, <1>8, SentParts, ZenonT(60)
  <2> HIDE DEF v
  <2>2. v.lastSent = isn + 1
    BY <1>0, <1>7, <1>8, <2>1 DEF MaxOf
  <2> QED
    BY <1>7, <2>1, <2>2
<1> HIDE DEF v
<1>10. /\ t \in Record /\ t.state = "SYN_RCVD" /\ t.tmr /\ t.room = 0
       /\ t.lastAcked >= isn /\ t.lastRecvd = isnu + 1 /\ t.lastSent = isn + 1
  BY <1>9, GotoParts DEF State
<1> HIDE DEF t
<1>11. SentRight(t, isn)
  BY <1>10 DEF SentRight
<1>12. Onward(c, t)
  BY <1>0, <1>4, <1>5, <1>10 DEF Onward, Opened, Ended, Synchronized, Leaving
<1>13. Agrees(t, isn, u, isnu)
  BY <1>0, <1>6, <1>10 DEF Agrees, Opened, Ended, Synchronized
<1>14. SegAgrees(a, t, isn, u)
  BY <1>6, <1>8, <1>10 DEF SegAgrees
<1>15. out \in Seq(Packet) /\ \A i \in DOMAIN out : SegAgrees(out[i], t, isn, u)
  BY <1>8, <1>14, OutTypes, OutAgrees
<1> HIDE DEF out
<1> QED
  BY <1>0, <1>1, <1>3, <1>10, <1>11, <1>12, <1>13, <1>15, RecordKept DEF c, u, isn, isnu

\* A record that comes to ESTABLISHED from a handshake with nothing to send.
LEMMA EstablishedRight ==
  ASSUME NEW t \in Record, NEW isn \in Nat, t.state = "ESTABLISHED", t.room = 0, t.tmr,
         t.lastSent = isn + 1, t.lastAcked >= isn
  PROVE  SentRight(t, isn)
<1>1. t.lastAcked \in Nat /\ Window \in Nat /\ Window >= 1
  BY RecordNats, WindowAssumption
<1>2. Unacked(t) <= Window
  BY <1>1 DEF Unacked
<1> QED
  BY <1>2 DEF SentRight

\* An ACK completes the open only if it is of a peer that is through with its own.
LEMMA AcceptedAgrees ==
  ASSUME AckInv, SendInv, AgreeInv, NEW h \in Host, synRcvdToEstablished(h)
  PROVE  SendInv' /\ AgreeInv'
<1> DEFINE u == tcb[Peer(h)]
           isn == ISN[h]
           isnu == ISN[Peer(h)]
           c == tcb[h]
           p == Head(net[h])
           n == SegLen(p)
           r == PostRecv(c, p, n)
           t == Goto(r, "ESTABLISHED")
           out == <<>>
<1>0. /\ TypeOK /\ isn \in Nat \ {0} /\ isnu \in Nat \ {0} /\ u \in Record
      /\ c \in Record /\ SentRight(c, isn) /\ Agrees(c, isn, u, isnu)
      /\ Agrees(u, isnu, c, isn)
  BY Finds
<1>1. net[h] # <<>> /\ OnPacket(c.state, p.flags) = "SynRcvdEstablished"
  BY DEF synRcvdToEstablished, FromMux
<1>2. p \in Packet /\ SegAgrees(p, u, isnu, c) /\ n \in Nat
  BY <1>1, Finds, SegmentLengths
<1>3. /\ tcb' = [tcb EXCEPT ![h] = t]
      /\ net' = [net EXCEPT ![h] = Tail(@), ![Peer(h)] = @ \o out]
  BY DEF synRcvdToEstablished, TakePacket
<1>4. c.state = "SYN_RCVD" /\ "ACK" \in p.flags
  BY <1>1, PacketGuards
<1>a. r \in Record /\ Counts(h, r)
  <2>1. n <= SegLen(p)
    BY <1>2
  <2> HIDE DEF n
  <2> QED
    BY <1>1, <1>2, <2>1, ReceivedIsBacked DEF p, c
<1>b. r.lastRecvd >= c.lastRecvd
  BY <1>a DEF Counts
<1> HIDE DEF c, p, u, isn, isnu, n
<1>5. c.lastSent = isn + 1 /\ c.tmr /\ c.room = 0 /\ c.lastRecvd > isnu
      /\ c.lastAcked \in Nat /\ c.lastAcked >= isn /\ c.lastRecvd \in Nat
  BY <1>0, <1>4, RecordNats DEF Agrees, SentRight
<1>6. Opened(u)
  <2>1. p.flags # {"SYN", "ACK"}
    BY <1>2, <1>4 DEF SegAgrees, Opened, Ended, Synchronized
  <2> QED
    BY <1>2, <1>4, <2>1 DEF SegAgrees
<1>7. u.lastRecvd > isn
  BY <1>0, <1>6 DEF Agrees
<1>8. /\ r.lastSent = isn + 1 /\ r.tmr /\ r.room = 0
      /\ r.lastAcked >= c.lastAcked
  BY <1>0, <1>2, <1>5, ReceivedParts
<1> HIDE DEF r
<1>9. /\ t \in Record /\ t.state = "ESTABLISHED" /\ t.tmr /\ t.room = 0
      /\ t.lastSent = isn + 1 /\ t.lastAcked = r.lastAcked /\ t.lastRecvd = r.lastRecvd
  BY <1>a, <1>8, GotoParts DEF State
<1> HIDE DEF t
<1>10. t.lastAcked >= isn /\ t.lastRecvd > isnu /\ t.lastRecvd >= c.lastRecvd
  <2>1. r.lastAcked \in Nat /\ r.lastRecvd \in Nat
    BY <1>a, RecordNats
  <2> QED
    BY <1>0, <1>5, <1>8, <1>9, <1>b, <2>1
<1>11. SentRight(t, isn)
  BY <1>0, <1>9, <1>10, EstablishedRight
<1>12. Onward(c, t)
  BY <1>4, <1>9, <1>10 DEF Onward, Opened, Ended, Synchronized, Leaving
<1>13. Agrees(t, isn, u, isnu)
  BY <1>6, <1>7, <1>9, <1>10 DEF Agrees, Opened, Ended, Synchronized
<1>14. out \in Seq(Packet) /\ \A i \in DOMAIN out : SegAgrees(out[i], t, isn, u)
  OBVIOUS
<1> HIDE DEF out
<1> QED
  BY <1>0, <1>1, <1>3, <1>9, <1>11, <1>12, <1>13, <1>14, RecordKept DEF c, u, isn, isnu

\* A SYN, ACK opens only with a peer that has this host's number.
LEMMA ConnectedAgrees ==
  ASSUME AckInv, SendInv, AgreeInv, NEW h \in Host, synSentToEstablished(h)
  PROVE  SendInv' /\ AgreeInv'
<1> DEFINE u == tcb[Peer(h)]
           isn == ISN[h]
           isnu == ISN[Peer(h)]
           c == tcb[h]
           p == Head(net[h])
           r == PostRecv(c, p, 1)
           a == Ack(r, <<>>)
           v == PostSend(r, a, 0)
           t == Goto(v, "ESTABLISHED")
           out == <<a>>
<1>0. /\ TypeOK /\ isn \in Nat \ {0} /\ isnu \in Nat \ {0} /\ u \in Record
      /\ c \in Record /\ SentRight(c, isn) /\ Agrees(c, isn, u, isnu)
      /\ Agrees(u, isnu, c, isn)
  BY Finds
<1>1. net[h] # <<>> /\ OnPacket(c.state, p.flags) = "SynSentEstablished"
  BY DEF synSentToEstablished, FromMux
<1>2. p \in Packet /\ SegAgrees(p, u, isnu, c)
  BY <1>1, Finds
<1>3. /\ tcb' = [tcb EXCEPT ![h] = t]
      /\ net' = [net EXCEPT ![h] = Tail(@), ![Peer(h)] = @ \o out]
  BY DEF synSentToEstablished, TakePacket
<1>4. c.state = "SYN_SENT" /\ "SYN" \in p.flags /\ "ACK" \in p.flags
  BY <1>1, PacketGuards
<1> HIDE DEF c, p, u, isn, isnu
<1>5. c.lastRecvd = 0 /\ c.lastSent = isn + 1 /\ c.tmr /\ c.room = 0
      /\ c.lastAcked \in Nat /\ c.lastAcked >= isn
  BY <1>0, <1>4, RecordNats DEF Agrees, SentRight
<1>6. p.flags = {"SYN", "ACK"} /\ p.seq = isnu + 1 /\ (u.state = "SYN_RCVD" \/ Opened(u))
  BY <1>2, <1>4 DEF SegAgrees
<1>7. u.lastRecvd > isn
  BY <1>0, <1>6 DEF Agrees
<1>8. /\ r \in Record /\ r.lastSent = isn + 1 /\ r.tmr /\ r.room = 0
      /\ r.lastAcked >= isn /\ r.lastRecvd = isnu + 1
  <2>1. /\ r \in Record /\ r.lastSent = c.lastSent /\ r.tmr = c.tmr /\ r.room = c.room
        /\ r.lastAcked >= c.lastAcked
        /\ r.lastRecvd = IF Accepts(c, p) THEN p.seq + 1 - 1 ELSE c.lastRecvd
    <3>1. 1 \in Nat
      OBVIOUS
    <3> QED
      BY <1>0, <1>2, <3>1, ReceivedParts, Zenon
  <2>2. Accepts(c, p)
    BY <1>5 DEF Accepts
  <2>3. r.lastAcked \in Nat
    BY <2>1, RecordNats
  <2> HIDE DEF r
  <2>4. r.lastAcked >= isn
    BY <1>0, <1>5, <2>1, <2>3
  <2>5. r.lastRecvd = isnu + 1
    BY <1>0, <1>6, <2>1, <2>2
  <2> QED
    BY <1>5, <2>1, <2>4, <2>5
<1> HIDE DEF r
<1>9. a \in Packet /\ a.seq = isn + 1 + 1 /\ a.flags = {"ACK"}
  <2>1. <<>> \in Seq(Nat)
    OBVIOUS
  <2> QED
    BY <1>8, <2>1, OutParts, ZenonT(60)
<1> HIDE DEF a
<1>10. /\ v \in Record /\ v.tmr = r.tmr /\ v.room = r.room /\ v.lastAcked = r.lastAcked
       /\ v.lastRecvd = r.lastRecvd /\ v.lastSent = MaxOf(r.lastSent, a.seq + 0 - 1)
  <2>1. 0 \in Nat
    OBVIOUS
  <2> QED
    BY <1>8, <1>9, <2>1, SentParts, ZenonT(60)
<1> HIDE DEF v
<1>11. v.lastSent = isn + 1
  BY <1>0, <1>8, <1>9, <1>10 DEF MaxOf
<1>12. /\ t \in Record /\ t.state = "ESTABLISHED" /\ t.tmr /\ t.room = 0
       /\ t.lastAcked >= isn /\ t.lastRecvd = isnu + 1 /\ t.lastSent = isn + 1
  <2>1. /\ t \in Record /\ t.state = "ESTABLISHED" /\ t.tmr = v.tmr /\ t.room = v.room
        /\ t.lastAcked = v.lastAcked /\ t.lastRecvd = v.lastRecvd
        /\ t.lastSent = v.lastSent
    BY <1>10, GotoParts DEF State
  <2> QED
    BY <1>8, <1>10, <1>11, <2>1
<1> HIDE DEF t
<1>13. SentRight(t, isn)
  BY <1>0, <1>12, EstablishedRight
<1>14. Onward(c, t)
  BY <1>0, <1>4, <1>5, <1>12 DEF Onward, Opened, Ended, Synchronized, Leaving
<1>15. Agrees(t, isn, u, isnu)
  BY <1>0, <1>6, <1>7, <1>12 DEF Agrees, Opened, Ended, Synchronized
<1>16. SegAgrees(a, t, isn, u)
  BY <1>9, <1>12 DEF SegAgrees, Opened, Synchronized
<1>17. out \in Seq(Packet) /\ \A i \in DOMAIN out : SegAgrees(out[i], t, isn, u)
  BY <1>9, <1>16, OutTypes, OutAgrees
<1> HIDE DEF out
<1> QED
  BY <1>0, <1>1, <1>3, <1>12, <1>13, <1>14, <1>15, <1>17, RecordKept DEF c, u, isn, isnu

\* What an open record may become.
LEMMA OpenOnward ==
  ASSUME NEW c \in Record, NEW t \in Record, NEW u \in Record,
         NEW isn \in Nat, NEW isnu \in Nat, Agrees(c, isn, u, isnu),
         c.state \in Synchronized, t.state \in Synchronized,
         t.lastRecvd >= c.lastRecvd,
         c.state \in Leaving => t.state \in Leaving,
         c.state = "LAST_ACK" => t.state = "LAST_ACK",
         t.state \in {"CLOSE_WAIT", "LAST_ACK"} => u.state \in Leaving
  PROVE  Onward(c, t) /\ Agrees(t, isn, u, isnu)
<1>1. c.lastRecvd \in Nat /\ t.lastRecvd \in Nat
  BY RecordNats
<1>2. Opened(c) /\ Opened(t) /\ ~Ended(c) /\ ~Ended(t)
  BY DEF Opened, Ended, Synchronized
<1>3. t.lastRecvd > isnu
  BY <1>1, <1>2 DEF Agrees
<1>4. t.state \notin {"LISTEN", "SYN_SENT", "SYN_RCVD"} /\ c.state \notin {"SYN_SENT", "SYN_RCVD"}
  BY DEF Synchronized
<1> QED
  BY <1>2, <1>3, <1>4 DEF Onward, Agrees

\* A record in ESTABLISHED whose room the loop has just computed.
LEMMA LoopRight ==
  ASSUME NEW t \in Record, NEW t2, NEW isn,
         t.state = "ESTABLISHED", t.lastAcked >= isn,
         t.tmr \/ t.lastAcked = t.lastSent,
         Unacked(t) \in Nat, Unacked(t) <= Window,
         t2.sendBuf = t.sendBuf, Unacked(t2) = Unacked(t),
         t.room = SendRoom(t2)
  PROVE  SentRight(t, isn)
<1>1. t.room > 0 => Unacked(t) > Len(t.sendBuf) \/ t.room + Unacked(t) <= Window
  BY RoomFits DEF Record
<1> QED
  BY <1>1 DEF SentRight

\* A segment taken while connected: what it acknowledges shrinks what is under way.
LEMMA LoopPacketAgrees ==
  ASSUME AckInv, TypeOK', SendInv, AgreeInv, NEW h \in Host, establishedLoopPacket(h)
  PROVE  SendInv' /\ AgreeInv'
<1> DEFINE u      == tcb[Peer(h)]
           isn    == ISN[h]
           isnu   == ISN[Peer(h)]
           c      == tcb[h]
           p      == Head(net[h])
           n      == Residue(p)
           t1     == PostRecv(c, p, n)
           accept == p.data # <<>> /\ Accepts(c, p)
           recv   == IF accept THEN c.recvBuf \o p.data ELSE c.recvBuf
           t2     == [t1 EXCEPT
                        !.recvBuf = recv,
                        !.sendBuf = EraseFront(@, t1.lastAcked - c.lastAcked),
                        !.tmr     = t1.lastAcked # t1.lastSent]
           t      == [t2 EXCEPT !.room = SendRoom(t2)]
           out    == IF p.data # <<>> THEN <<Ack(t1, <<>>)>> ELSE <<>>
           msgs   == IF accept /\ c.recvBuf = <<>> THEN <<WriteUp(recv)>> ELSE <<>>
<1>0. /\ TypeOK /\ isn \in Nat \ {0} /\ isnu \in Nat \ {0} /\ u \in Record
      /\ c \in Record /\ SentRight(c, isn) /\ Agrees(c, isn, u, isnu)
  BY Finds
<1>1. net[h] # <<>> /\ OnPacket(c.state, p.flags) = "Loop"
  BY DEF establishedLoopPacket, FromMux
<1>2. p \in Packet
  BY <1>1, Finds
<1>3. /\ tcb' = [tcb EXCEPT ![h] = t]
      /\ net' = [net EXCEPT ![h] = Tail(@), ![Peer(h)] = @ \o out]
  <2>1. tcb' = [tcb EXCEPT ![h] = t] /\ TakePacket(h, out, msgs)
    BY DEF establishedLoopPacket
  <2> HIDE DEF t, out, msgs
  <2> QED
    BY <2>1 DEF TakePacket
<1>4. c.state = "ESTABLISHED" /\ p.flags = {"ACK"}
  BY <1>1, PacketGuards
<1>5. n \in Nat /\ n <= SegLen(p)
  <2>1. SegLen(p) = Len(p.data)
    BY <1>4 DEF SegLen
  <2> QED
    BY <1>2, <2>1, SegmentLengths
<1>6. t1 \in Record /\ Counts(h, t1)
  BY <1>1, <1>5, ReceivedIsBacked
<1>7. t1.lastRecvd >= c.lastRecvd /\ Unacked(t1) \in Nat
  BY <1>6, UnackedOf DEF Counts
<1>8. t \in Record
  <2> HIDE DEF t
  <2> QED
    BY <1>0, <1>3, NewRecord
<1> HIDE DEF c, p, u, isn, isnu, n
<1>9. /\ t1.state = "ESTABLISHED" /\ t1.lastSent = c.lastSent /\ t1.lastAcked >= c.lastAcked
  <2>1. t1.state = c.state /\ t1.lastSent = c.lastSent /\ t1.lastAcked >= c.lastAcked
    BY <1>0, <1>2, <1>5, ReceivedParts, Zenon
  <2> QED
    BY <1>4, <2>1
<1> HIDE DEF t1, accept, recv
<1>10. /\ t2.state = t1.state /\ t2.lastSent = t1.lastSent /\ t2.lastAcked = t1.lastAcked
       /\ t2.lastRecvd = t1.lastRecvd /\ t2.tmr = (t1.lastAcked # t1.lastSent)
       /\ DOMAIN t2 = DOMAIN t1
  BY <1>6 DEF Record
<1> HIDE DEF t2
<1>11. /\ t.state = t2.state /\ t.lastSent = t2.lastSent /\ t.lastAcked = t2.lastAcked
       /\ t.lastRecvd = t2.lastRecvd /\ t.tmr = t2.tmr /\ t.sendBuf = t2.sendBuf
       /\ t.room = SendRoom(t2)
  <2>1. DOMAIN t2 = DOMAIN t1 /\ DOMAIN t1 = DOMAIN t
    BY <1>6, <1>8, <1>10 DEF Record
  <2> QED
    BY <1>6, <1>10, <2>1 DEF Record
<1> HIDE DEF t
<1>12. /\ c.lastAcked \in Nat /\ c.lastSent \in Nat /\ t1.lastAcked \in Nat
       /\ c.lastAcked >= isn /\ Unacked(c) <= Window /\ Window \in Nat
  BY <1>0, <1>4, <1>6, RecordNats, WindowAssumption DEF SentRight
<1>13. SentRight(t, isn)
  <2>1. Unacked(t) = Unacked(t1) /\ Unacked(t2) = Unacked(t1)
    BY <1>10, <1>11 DEF Unacked
  <2>2. Unacked(t1) <= Window /\ t1.lastAcked >= isn
    BY <1>0, <1>9, <1>12 DEF Unacked
  <2>3. t.tmr \/ t.lastAcked = t.lastSent
    BY <1>10, <1>11
  <2>4. t.state = "ESTABLISHED" /\ t.lastAcked >= isn
    BY <1>9, <1>10, <1>11, <2>2
  <2> QED
    BY <1>7, <1>8, <1>11, <2>1, <2>2, <2>3, <2>4, LoopRight
<1>14. Onward(c, t) /\ Agrees(t, isn, u, isnu)
  BY <1>0, <1>4, <1>7, <1>8, <1>9, <1>10, <1>11, OpenOnward DEF Synchronized, Leaving
<1>15. out \in Seq(Packet) /\ \A i \in DOMAIN out : SegAgrees(out[i], t, isn, u)
  <2>1. Ack(t1, <<>>) \in Packet /\ Ack(t1, <<>>).flags = {"ACK"}
    <3>1. <<>> \in Seq(Nat)
      OBVIOUS
    <3> QED
      BY <1>6, <3>1, OutParts, Zenon
  <2>2. SegAgrees(Ack(t1, <<>>), t, isn, u)
    BY <1>9, <1>10, <1>11, <2>1 DEF SegAgrees, Opened, Synchronized
  <2>3. out = <<Ack(t1, <<>>)>> \/ out = <<>>
    OBVIOUS
  <2>4. CASE out = <<Ack(t1, <<>>)>>
    BY <2>1, <2>2, <2>4, OutTypes, OutAgrees
  <2>5. CASE out = <<>>
    BY <2>5
  <2> HIDE DEF out
  <2> QED
    BY <2>3, <2>4, <2>5
<1> HIDE DEF out
<1> QED
  BY <1>0, <1>1, <1>3, <1>8, <1>13, <1>14, <1>15, RecordKept DEF c, u, isn, isnu

\* A WRITE, or the STATUS of one, taken while connected.
LEMMA LoopRequestAgrees ==
  ASSUME AckInv, TypeOK', SendInv, AgreeInv, NEW h \in Host,
         establishedLoopWrite(h) \/ establishedLoopStatus(h)
  PROVE  SendInv' /\ AgreeInv'
<1> DEFINE u    == tcb[Peer(h)]
           isn  == ISN[h]
           isnu == ISN[Peer(h)]
           c    == tcb[h]
           out  == <<>>
<1>0. /\ TypeOK /\ isn \in Nat \ {0} /\ isnu \in Nat \ {0} /\ u \in Record
      /\ c \in Record /\ SentRight(c, isn) /\ Agrees(c, isn, u, isnu)
      /\ Unacked(c) \in Nat
  BY Finds, UnackedIsNat
<1>1. c.state = "ESTABLISHED" /\ c.room = 0
  BY RequestGuards
  DEF establishedLoopWrite, establishedLoopStatus, FromSock, Waiting
<1>2. net' = [net EXCEPT ![Peer(h)] = @ \o out]
  BY DEF establishedLoopWrite, establishedLoopStatus, TakeRequest
<1>3. PICK t \in Record :
        /\ tcb' = [tcb EXCEPT ![h] = t]
        /\ t.state = c.state /\ t.lastSent = c.lastSent /\ t.lastAcked = c.lastAcked
        /\ t.lastRecvd = c.lastRecvd /\ t.tmr = c.tmr
        /\ SentRight(t, isn)
  <2>1. CASE establishedLoopWrite(h)
    <3> DEFINE v == [c EXCEPT !.sendBuf = @ \o Head(toTcp[h]).data]
               t == [v EXCEPT !.room = SendRoom(v)]
    <3>1. tcb' = [tcb EXCEPT ![h] = t]
      BY <2>1 DEF establishedLoopWrite
    <3>2. t \in Record
      <4> HIDE DEF t
      <4> QED
        BY <1>0, <3>1, NewRecord
    <3>3. /\ t.state = c.state /\ t.lastSent = c.lastSent /\ t.lastAcked = c.lastAcked
          /\ t.lastRecvd = c.lastRecvd /\ t.tmr = c.tmr
          /\ t.sendBuf = v.sendBuf /\ t.room = SendRoom(v)
          /\ v.lastSent = c.lastSent /\ v.lastAcked = c.lastAcked
      BY <1>0 DEF Record
    <3> HIDE DEF t, v
    <3>4. Unacked(t) = Unacked(c) /\ Unacked(v) = Unacked(c)
      BY <3>3 DEF Unacked
    <3>5. /\ c.lastAcked >= isn /\ Unacked(c) <= Window
          /\ c.tmr \/ c.lastAcked = c.lastSent
      BY <1>0, <1>1 DEF SentRight
    <3> HIDE DEF c, isn
    <3>6. SentRight(t, isn)
      BY <1>0, <1>1, <3>2, <3>3, <3>4, <3>5, LoopRight
    <3> QED
      BY <3>1, <3>2, <3>3, <3>6 DEF c
  <2>2. CASE establishedLoopStatus(h)
    <3> DEFINE left == EraseFront(tcb[h].recvBuf, Head(toTcp[h]).bytes)
               t    == [c EXCEPT !.recvBuf = left]
    <3>1. tcb' = [tcb EXCEPT ![h] = t]
      BY <1>0, <2>2 DEF establishedLoopStatus, TypeOK
    <3>2. t \in Record
      <4> HIDE DEF t
      <4> QED
        BY <1>0, <3>1, NewRecord
    <3>3. /\ t.state = c.state /\ t.lastSent = c.lastSent /\ t.lastAcked = c.lastAcked
          /\ t.lastRecvd = c.lastRecvd /\ t.tmr = c.tmr
          /\ t.sendBuf = c.sendBuf /\ t.room = c.room
      BY <1>0 DEF Record
    <3> HIDE DEF t, left
    <3>4. SentRight(t, isn)
      BY <1>0, <3>3 DEF SentRight, Unacked
    <3> QED
      BY <3>1, <3>2, <3>3, <3>4
  <2> QED
    BY <2>1, <2>2
<1> HIDE DEF u, c, isn, isnu
<1>4. Onward(c, t) /\ Agrees(t, isn, u, isnu)
  <2>1. t.lastRecvd >= c.lastRecvd
    BY <1>0, <1>3, RecordNats
  <2> QED
    BY <1>0, <1>1, <1>3, <2>1, OpenOnward DEF Synchronized, Leaving
<1>5. out \in Seq(Packet) /\ \A i \in DOMAIN out : SegAgrees(out[i], t, isn, u)
  OBVIOUS
<1> HIDE DEF out
<1> QED
  BY <1>0, <1>2, <1>3, <1>4, <1>5, RecordKept DEF c, u, isn, isnu

\* An iteration of the send loop: room and what is under way fit the window, and
\* Extract gives no more bytes than room has.
LEMMA SendAgrees ==
  ASSUME AckInv, TypeOK', SendInv, AgreeInv, NEW h \in Host, SendSegment(h)
  PROVE  SendInv' /\ AgreeInv'
<1> DEFINE u     == tcb[Peer(h)]
           isn   == ISN[h]
           isnu  == ISN[Peer(h)]
           c     == tcb[h]
           off   == Unacked(c)
           bytes == MinOf(c.room, MSS)
           d     == Extracted(c.sendBuf, off, bytes)
           a     == Ack(c, d)
           sent  == PostSend(c, a, Len(d))
           t     == [sent EXCEPT !.sendBuf = AfterExtract(@, off, bytes),
                                 !.tmr     = TimerOnSend(c),
                                 !.room    = @ - bytes]
           out   == <<a>>
<1>0. /\ TypeOK /\ isn \in Nat \ {0} /\ isnu \in Nat \ {0} /\ u \in Record
      /\ c \in Record /\ SentRight(c, isn) /\ Agrees(c, isn, u, isnu)
      /\ off \in Nat
  BY Finds, UnackedIsNat
<1>1. c.room > 0 /\ off <= Len(c.sendBuf)
  BY DEF SendSegment
<1>2. /\ tcb' = [tcb EXCEPT ![h] = t]
      /\ net' = [net EXCEPT ![Peer(h)] = Append(@, a)]
  BY DEF SendSegment, Ack
<1>3. t \in Record
  <2> HIDE DEF t
  <2> QED
    BY <1>0, <1>2, NewRecord
<1>4. /\ c.sendBuf \in Seq(Nat) /\ c.room \in Nat /\ c.lastSent \in Nat
      /\ c.lastAcked \in Nat /\ Window \in Nat
  BY <1>0, WindowAssumption DEF Record
<1>5. bytes \in Nat /\ bytes <= c.room
  BY <1>4, MSSAssumption DEF MinOf
<1> HIDE DEF c, off, bytes, u, isn, isnu
<1>6. d \in Seq(Nat) /\ Len(d) \in Nat /\ Len(d) <= bytes
  <2>1. d \in Seq(Nat)
    BY <1>0, <1>1, <1>4, <1>5, BufferTypes
  <2>2. Len(d) <= bytes
    BY <1>0, <1>1, <1>4, <1>5 DEF Extracted, MinOf
  <2> QED
    BY <2>1, <2>2
<1> HIDE DEF d
<1>7. a \in Packet /\ a.seq = c.lastSent + 1 /\ a.flags = {"ACK"}
  BY <1>0, <1>6, OutParts
<1> HIDE DEF a
<1>8. /\ sent \in Record /\ sent.state = c.state /\ sent.lastAcked = c.lastAcked
      /\ sent.room = c.room /\ sent.lastRecvd = c.lastRecvd
      /\ sent.lastSent = MaxOf(c.lastSent, a.seq + Len(d) - 1)
  BY <1>0, <1>6, <1>7, SentParts, Zenon
<1> HIDE DEF sent
<1>9. sent.lastSent = c.lastSent + Len(d)
  BY <1>4, <1>6, <1>7, <1>8 DEF MaxOf
<1>10. /\ t.state = sent.state /\ t.lastAcked = sent.lastAcked
       /\ t.lastRecvd = sent.lastRecvd /\ t.lastSent = sent.lastSent
       /\ t.room = sent.room - bytes /\ t.tmr = TimerOnSend(c)
  BY <1>8 DEF Record
<1> HIDE DEF t
<1>11. /\ c.state = "ESTABLISHED" /\ c.lastAcked >= isn
       /\ c.tmr \/ c.lastAcked = c.lastSent
       /\ c.room + off <= Window
  BY <1>0, <1>1, <1>4 DEF SentRight, off
<1>12. SentRight(t, isn)
  <2>1. t.tmr
    BY <1>10, <1>11 DEF TimerOnSend
  <2>2. Unacked(t) = off + Len(d)
    BY <1>4, <1>6, <1>8, <1>9, <1>10 DEF Unacked, off
  <2>3. Unacked(t) <= Window /\ t.room + Unacked(t) <= Window
    BY <1>0, <1>4, <1>5, <1>6, <1>8, <1>10, <1>11, <2>2
  <2> QED
    BY <1>8, <1>10, <1>11, <2>1, <2>3 DEF SentRight
<1>13. Onward(c, t) /\ Agrees(t, isn, u, isnu)
  <2>1. t.lastRecvd >= c.lastRecvd
    BY <1>0, <1>8, <1>10, RecordNats
  <2> QED
    BY <1>0, <1>3, <1>8, <1>10, <1>11, <2>1, OpenOnward DEF Synchronized, Leaving
<1>14. SegAgrees(a, t, isn, u)
  BY <1>7, <1>8, <1>10, <1>11 DEF SegAgrees, Opened, Synchronized
<1>15. out \in Seq(Packet) /\ \A i \in DOMAIN out : SegAgrees(out[i], t, isn, u)
  BY <1>7, <1>14, OutTypes, OutAgrees
<1>16. net' = [net EXCEPT ![Peer(h)] = @ \o out]
  <2>1. net[Peer(h)] \in Seq(Packet)
    BY <1>0, PeerFacts DEF TypeOK
  <2>2. Append(net[Peer(h)], a) = net[Peer(h)] \o out
    BY <1>7, <2>1
  <2> QED
    BY <1>2, <2>2
<1> HIDE DEF out
<1> QED
  BY <1>0, <1>2, <1>3, <1>12, <1>13, <1>15, <1>16, RecordKept DEF c, u, isn, isnu

\* A record that is past sending.
LEMMA PastSending ==
  ASSUME NEW t \in Record, NEW isn,
         t.state \in {"FIN_WAIT1", "FIN_WAIT2", "TIME_WAIT", "CLOSE_WAIT", "LAST_ACK",
                      "CLOSED"},
         t.room = 0, t.lastAcked >= isn
  PROVE  SentRight(t, isn)
BY DEF SentRight

\* A close is sent only by a host whose connection is open.
LEMMA FinAgrees ==
  ASSUME AckInv, SendInv, AgreeInv, NEW h \in Host,
         establishedToFinWait1(h) \/ closeWaitToLastAck(h)
  PROVE  SendInv' /\ AgreeInv'
<1> DEFINE u    == tcb[Peer(h)]
           isn  == ISN[h]
           isnu == ISN[Peer(h)]
           c    == tcb[h]
           a    == Fin(c)
           out  == <<a>>
<1>0. /\ TypeOK /\ isn \in Nat \ {0} /\ isnu \in Nat \ {0} /\ u \in Record
      /\ c \in Record /\ SentRight(c, isn) /\ Agrees(c, isn, u, isnu)
  BY Finds
<1>1. PICK next \in {"FIN_WAIT1", "LAST_ACK"} :
        /\ \/ (c.state = "ESTABLISHED" /\ next = "FIN_WAIT1")
           \/ (c.state = "CLOSE_WAIT" /\ next = "LAST_ACK")
        /\ SendFin(h, next) /\ c.room = 0
  <2>1. CASE establishedToFinWait1(h)
    <3>1. FromSock(h, "FinWait1") /\ SendFin(h, "FIN_WAIT1")
      BY <2>1 DEF establishedToFinWait1
    <3>2. c.state = "ESTABLISHED" /\ c.room = 0
      BY <3>1, RequestGuards DEF FromSock, Waiting
    <3> HIDE DEF c
    <3> QED
      BY <3>1, <3>2
  <2>2. CASE closeWaitToLastAck(h)
    <3>1. FromSock(h, "LastAck") /\ SendFin(h, "LAST_ACK")
      BY <2>2 DEF closeWaitToLastAck
    <3>2. c.state = "CLOSE_WAIT" /\ c.room = 0
      BY <3>1, RequestGuards DEF FromSock, Waiting
    <3> HIDE DEF c
    <3> QED
      BY <3>1, <3>2
  <2> QED
    BY <2>1, <2>2
<1>2. PICK g \in GarbageLen : tcb' = [tcb EXCEPT ![h] = Goto(PostSend(@, a, g), next)]
  BY <1>1 DEF SendFin
<1> DEFINE v == PostSend(c, a, g)
           t == Goto(v, next)
<1>3. tcb' = [tcb EXCEPT ![h] = t] /\ net' = [net EXCEPT ![Peer(h)] = @ \o out]
  BY <1>1, <1>2 DEF SendFin, TakeRequest
<1>4. g \in Nat /\ next \in State
  BY GarbageAssumption DEF State
<1>5. a \in Packet /\ a.flags = {"FIN"}
  BY <1>0, OutParts
<1> HIDE DEF c, u, isn, isnu, a
<1>6. /\ v \in Record /\ v.lastAcked = c.lastAcked /\ v.room = c.room
      /\ v.lastRecvd = c.lastRecvd
  BY <1>0, <1>4, <1>5, SentParts, Zenon
<1> HIDE DEF v
<1>7. /\ t \in Record /\ t.state = next /\ t.lastAcked = c.lastAcked /\ t.room = 0
      /\ t.lastRecvd = c.lastRecvd
  BY <1>1, <1>4, <1>6, GotoParts
<1> HIDE DEF t
<1>8. SentRight(t, isn)
  BY <1>0, <1>7, PastSending DEF SentRight
<1>9. Onward(c, t) /\ Agrees(t, isn, u, isnu)
  <2>1. t.lastRecvd >= c.lastRecvd
    BY <1>0, <1>7, RecordNats
  <2>2. c.state = "CLOSE_WAIT" => u.state \in Leaving
    BY <1>0 DEF Agrees
  <2> QED
    BY <1>0, <1>1, <1>7, <2>1, <2>2, OpenOnward DEF Synchronized, Leaving
<1>10. SegAgrees(a, t, isn, u)
  BY <1>5, <1>7 DEF SegAgrees, Leaving
<1>11. out \in Seq(Packet) /\ \A i \in DOMAIN out : SegAgrees(out[i], t, isn, u)
  BY <1>5, <1>10, OutTypes, OutAgrees
<1> HIDE DEF out
<1> QED
  BY <1>0, <1>3, <1>7, <1>8, <1>9, <1>11, RecordKept DEF c, u, isn, isnu

\* A FIN makes a connected host the passive side only if its peer is the active one.
LEMMA FinTakenAgrees ==
  ASSUME AckInv, SendInv, AgreeInv, NEW h \in Host,
         finWait2ToTimeWait(h) \/ establishedToCloseWait(h)
  PROVE  SendInv' /\ AgreeInv'
<1> DEFINE u    == tcb[Peer(h)]
           isn  == ISN[h]
           isnu == ISN[Peer(h)]
           c    == tcb[h]
           p    == Head(net[h])
           r    == PostRecv(c, p, 1)
           a    == Ack(r, <<>>)
           v    == PostSend(r, a, 0)
           out  == <<a>>
<1>0. /\ TypeOK /\ isn \in Nat \ {0} /\ isnu \in Nat \ {0} /\ u \in Record
      /\ c \in Record /\ SentRight(c, isn) /\ Agrees(c, isn, u, isnu)
      /\ Agrees(u, isnu, c, isn)
  BY Finds
<1>1. PICK next \in {"TIME_WAIT", "CLOSE_WAIT"} :
        /\ \/ (c.state = "FIN_WAIT2" /\ next = "TIME_WAIT")
           \/ (c.state = "ESTABLISHED" /\ next = "CLOSE_WAIT")
        /\ net[h] # <<>> /\ "FIN" \in p.flags /\ c.room = 0
        /\ \E msgs : AnswerFin(h, next, msgs)
  <2>1. CASE finWait2ToTimeWait(h)
    <3>1. FromMux(h, "TimeWait") /\ AnswerFin(h, "TIME_WAIT", <<>>)
      BY <2>1 DEF finWait2ToTimeWait
    <3>2. c.state = "FIN_WAIT2" /\ net[h] # <<>> /\ "FIN" \in p.flags /\ c.room = 0
      BY <3>1, PacketGuards DEF FromMux, Waiting
    <3> HIDE DEF c, p
    <3> QED
      BY <3>1, <3>2
  <2>2. CASE establishedToCloseWait(h)
    <3>1. FromMux(h, "CloseWait") /\ AnswerFin(h, "CLOSE_WAIT", <<WriteUp(<<>>)>>)
      BY <2>2 DEF establishedToCloseWait
    <3>2. c.state = "ESTABLISHED" /\ net[h] # <<>> /\ "FIN" \in p.flags /\ c.room = 0
      BY <3>1, PacketGuards DEF FromMux, Waiting
    <3> HIDE DEF c, p
    <3> QED
      BY <3>1, <3>2
  <2> QED
    BY <2>1, <2>2
<1> DEFINE w == Goto(v, next)
           t == [w EXCEPT !.tmr = @ \/ next = "TIME_WAIT"]
<1>2. p \in Packet /\ SegAgrees(p, u, isnu, c)
  BY <1>1, Finds
<1>3. /\ tcb' = [tcb EXCEPT ![h] = t]
      /\ net' = [net EXCEPT ![h] = Tail(@), ![Peer(h)] = @ \o out]
  BY <1>1 DEF AnswerFin, TakePacket
<1>4. r \in Record /\ Counts(h, r)
  <2>1. SegLen(p) = 1
    BY <1>1 DEF SegLen
  <2> QED
    BY <1>1, <2>1, ReceivedIsBacked
<1>5. r.lastRecvd >= c.lastRecvd
  BY <1>4 DEF Counts
<1> HIDE DEF c, p, u, isn, isnu
<1>6. c.state = "ESTABLISHED" => u.state \in Leaving
  <2>1. p.flags = {"FIN"}
    BY <1>1, <1>2 DEF SegAgrees
  <2>2. u.state \in Leaving \cup {"LAST_ACK"} \/ Ended(u)
    BY <1>2, <2>1 DEF SegAgrees
  <2> QED
    BY <1>0, <2>2 DEF Agrees, Leaving
<1>7. r.room = c.room /\ r.lastAcked >= c.lastAcked
  <2>1. 1 \in Nat
    OBVIOUS
  <2> QED
    BY <1>0, <1>2, <2>1, ReceivedParts, Zenon
<1> HIDE DEF r
<1>8. a \in Packet /\ a.flags = {"ACK"}
  <2>1. <<>> \in Seq(Nat)
    OBVIOUS
  <2> QED
    BY <1>4, <2>1, OutParts, Zenon
<1> HIDE DEF a
<1>9. /\ v \in Record /\ v.lastAcked = r.lastAcked /\ v.room = r.room
      /\ v.lastRecvd = r.lastRecvd
  <2>1. 0 \in Nat
    OBVIOUS
  <2> QED
    BY <1>4, <1>8, <2>1, SentParts, Zenon
<1> HIDE DEF v
<1>10. /\ w \in Record /\ w.state = next /\ w.lastAcked = v.lastAcked /\ w.room = v.room
       /\ w.lastRecvd = v.lastRecvd
  <2>1. next \in State
    BY DEF State
  <2> QED
    BY <1>9, <2>1, GotoParts, Zenon
<1> HIDE DEF w
<1>11. /\ t \in Record /\ t.state = next /\ t.lastAcked = r.lastAcked /\ t.room = 0
       /\ t.lastRecvd = r.lastRecvd
  <2>1. w.tmr \in BOOLEAN
    BY <1>10 DEF Record
  <2>2. (w.tmr \/ next = "TIME_WAIT") \in BOOLEAN
    BY <2>1
  <2>3. t = [w EXCEPT !.tmr = (w.tmr \/ next = "TIME_WAIT")]
    OBVIOUS
  <2>4. \A b \in BOOLEAN : LET x == [w EXCEPT !.tmr = b]
                           IN  /\ x \in Record /\ x.state = w.state
                               /\ x.lastAcked = w.lastAcked /\ x.room = w.room
                               /\ x.lastRecvd = w.lastRecvd
    BY <1>10 DEF Record
  <2> HIDE DEF t
  <2> QED
    BY <1>1, <1>7, <1>9, <1>10, <2>2, <2>3, <2>4
<1> HIDE DEF t
<1>12. SentRight(t, isn)
  <2>1. c.lastAcked >= isn /\ c.lastAcked \in Nat /\ r.lastAcked \in Nat
    BY <1>0, <1>4, RecordNats DEF SentRight
  <2>2. t.lastAcked >= isn
    BY <1>0, <1>7, <1>11, <2>1
  <2> QED
    BY <1>11, <2>2, PastSending
<1>13. Onward(c, t) /\ Agrees(t, isn, u, isnu)
  BY <1>0, <1>1, <1>5, <1>6, <1>11, OpenOnward DEF Synchronized, Leaving
<1>14. SegAgrees(a, t, isn, u)
  BY <1>8, <1>11 DEF SegAgrees, Opened, Synchronized
<1>15. out \in Seq(Packet) /\ \A i \in DOMAIN out : SegAgrees(out[i], t, isn, u)
  BY <1>8, <1>14, OutTypes, OutAgrees
<1> HIDE DEF out
<1> QED
  BY <1>0, <1>1, <1>3, <1>11, <1>12, <1>13, <1>15, RecordKept DEF c, u, isn, isnu

\* LAST_ACK ends while the peer still has its side of the close to remember.
LEMMA CloseAgrees ==
  ASSUME AckInv, SendInv, AgreeInv, NEW h \in Host,
         finWait1ToFinWait2(h) \/ lastAckToClosed(h)
  PROVE  SendInv' /\ AgreeInv'
<1> DEFINE u    == tcb[Peer(h)]
           isn  == ISN[h]
           isnu == ISN[Peer(h)]
           c    == tcb[h]
           p    == Head(net[h])
           n    == SegLen(p)
           r    == PostRecv(c, p, n)
           out  == <<>>
<1>0. /\ TypeOK /\ isn \in Nat \ {0} /\ isnu \in Nat \ {0} /\ u \in Record
      /\ c \in Record /\ SentRight(c, isn) /\ Agrees(c, isn, u, isnu)
  BY Finds
<1>1. PICK next \in {"FIN_WAIT2", "CLOSED"} :
        /\ \/ (c.state = "FIN_WAIT1" /\ next = "FIN_WAIT2")
           \/ (c.state = "LAST_ACK" /\ next = "CLOSED")
        /\ net[h] # <<>> /\ c.room = 0
        /\ tcb' = [tcb EXCEPT ![h] = Goto(r, next)]
        /\ TakePacket(h, <<>>, <<>>)
  <2>1. CASE finWait1ToFinWait2(h)
    <3>1. /\ FromMux(h, "FinWait2") /\ TakePacket(h, <<>>, <<>>)
          /\ tcb' = [tcb EXCEPT ![h] = Goto(r, "FIN_WAIT2")]
      BY <2>1 DEF finWait1ToFinWait2
    <3>2. c.state = "FIN_WAIT1" /\ net[h] # <<>> /\ c.room = 0
      BY <3>1, PacketGuards DEF FromMux, Waiting
    <3> HIDE DEF c, p, n, r
    <3> QED
      BY <3>1, <3>2
  <2>2. CASE lastAckToClosed(h)
    <3>1. /\ FromMux(h, "Closed") /\ TakePacket(h, <<>>, <<>>)
          /\ tcb' = [tcb EXCEPT ![h] = Goto(r, "CLOSED")]
      BY <2>2 DEF lastAckToClosed
    <3>2. c.state = "LAST_ACK" /\ net[h] # <<>> /\ c.room = 0
      BY <3>1, PacketGuards DEF FromMux, Waiting
    <3> HIDE DEF c, p, n, r
    <3> QED
      BY <3>1, <3>2
  <2> QED
    BY <2>1, <2>2
<1> DEFINE t == Goto(r, next)
<1>2. p \in Packet /\ n \in Nat
  BY <1>1, Finds, SegmentLengths
<1>3. /\ tcb' = [tcb EXCEPT ![h] = t]
      /\ net' = [net EXCEPT ![h] = Tail(@), ![Peer(h)] = @ \o out]
  BY <1>1 DEF TakePacket
<1>4. r \in Record /\ Counts(h, r)
  <2>1. n <= SegLen(p)
    BY <1>2
  <2> HIDE DEF n
  <2> QED
    BY <1>1, <1>2, <2>1, ReceivedIsBacked
<1>5. r.lastRecvd >= c.lastRecvd
  BY <1>4 DEF Counts
<1> HIDE DEF c, p, n, u, isn, isnu
<1>6. r.room = c.room /\ r.lastAcked >= c.lastAcked
  BY <1>0, <1>2, ReceivedParts, Zenon
<1> HIDE DEF r
<1>7. /\ t \in Record /\ t.state = next /\ t.lastAcked = r.lastAcked /\ t.room = r.room
      /\ t.lastRecvd = r.lastRecvd
  <2>1. next \in State
    BY DEF State
  <2> QED
    BY <1>4, <2>1, GotoParts, Zenon
<1> HIDE DEF t
<1>8. SentRight(t, isn)
  <2>1. c.lastAcked >= isn /\ c.lastAcked \in Nat /\ r.lastAcked \in Nat
    BY <1>0, <1>4, RecordNats DEF SentRight
  <2>2. t.lastAcked >= isn
    BY <1>0, <1>6, <1>7, <2>1
  <2> QED
    BY <1>1, <1>6, <1>7, <2>2, PastSending
<1>9. Onward(c, t) /\ Agrees(t, isn, u, isnu)
  <2>1. CASE next = "FIN_WAIT2"
    BY <1>0, <1>1, <1>5, <1>7, <2>1, OpenOnward DEF Synchronized, Leaving
  <2>2. CASE next = "CLOSED"
    <3>1. c.state = "LAST_ACK" /\ t.state = "CLOSED"
      BY <1>1, <1>7, <2>2
    <3>2. c.lastRecvd > isnu /\ u.state \in Leaving
      BY <1>0, <3>1 DEF Agrees, Opened, Synchronized
    <3>3. t.lastRecvd >= c.lastRecvd /\ t.lastRecvd > isnu /\ t.lastRecvd > 0
      BY <1>0, <1>5, <1>7, <3>2, RecordNats
    <3>4. Ended(t) /\ Opened(t) /\ Opened(u)
      BY <3>1, <3>2, <3>3 DEF Ended, Opened, Leaving, Synchronized
    <3>5. Onward(c, t)
      BY <3>1, <3>3, <3>4 DEF Onward, Leaving
    <3>6. Agrees(t, isn, u, isnu)
      BY <3>1, <3>2, <3>3, <3>4 DEF Agrees, Synchronized
    <3> QED
      BY <3>5, <3>6
  <2> QED
    BY <2>1, <2>2
<1>10. out \in Seq(Packet) /\ \A i \in DOMAIN out : SegAgrees(out[i], t, isn, u)
  OBVIOUS
<1> HIDE DEF out
<1> QED
  BY <1>0, <1>1, <1>3, <1>7, <1>8, <1>9, <1>10, RecordKept DEF c, u, isn, isnu

\* The network loses, repeats and reorders, and makes no segment of its own.
LEMMA NetAgrees ==
  ASSUME TypeOK, SendInv, AgreeInv, NEW h \in Host, NetStep(h)
  PROVE  SendInv' /\ AgreeInv'
<1>0. net \in [Host -> Seq(Packet)] /\ net[h] # <<>>
  BY DEF TypeOK, NetStep, Lose, Duplicate, Reorder, Fault
<1>1. ASSUME NEW s,
             \A i \in DOMAIN s : \E j \in DOMAIN net[h] : s[i] = net[h][j],
             net' = [net EXCEPT ![h] = s], tcb' = tcb
      PROVE  SendInv' /\ AgreeInv'
  <2>1. \A k \in Host : \A i \in DOMAIN net'[k] :
          \E j \in DOMAIN net[k] : net'[k][i] = net[k][j]
    <3>1. \A k \in Host : net'[k] = IF k = h THEN s ELSE net[k]
      BY <1>0, <1>1
    <3> QED
      BY <1>1, <3>1
  <2>2. SendInv'
    BY <1>1 DEF SendInv, SentRight, Unacked
  <2>3. AgreeInv'
    <3> SUFFICES ASSUME NEW k \in Host
                 PROVE  /\ Agrees(tcb'[k], ISN[k], tcb'[Peer(k)], ISN[Peer(k)])
                        /\ \A i \in DOMAIN net'[k] :
                             SegAgrees(net'[k][i], tcb'[Peer(k)], ISN[Peer(k)], tcb'[k])
      BY Zenon DEF AgreeInv, Agrees, SegAgrees, Opened, Ended, Peer
    <3>1. Agrees(tcb[k], ISN[k], tcb[Peer(k)], ISN[Peer(k)])
      BY Zenon DEF AgreeInv
    <3>2. ASSUME NEW i \in DOMAIN net'[k]
          PROVE  SegAgrees(net'[k][i], tcb[Peer(k)], ISN[Peer(k)], tcb[k])
      <4>1. PICK j \in DOMAIN net[k] : net'[k][i] = net[k][j]
        BY <2>1
      <4>2. SegAgrees(net[k][j], tcb[Peer(k)], ISN[Peer(k)], tcb[k])
        BY Zenon DEF AgreeInv
      <4> QED
        BY <4>1, <4>2
    <3> QED
      BY <1>1, <3>1, <3>2
  <2> QED
    BY <2>2, <2>3
<1>2. CASE Lose(h)
  <2>1. \A i \in DOMAIN Tail(net[h]) :
          i + 1 \in DOMAIN net[h] /\ Tail(net[h])[i] = net[h][i + 1]
    BY <1>0
  <2> QED
    BY <1>1, <1>2, <2>1 DEF Lose, Fault, tcpVars
<1>3. CASE Duplicate(h)
  <2> DEFINE s == Append(net[h], Head(net[h]))
  <2>1. \A i \in DOMAIN s : \/ i \in DOMAIN net[h] /\ s[i] = net[h][i]
                            \/ 1 \in DOMAIN net[h] /\ s[i] = net[h][1]
    BY <1>0
  <2> QED
    BY <1>1, <1>3, <2>1 DEF Duplicate, Fault, tcpVars
<1>4. CASE Reorder(h)
  <2> DEFINE s == Append(Tail(net[h]), Head(net[h]))
  <2>1. \A i \in DOMAIN s : \/ i + 1 \in DOMAIN net[h] /\ s[i] = net[h][i + 1]
                            \/ 1 \in DOMAIN net[h] /\ s[i] = net[h][1]
    BY <1>0
  <2> QED
    BY <1>1, <1>4, <2>1 DEF Reorder, Fault, tcpVars
<1> QED
  BY <1>2, <1>3, <1>4 DEF NetStep

\* What sock_module and the application do touches neither records nor segments.
LEMMA AgreeUntouched ==
  ASSUME SendInv, AgreeInv, UNCHANGED <<tcb, net>>
  PROVE  SendInv' /\ AgreeInv'
<1>1. SendInv'
  BY DEF SendInv, SentRight, Unacked
<1>2. AgreeInv'
  BY DEF AgreeInv, Agrees, SegAgrees, Opened, Ended, Peer
<1> QED
  BY <1>1, <1>2

-----------------------------------------------------------------------------
(* The inductive invariant.                                                *)
AgreementInv == AckInv /\ CallInv /\ SendInv /\ AgreeInv

LEMMA AgreementInit == Init => AgreementInv
<1> SUFFICES ASSUME Init PROVE AgreementInv
  OBVIOUS
<1>1. AckInv
  BY AckInvInit
<1>2. \A h \in Host : /\ tcb[h] = ClosedRecord(ISN[h]) /\ net[h] = <<>>
                      /\ ISN[h] \in Nat \ {0}
  <2>1. \A h \in Host : tcb[h] = ClosedRecord(ISN[h])
    BY DEF Init
  <2>2. \A h \in Host : net[h] = <<>>
    BY DEF Init
  <2> QED
    BY <2>1, <2>2, ISNAssumption
<1>3. CallInv
  <2>1. \A h \in Host : /\ sock[h].status = "FREE" /\ sock[h].tcpq = <<>>
                        /\ toTcp[h] = <<>> /\ toSock[h] = <<>>
    BY DEF Init
  <2> QED
    BY <1>2, <2>1 DEF CallInv, Fresh, NotOpened
<1>4. \A h \in Host : /\ tcb[h].state = "CLOSED" /\ tcb[h].room = 0
                      /\ tcb[h].lastAcked = ISN[h] /\ tcb[h].lastRecvd = 0
  <2>1. \A n : LET r == ClosedRecord(n)
                IN  /\ r.state = "CLOSED" /\ r.room = 0
                    /\ r.lastAcked = n /\ r.lastRecvd = 0
    BY DEF ClosedRecord
  <2> QED
    BY <1>2, <2>1
<1>5. SendInv
  BY <1>2, <1>4 DEF SendInv, SentRight
<1>6. AgreeInv
  BY <1>2, <1>4 DEF AgreeInv, Agrees, Opened, Ended, Synchronized
<1> QED
  BY <1>1, <1>3, <1>5, <1>6 DEF AgreementInv

\* A step of tcp_module changes the record of its own host only.
LEMMA OthersRecords ==
  ASSUME TypeOK, NEW h \in Host, TcpStep(h)
  PROVE  \A k \in Host \ {h} : tcb'[k] = tcb[k]
<1>1. \/ tcb' = tcb
      \/ \E t : tcb' = [tcb EXCEPT ![h] = t]
  BY DEF TcpStep, IgnorePacket, IgnoreRequest, closedToListen, closedToSynSent,
     listenToSynRcvd, synRcvdToEstablished, synSentToEstablished,
     establishedLoopPacket, establishedLoopWrite, establishedLoopStatus, SendSegment,
     ExtractThrows, establishedToFinWait1, closeWaitToLastAck, finWait1ToFinWait2,
     finWait2ToTimeWait, establishedToCloseWait, lastAckToClosed, SendFin, AnswerFin
<1> QED
  BY <1>1 DEF TypeOK

LEMMA TcpAgrees ==
  ASSUME AckInv, TypeOK', CallInv, SendInv, AgreeInv, NEW h \in Host, TcpStep(h)
  PROVE  SendInv' /\ AgreeInv'
<1>1. CASE IgnorePacket(h)
  BY <1>1, IgnoreAgrees DEF IgnorePacket, FromMux, TakePacket
<1>2. CASE IgnoreRequest(h)
  BY <1>2, IgnoreAgrees DEF IgnoreRequest, TakeRequest
<1>3. CASE closedToListen(h) \/ closedToSynSent(h)
  BY <1>3, OpenAgrees
<1>4. CASE listenToSynRcvd(h)
  BY <1>4, ListenAgrees
<1>5. CASE synRcvdToEstablished(h)
  BY <1>5, AcceptedAgrees
<1>6. CASE synSentToEstablished(h)
  BY <1>6, ConnectedAgrees
<1>7. CASE establishedLoopPacket(h)
  BY <1>7, LoopPacketAgrees
<1>8. CASE establishedLoopWrite(h) \/ establishedLoopStatus(h)
  BY <1>8, LoopRequestAgrees
<1>9. CASE SendSegment(h)
  BY <1>9, SendAgrees
<1>10. CASE ExtractThrows(h)
  BY <1>10, AgreeUntouched DEF ExtractThrows
<1>11. CASE establishedToFinWait1(h) \/ closeWaitToLastAck(h)
  BY <1>11, FinAgrees
<1>12. CASE finWait2ToTimeWait(h) \/ establishedToCloseWait(h)
  BY <1>12, FinTakenAgrees
<1>13. CASE finWait1ToFinWait2(h) \/ lastAckToClosed(h)
  BY <1>13, CloseAgrees
<1> QED
  BY <1>1, <1>2, <1>3, <1>4, <1>5, <1>6, <1>7, <1>8, <1>9, <1>10, <1>11, <1>12, <1>13,
     Zenon DEF TcpStep

LEMMA AgreementStep == AgreementInv /\ [Next]_vars => AgreementInv'
<1> SUFFICES ASSUME AgreementInv, [Next]_vars PROVE AgreementInv'
  OBVIOUS
<1>0. AckInv /\ CallInv /\ SendInv /\ AgreeInv /\ TypeOK
  BY DEF AgreementInv, AckInv
<1>1. AckInv' /\ TypeOK'
  <2>1. AckInv'
    BY <1>0, AckInvStep
  <2> QED
    BY <2>1 DEF AckInv
<1>2. ASSUME NEW h \in Host, TcpStep(h)
      PROVE  CallInv' /\ SendInv' /\ AgreeInv'
  <2>1. \A k \in Host \ {h} : tcb'[k] = tcb[k]
    BY <1>0, <1>2, OthersRecords
  <2>2. CallInv'
    BY <1>0, <1>1, <1>2, <2>1, TcpCall
  <2>3. SendInv' /\ AgreeInv'
    BY <1>0, <1>1, <1>2, TcpAgrees
  <2> QED
    BY <2>2, <2>3
<1>3. ASSUME NEW h \in Host, SockStep(h) \/ AppStep(h)
      PROVE  CallInv' /\ SendInv' /\ AgreeInv'
  <2>1. UNCHANGED <<tcb, net>>
    BY <1>3 DEF SockStep, AppStep, HandleTCPWrite, HandleTCPStatus, AppOpen,
                AppWrite, AppRead, AppClose, tcpVars
  <2>2. CallInv'
    BY <1>0, <1>1, <1>3, SockCall
  <2> QED
    BY <1>0, <2>1, <2>2, AgreeUntouched
<1>4. ASSUME UNCHANGED <<tcb, sock, toTcp, toSock>>
      PROVE  CallInv'
  BY <1>0, <1>4 DEF CallInv, Fresh, Begun
<1>5. ASSUME NEW h \in Host, NetStep(h)
      PROVE  CallInv' /\ SendInv' /\ AgreeInv'
  <2>1. UNCHANGED <<tcb, sock, toTcp, toSock>>
    BY <1>5 DEF NetStep, Lose, Duplicate, Reorder, Fault, tcpVars, sockVars
  <2> QED
    BY <1>0, <1>4, <1>5, <2>1, NetAgrees
<1>6. CASE UNCHANGED vars
  <2>1. UNCHANGED <<tcb, sock, toTcp, toSock>> /\ UNCHANGED <<tcb, net>>
    BY <1>6 DEF vars
  <2> QED
    BY <1>0, <1>1, <1>4, <2>1, AgreeUntouched DEF AgreementInv
<1> QED
  BY <1>1, <1>2, <1>3, <1>5, <1>6 DEF Next, AgreementInv

LEMMA AgreementHolds == Spec => []AgreementInv
BY AgreementInit, AgreementStep, PTL DEF Spec

\* tcpq matches an answer with a request by its position only; yet when an
\* application has its socket back, nothing it asked before is unanswered.
THEOREM CallsInStep == Spec => []AnswersInStep
<1>1. AgreementInv => AnswersInStep
  <2> SUFFICES ASSUME AgreementInv, NEW h \in Host,
                      sock[h].status \in {"CONNECTED", "READ_PENDING"}
               PROVE  sock[h].tcpq = <<>>
    BY DEF AnswersInStep
  <2>1. ~Fresh(h)
    BY DEF Fresh, NotOpened
  <2>2. Begun(h)
    BY <2>1 DEF AgreementInv, CallInv
  <2> QED
    BY <2>2 DEF Begun, CallRight
<1> QED
  BY <1>1, AgreementHolds, PTL

\* The send loop of establishedLoop never has more than N bytes under way, for
\* every width of the unsigned room that wraps around in it.
THEOREM LoopKeepsWindow == Spec => []WindowRespected
<1>1. AgreementInv => WindowRespected
  BY DEF AgreementInv, SendInv, SentRight, WindowRespected
<1> QED
  BY <1>1, AgreementHolds, PTL

\* Whatever establishedLoop has sent and not seen acknowledged, its timer runs.
THEOREM LoopKeepsTimer == Spec => []TimerCovers
<1>1. AgreementInv => TimerCovers
  <2> SUFFICES ASSUME AgreementInv, NEW h \in Host,
                      tcb[h].state = "ESTABLISHED", tcb[h].lastAcked < tcb[h].lastSent
               PROVE  tcb[h].tmr
    BY DEF TimerCovers
  <2>1. tcb[h].lastAcked \in Nat /\ tcb[h].lastSent \in Nat
    BY RecordNats DEF AgreementInv, AckInv, TypeOK
  <2>2. tcb[h].tmr \/ tcb[h].lastAcked = tcb[h].lastSent
    BY DEF AgreementInv, SendInv, SentRight
  <2> QED
    BY <2>1, <2>2
<1> QED
  BY <1>1, AgreementHolds, PTL

\* A host is in a synchronised state only opposite a peer with which it has
\* exchanged numbers: no lost, late or doubled segment opens one side alone.
THEOREM OpenIsMutual == Spec => []HandshakeAgreed
<1>1. AgreementInv => HandshakeAgreed
  <2> SUFFICES ASSUME AgreementInv, NEW h \in Host, tcb[h].state \in Synchronized
               PROVE  /\ tcb[h].lastRecvd > ISN[Peer(h)]
                      /\ tcb[Peer(h)].lastRecvd > ISN[h]
                      /\ tcb[Peer(h)].state \notin {"LISTEN", "SYN_SENT"}
                      /\ tcb[Peer(h)].state = "CLOSED" =>
                           tcb[h].state \in {"FIN_WAIT1", "FIN_WAIT2", "TIME_WAIT"}
    BY DEF HandshakeAgreed
  <2> DEFINE t == tcb[h]
             u == tcb[Peer(h)]
  <2>1. Agrees(t, ISN[h], u, ISN[Peer(h)]) /\ Agrees(u, ISN[Peer(h)], t, ISN[h])
    BY Finds DEF AgreementInv
  <2> HIDE DEF t, u
  <2>2. t.state \in Synchronized
    BY DEF t
  <2>3. t.lastRecvd > ISN[Peer(h)] /\ u.lastRecvd > ISN[h]
    BY <2>1, <2>2 DEF Agrees, Opened
  <2>4. u.state = "SYN_RCVD" \/ Opened(u)
    BY <2>1, <2>2 DEF Agrees
  <2>5. u.state \notin {"LISTEN", "SYN_SENT"}
    BY <2>4 DEF Opened, Ended, Synchronized
  <2>6. u.state = "CLOSED" => t.state \in Leaving
    BY <2>1, <2>4 DEF Agrees, Opened, Synchronized
  <2> QED
    BY <2>3, <2>5, <2>6 DEF t, u, Leaving
<1> QED
  BY <1>1, AgreementHolds, PTL

\* Only the peer's own close makes a host the passive side of one.
THEOREM CloseIsMutual == Spec => []CloseAgreed
<1>1. AgreementInv => CloseAgreed
  <2> SUFFICES ASSUME AgreementInv, NEW h \in Host,
                      tcb[h].state \in {"CLOSE_WAIT", "LAST_ACK"}
               PROVE  tcb[Peer(h)].state \in {"FIN_WAIT1", "FIN_WAIT2", "TIME_WAIT"}
    BY DEF CloseAgreed
  <2>1. Agrees(tcb[h], ISN[h], tcb[Peer(h)], ISN[Peer(h)])
    BY Finds DEF AgreementInv
  <2> QED
    BY <2>1 DEF Agrees, Leaving
<1> QED
  BY <1>1, AgreementHolds, PTL

-----------------------------------------------------------------------------
(* The order of a close, on a link that may lose segments but neither      *)
(* repeats nor reorders them.  In LAST_ACK any acknowledgement ends the    *)
(* connection; what makes it the right one is that nothing else is under   *)
(* way by then, for a host's FIN is the last that it sends until it has    *)
(* the other's.                                                            *)
KeepsOrder == MaxFaults = 0 \/ Faults \subseteq {"lose"}

\* A host with record t, the segments under way to it, and its peer's record u.
InOrder(s, t, u) ==
  /\ Ended(t) => u.state = "TIME_WAIT"
  /\ t.state \in {"CLOSE_WAIT", "LAST_ACK"} => s = <<>> \/ u.state = "TIME_WAIT"
  /\ u.state \in {"FIN_WAIT1", "FIN_WAIT2"} =>
       \A i \in DOMAIN s : "FIN" \in s[i].flags => i = Len(s)

CloseInv == \A h \in Host : InOrder(net[h], tcb[h], tcb[Peer(h)])

\* What a step may do to a host's record c, which becomes t, with the first of the
\* segments s, and what it may send.
Closes(c, t, s, took, out) ==
  /\ c.state = "TIME_WAIT" => t.state = "TIME_WAIT"
  /\ c.state \in Leaving => out = <<>> \/ t.state = "TIME_WAIT"
  /\ t.state \in {"FIN_WAIT1", "FIN_WAIT2"} =>
       \/ c.state \in {"FIN_WAIT1", "FIN_WAIT2"}
       \/ c.state = "ESTABLISHED" /\ Len(out) = 1
  /\ t.state = "CLOSED" => t = c \/ (c.state = "LAST_ACK" /\ s # <<>>)
  /\ t.state \in {"CLOSE_WAIT", "LAST_ACK"} =>
       \/ c.state \in {"CLOSE_WAIT", "LAST_ACK"}
       \/ c.state = "ESTABLISHED" /\ took /\ "FIN" \in Head(s).flags

\* What a host receives stays in order.
LEMMA TakenInOrder ==
  ASSUME NEW s \in Seq(Packet), NEW c, NEW t, NEW u, NEW took \in BOOLEAN, NEW out,
         took => s # <<>>, InOrder(s, c, u), Closes(c, t, s, took, out),
         c.state = "ESTABLISHED" /\ took /\ "FIN" \in Head(s).flags => u.state \in Leaving
  PROVE  InOrder(IF took THEN Tail(s) ELSE s, t, u)
<1> DEFINE r == IF took THEN Tail(s) ELSE s
<1>1. /\ s = <<>> => r = <<>>
      /\ \A i \in DOMAIN r : \/ i \in DOMAIN s /\ r[i] = s[i] /\ Len(r) = Len(s)
                             \/ i + 1 \in DOMAIN s /\ r[i] = s[i + 1] /\ Len(s) = Len(r) + 1
  BY SMT
<1>2. took => /\ 1 \in DOMAIN s /\ Head(s) = s[1]
              /\ Len(s) = 1 => r = <<>>
  <2> SUFFICES ASSUME took PROVE /\ 1 \in DOMAIN s /\ Head(s) = s[1]
                                 /\ Len(s) = 1 => r = <<>>
    OBVIOUS
  <2>1. r = Tail(s)
    OBVIOUS
  <2>2. 1 \in DOMAIN s /\ Head(s) = s[1] /\ Len(Tail(s)) = Len(s) - 1 /\ Tail(s) \in Seq(Packet)
    OBVIOUS
  <2>3. Len(s) = 1 => Tail(s) = <<>>
    <3>1. Len(s) = 1 => Len(Tail(s)) = 0
      BY <2>2
    <3>2. \A q \in Seq(Packet) : Len(q) = 0 => q = <<>>
      OBVIOUS
    <3> QED
      BY <2>2, <3>1, <3>2
  <2> QED
    BY <2>1, <2>2, <2>3
<1> HIDE DEF r
<1>3. u.state \in {"FIN_WAIT1", "FIN_WAIT2"} =>
        \A i \in DOMAIN r : "FIN" \in r[i].flags => i = Len(r)
  <2> SUFFICES ASSUME u.state \in {"FIN_WAIT1", "FIN_WAIT2"}, NEW i \in DOMAIN r,
                      "FIN" \in r[i].flags
               PROVE  i = Len(r)
    OBVIOUS
  <2>1. \A j \in DOMAIN s : "FIN" \in s[j].flags => j = Len(s)
    BY DEF InOrder
  <2>2. i \in Nat /\ Len(r) \in Nat
    BY DEF r
  <2> QED
    BY <1>1, <2>1, <2>2
<1>4. Ended(t) => u.state = "TIME_WAIT"
  BY DEF Closes, InOrder, Ended
<1>5. t.state \in {"CLOSE_WAIT", "LAST_ACK"} => r = <<>> \/ u.state = "TIME_WAIT"
  <2>1. CASE c.state \in {"CLOSE_WAIT", "LAST_ACK"}
    BY <1>1, <2>1 DEF InOrder
  <2>2. CASE c.state = "ESTABLISHED" /\ took /\ "FIN" \in Head(s).flags
    <3>1. u.state # "TIME_WAIT" => Len(s) = 1
      BY <1>2, <2>2 DEF InOrder, Leaving
    <3> QED
      BY <1>2, <2>2, <3>1
  <2> QED
    BY <2>1, <2>2 DEF Closes
<1> QED
  BY <1>3, <1>4, <1>5 DEF InOrder, r

\* What a host sends is in order.
LEMMA SentInOrder ==
  ASSUME NEW s \in Seq(Packet), NEW out \in Seq(Packet), NEW c, NEW t, NEW u,
         NEW q, NEW took,
         InOrder(s, u, c), Closes(c, t, q, took, out),
         u.state \in {"CLOSE_WAIT", "LAST_ACK"} => c.state \in Leaving,
         c.state = "ESTABLISHED" => \A i \in DOMAIN s : "FIN" \notin s[i].flags
  PROVE  InOrder(s \o out, u, t)
<1>1. Ended(u) => t.state = "TIME_WAIT"
  BY DEF InOrder, Closes
<1>2. out = <<>> => s \o out = s
  OBVIOUS
<1>3. u.state \in {"CLOSE_WAIT", "LAST_ACK"} => s \o out = <<>> \/ t.state = "TIME_WAIT"
  BY <1>2 DEF InOrder, Closes
<1>4. ASSUME t.state \in {"FIN_WAIT1", "FIN_WAIT2"},
             NEW i \in DOMAIN (s \o out), "FIN" \in (s \o out)[i].flags
      PROVE  i = Len(s \o out)
  <2>1. CASE c.state \in {"FIN_WAIT1", "FIN_WAIT2"}
    <3>1. out = <<>>
      BY <1>4, <2>1 DEF Closes, Leaving
    <3>2. s \o out = s
      BY <1>2, <3>1
    <3> QED
      BY <1>4, <2>1, <3>2, Zenon DEF InOrder
  <2>2. CASE c.state = "ESTABLISHED" /\ Len(out) = 1
    <3>0. Len(s \o out) = Len(s) + Len(out) /\ DOMAIN (s \o out) = 1..Len(s \o out)
      OBVIOUS
    <3>1. Len(s \o out) = Len(s) + 1 /\ i \in 1..(Len(s) + 1)
      BY <2>2, <3>0
    <3>2. i \in 1..Len(s) => i \in DOMAIN s /\ (s \o out)[i] = s[i]
      OBVIOUS
    <3>3. i \in 1..Len(s) \/ i = Len(s) + 1
      BY <3>1
    <3> QED
      BY <1>4, <2>2, <3>1, <3>2, <3>3
  <2> QED
    BY <1>4, <2>1, <2>2 DEF Closes
<1> QED
  BY <1>1, <1>3, <1>4 DEF InOrder

\* A record whose state alone a transition sets.
LEMMA StateSet ==
  ASSUME NEW x, NEW s, Goto(x, s) \in Record
  PROVE  Goto(x, s).state = s
BY DEF Goto, Record

\* Each step of tcp_module is such a step.
LEMMA StepCloses ==
  ASSUME AgreementInv, TypeOK', NEW h \in Host, TcpStep(h)
  PROVE  \E took \in BOOLEAN, out \in Seq(Packet) :
           /\ took => net[h] # <<>>
           /\ net' = [net EXCEPT ![h] = IF took THEN Tail(@) ELSE @, ![Peer(h)] = @ \o out]
           /\ Closes(tcb[h], tcb'[h], net[h], took, out)
<1> DEFINE c == tcb[h]
           t == tcb'[h]
           p == Head(net[h])
           Goal == \E took \in BOOLEAN, out \in Seq(Packet) :
             /\ took => net[h] # <<>>
             /\ net' = [net EXCEPT ![h] = IF took THEN Tail(@) ELSE @, ![Peer(h)] = @ \o out]
             /\ Closes(c, t, net[h], took, out)
<1> SUFFICES Goal
  OBVIOUS
<1>0. /\ TypeOK /\ c \in Record /\ t \in Record /\ tcb \in [Host -> Record]
      /\ net \in [Host -> Seq(Packet)] /\ Peer(h) \in Host /\ Peer(h) # h
      /\ c.state # "ESTABLISHED" => c.room = 0
      /\ net[h] # <<>> => p \in Packet
  <2>1. AckInv /\ SendInv /\ AgreeInv
    BY DEF AgreementInv
  <2> QED
    BY <2>1, PeerFacts, Finds DEF SentRight, TypeOK
<1>1. ASSUME NEW out \in Seq(Packet), NEW msgs, TakePacket(h, out, msgs), net[h] # <<>>,
             Closes(c, t, net[h], TRUE, out)
      PROVE  Goal
  <2>1. net' = [net EXCEPT ![h] = IF TRUE THEN Tail(@) ELSE @, ![Peer(h)] = @ \o out]
    BY <1>1 DEF TakePacket
  <2> QED
    BY <1>1, <2>1, Zenon
<1>2. ASSUME NEW out \in Seq(Packet), net' = [net EXCEPT ![Peer(h)] = @ \o out],
             Closes(c, t, net[h], FALSE, out)
      PROVE  Goal
  <2>1. net' = [net EXCEPT ![h] = IF FALSE THEN Tail(@) ELSE @, ![Peer(h)] = @ \o out]
    BY <1>0, <1>2
  <2> QED
    BY <1>2, <2>1, Zenon
<1>3. <<>> \in Seq(Packet) /\ \A x : tcb' = [tcb EXCEPT ![h] = x] => t = x
  BY <1>0
<1>4. \A x, s : tcb' = [tcb EXCEPT ![h] = Goto(x, s)] => t.state = s
  BY <1>0, <1>3, StateSet
<1>5. \A x \in Record : /\ Ack(x, <<>>) \in Packet /\ SynAck(x) \in Packet
                        /\ Syn(x) \in Packet /\ Fin(x) \in Packet
                        /\ \A d \in Seq(Nat) : Ack(x, d) \in Packet
  BY FactoryTypes
<1>6. \A x \in Packet : <<x>> \in Seq(Packet) /\ <<x, x>> \in Seq(Packet) /\ Len(<<x>>) = 1
  OBVIOUS
<1>7. \A n \in Nat : net[h] # <<>> => PostRecv(c, p, n) \in Record
  BY <1>0, PostRecvType
<1>8. ASSUME NEW s, FromMux(h, s)
      PROVE  net[h] # <<>> /\ c.room = 0 /\ OnPacket(c.state, p.flags) = s
  BY <1>8 DEF FromMux, Waiting
<1> HIDE DEF c, t, p, Goal
<1>9. \A s, took, out : Closes(c, c, s, took, <<>>)
  BY DEF Closes
<1>10. CASE IgnorePacket(h)
  <2>1. net[h] # <<>> /\ TakePacket(h, <<>>, <<>>) /\ t = c
    BY <1>8, <1>10 DEF IgnorePacket, t, c
  <2> QED
    BY <1>1, <1>3, <1>9, <2>1
<1>11. CASE IgnoreRequest(h)
  <2>1. net' = [net EXCEPT ![Peer(h)] = @ \o <<>>] /\ t = c
    BY <1>11 DEF IgnoreRequest, TakeRequest, t, c
  <2> QED
    BY <1>2, <1>3, <1>9, <2>1
<1>12. CASE closedToListen(h)
  <2>1. net' = [net EXCEPT ![Peer(h)] = @ \o <<>>]
    BY <1>12 DEF closedToListen, TakeRequest
  <2>2. t.state = "LISTEN" /\ c.state = "CLOSED"
    BY <1>4, <1>12, RequestGuards DEF closedToListen, FromSock, c
  <2>3. Closes(c, t, net[h], FALSE, <<>>)
    BY <2>2 DEF Closes, Leaving
  <2> QED
    BY <1>2, <1>3, <2>1, <2>3
<1>13. CASE closedToSynSent(h)
  <2> DEFINE out == <<Syn(c), Syn(c)>>
  <2>1. net' = [net EXCEPT ![Peer(h)] = @ \o out] /\ out \in Seq(Packet)
    BY <1>0, <1>5, <1>6, <1>13 DEF closedToSynSent, TakeRequest, c
  <2>2. t.state = "SYN_SENT" /\ c.state = "CLOSED"
    BY <1>4, <1>13, RequestGuards DEF closedToSynSent, FromSock, c
  <2> HIDE DEF out
  <2>3. Closes(c, t, net[h], FALSE, out)
    BY <2>2 DEF Closes, Leaving
  <2> QED
    BY <1>2, <2>1, <2>3
<1>14. CASE listenToSynRcvd(h)
  <2> DEFINE out == <<SynAck(PostRecv(c, p, 1))>>
  <2>0. net[h] # <<>> /\ c.state = "LISTEN"
    BY <1>8, <1>14, PacketGuards DEF listenToSynRcvd
  <2>1. TakePacket(h, out, <<>>) /\ t.state = "SYN_RCVD"
    BY <1>4, <1>14 DEF listenToSynRcvd, c, p
  <2>2. out \in Seq(Packet)
    BY <1>5, <1>6, <1>7, <2>0
  <2> HIDE DEF out
  <2>3. Closes(c, t, net[h], TRUE, out)
    BY <2>0, <2>1 DEF Closes, Leaving
  <2> QED
    BY <1>1, <2>0, <2>1, <2>2, <2>3
<1>15. CASE synRcvdToEstablished(h)
  <2>0. net[h] # <<>> /\ c.state = "SYN_RCVD"
    BY <1>8, <1>15, PacketGuards DEF synRcvdToEstablished
  <2>1. TakePacket(h, <<>>, <<WriteUp(<<>>)>>) /\ t.state = "ESTABLISHED"
    BY <1>4, <1>15 DEF synRcvdToEstablished
  <2>3. Closes(c, t, net[h], TRUE, <<>>)
    BY <2>0, <2>1 DEF Closes, Leaving
  <2> QED
    BY <1>1, <1>3, <2>0, <2>1, <2>3
<1>16. CASE synSentToEstablished(h)
  <2> DEFINE out == <<Ack(PostRecv(c, p, 1), <<>>)>>
  <2>0. net[h] # <<>> /\ c.state = "SYN_SENT"
    BY <1>8, <1>16, PacketGuards DEF synSentToEstablished
  <2>1. TakePacket(h, out, <<WriteUp(<<>>)>>) /\ t.state = "ESTABLISHED"
    BY <1>4, <1>16 DEF synSentToEstablished, c, p
  <2>2. out \in Seq(Packet)
    BY <1>5, <1>6, <1>7, <2>0
  <2> HIDE DEF out
  <2>3. Closes(c, t, net[h], TRUE, out)
    BY <2>0, <2>1 DEF Closes, Leaving
  <2> QED
    BY <1>1, <2>0, <2>1, <2>2, <2>3
<1>17. CASE establishedLoopPacket(h)
  <2> DEFINE t1  == PostRecv(c, p, Residue(p))
             out == IF p.data # <<>> THEN <<Ack(t1, <<>>)>> ELSE <<>>
  <2>0. net[h] # <<>> /\ c.state = "ESTABLISHED"
    BY <1>8, <1>17, PacketGuards DEF establishedLoopPacket
  <2>1. (\E msgs : TakePacket(h, out, msgs)) /\ t.state = t1.state
    <3>1. \E msgs : TakePacket(h, out, msgs)
      BY <1>17, Zenon DEF establishedLoopPacket, c, p
    <3>2. PICK recv, b, tmr, room :
            tcb' = [tcb EXCEPT ![h] = [[t1 EXCEPT !.recvBuf = recv, !.sendBuf = b, !.tmr = tmr]
                                         EXCEPT !.room = room]]
      BY <1>17, Zenon DEF establishedLoopPacket, c, p
    <3> HIDE DEF t1
    <3>3. t = [[t1 EXCEPT !.recvBuf = recv, !.sendBuf = b, !.tmr = tmr] EXCEPT !.room = room]
      BY ONLY <1>3, <3>2, Zenon
    <3>4. "state" \in DOMAIN t1
      BY <1>0, <1>7, <1>8, <1>17, PacketGuards, SegmentLengths DEF establishedLoopPacket, t1, Record
    <3> QED
      BY ONLY <3>1, <3>3, <3>4
  <2>2. t1 \in Record /\ t1.state = "ESTABLISHED"
    BY <1>0, <1>7, <2>0, SegmentLengths DEF PostRecv, Record
  <2>3. out \in Seq(Packet)
    BY <1>3, <1>5, <1>6, <2>2
  <2> HIDE DEF out, t1
  <2>4. Closes(c, t, net[h], TRUE, out)
    BY <2>0, <2>1, <2>2 DEF Closes, Leaving
  <2> QED
    BY <1>1, <2>0, <2>1, <2>3, <2>4
<1>18. CASE establishedLoopWrite(h) \/ establishedLoopStatus(h)
  <2>0. c.state = "ESTABLISHED"
    BY <1>18, RequestGuards DEF establishedLoopWrite, establishedLoopStatus, FromSock, c
  <2>1. net' = [net EXCEPT ![Peer(h)] = @ \o <<>>]
    BY <1>18 DEF establishedLoopWrite, establishedLoopStatus, TakeRequest
  <2>2. t.state = c.state
    BY <1>0, <1>3, <1>18 DEF establishedLoopWrite, establishedLoopStatus, c, Record
  <2>3. Closes(c, t, net[h], FALSE, <<>>)
    BY <2>0, <2>2 DEF Closes, Leaving
  <2> QED
    BY <1>2, <1>3, <2>1, <2>3
<1>19. CASE SendSegment(h)
  <2> DEFINE d   == Extracted(c.sendBuf, Unacked(c), MinOf(c.room, MSS))
             a   == Ack(c, d)
             out == <<a>>
  <2>0. c.state = "ESTABLISHED"
    BY <1>0, <1>19 DEF SendSegment, c
  <2>1. net' = [net EXCEPT ![Peer(h)] = @ \o <<a>>] /\ t.state = c.state
    <3> DEFINE n    == MinOf(c.room, MSS)
               sent == PostSend(c, a, Len(a.data))
    <3>1. net' = [net EXCEPT ![Peer(h)] = Append(@, a)]
      BY <1>19 DEF SendSegment, c
    <3>2. Append(net[Peer(h)], a) = net[Peer(h)] \o <<a>>
      BY <1>0
    <3>4. t = [sent EXCEPT !.sendBuf = AfterExtract(@, Unacked(c), n),
                           !.tmr = TimerOnSend(c), !.room = @ - n]
      BY <1>3, <1>19 DEF SendSegment, c
    <3>5. DOMAIN sent = DOMAIN c /\ sent.state = c.state
      BY <1>0 DEF PostSend, Record
    <3> HIDE DEF sent
    <3>6. t.state = sent.state
      BY <1>0, <3>4, <3>5 DEF Record
    <3> QED
      BY <3>1, <3>2, <3>5, <3>6
  <2>2. a \in Packet
    <3>1. c.sendBuf \in Seq(Nat)
      BY <1>0 DEF Record
    <3>2. Unacked(c) \in Nat /\ MinOf(c.room, MSS) \in Nat
      BY <1>0, UnackedIsNat, MSSAssumption DEF AgreementInv, MinOf, Record, c
    <3>3. Unacked(c) <= Len(c.sendBuf)
      BY <1>19 DEF SendSegment, c
    <3>4. d \in Seq(Nat)
      BY <3>1, <3>2, <3>3, BufferTypes
    <3> QED
      BY <1>0, <1>5, <3>4
  <2> HIDE DEF a
  <2>3. Closes(c, t, net[h], FALSE, <<a>>)
    BY <2>0, <2>1 DEF Closes, Leaving
  <2> QED
    BY <1>2, <1>6, <2>1, <2>2, <2>3
<1>20. CASE ExtractThrows(h)
  <2>1. net' = [net EXCEPT ![Peer(h)] = @ \o <<>>] /\ t = c
    <3>1. net' = net /\ t = c
      BY <1>20 DEF ExtractThrows, t, c
    <3>2. net[Peer(h)] \o <<>> = net[Peer(h)]
      BY <1>0
    <3> QED
      BY <1>0, <3>1, <3>2
  <2> QED
    BY <1>2, <1>3, <1>9, <2>1
<1>21. CASE establishedToFinWait1(h) \/ closeWaitToLastAck(h)
  <2> DEFINE out == <<Fin(c)>>
  <2>1. net' = [net EXCEPT ![Peer(h)] = @ \o out] /\ out \in Seq(Packet) /\ Len(out) = 1
    BY <1>0, <1>5, <1>6, <1>21
    DEF establishedToFinWait1, closeWaitToLastAck, SendFin, TakeRequest, c
  <2>2. \/ c.state = "ESTABLISHED" /\ t.state = "FIN_WAIT1"
        \/ c.state = "CLOSE_WAIT" /\ t.state = "LAST_ACK"
    BY <1>4, <1>21, RequestGuards
    DEF establishedToFinWait1, closeWaitToLastAck, SendFin, FromSock, c
  <2> HIDE DEF out
  <2>3. Closes(c, t, net[h], FALSE, out)
    BY <2>1, <2>2 DEF Closes, Leaving
  <2> QED
    BY <1>2, <2>1, <2>3
<1>22. CASE finWait1ToFinWait2(h) \/ lastAckToClosed(h)
  <2>1. net[h] # <<>> /\ TakePacket(h, <<>>, <<>>)
    BY <1>8, <1>22 DEF finWait1ToFinWait2, lastAckToClosed
  <2>2. \/ c.state = "FIN_WAIT1" /\ t.state = "FIN_WAIT2"
        \/ c.state = "LAST_ACK" /\ t.state = "CLOSED"
    BY <1>4, <1>8, <1>22, PacketGuards DEF finWait1ToFinWait2, lastAckToClosed
  <2>3. Closes(c, t, net[h], TRUE, <<>>)
    BY <2>1, <2>2 DEF Closes, Leaving
  <2> QED
    BY <1>1, <1>3, <2>1, <2>3
<1>23. CASE finWait2ToTimeWait(h) \/ establishedToCloseWait(h)
  <2> DEFINE out == <<Ack(PostRecv(c, p, 1), <<>>)>>
  <2>1. net[h] # <<>> /\ "FIN" \in p.flags /\ \E msgs : TakePacket(h, out, msgs)
    BY <1>8, <1>23, PacketGuards DEF finWait2ToTimeWait, establishedToCloseWait, AnswerFin, c, p
  <2>2. \/ c.state = "FIN_WAIT2" /\ t.state = "TIME_WAIT"
        \/ c.state = "ESTABLISHED" /\ t.state = "CLOSE_WAIT"
    <3>1. PICK s \in State : /\ \/ c.state = "FIN_WAIT2" /\ s = "TIME_WAIT"
                                \/ c.state = "ESTABLISHED" /\ s = "CLOSE_WAIT"
                             /\ \E msgs : AnswerFin(h, s, msgs)
      BY <1>8, <1>23, PacketGuards DEF finWait2ToTimeWait, establishedToCloseWait, State
    <3> DEFINE v == PostSend(PostRecv(c, p, 1), Ack(PostRecv(c, p, 1), <<>>), 0)
    <3>2. t = [Goto(v, s) EXCEPT !.tmr = @ \/ s = "TIME_WAIT"]
      BY <1>3, <3>1 DEF AnswerFin, c, p
    <3> HIDE DEF v
    <3>3. t.state = s
      BY <1>0, <3>2 DEF Goto, Record
    <3> QED
      BY <3>1, <3>3
  <2>3. out \in Seq(Packet)
    BY <1>5, <1>6, <1>7, <2>1
  <2> HIDE DEF out
  <2>4. Closes(c, t, net[h], TRUE, out)
    BY <2>1, <2>2 DEF Closes, Leaving, p
  <2> QED
    BY <1>1, <2>1, <2>3, <2>4
<1> QED
  BY <1>10, <1>11, <1>12, <1>13, <1>14, <1>15, <1>16, <1>17, <1>18, <1>19, <1>20, <1>21,
     <1>22, <1>23 DEF TcpStep

LEMMA CloseInit == Init => CloseInv
<1> SUFFICES ASSUME Init, NEW h \in Host PROVE InOrder(net[h], tcb[h], tcb[Peer(h)])
  BY DEF CloseInv
<1>1. /\ Peer(h) \in Host /\ net[h] = <<>>
      /\ \A k \in Host : tcb[k] = ClosedRecord(ISN[k])
  BY PeerFacts DEF Init
<1>2. \A n : ClosedRecord(n).state = "CLOSED" /\ ClosedRecord(n).lastRecvd = 0
  BY DEF ClosedRecord
<1>3. /\ tcb[h].state = "CLOSED" /\ tcb[h].lastRecvd = 0
      /\ tcb[Peer(h)].state = "CLOSED"
  BY <1>1, <1>2, Zenon
<1> QED
  BY <1>3 DEF InOrder, Ended

LEMMA CloseStep ==
  ASSUME KeepsOrder, AgreementInv, TypeOK', CloseInv, [Next]_vars
  PROVE  CloseInv'
<1>0. /\ AckInv /\ SendInv /\ AgreeInv /\ TypeOK
      /\ tcb \in [Host -> Record] /\ net \in [Host -> Seq(Packet)] /\ faults \in Nat
  BY DEF AgreementInv, AckInv, TypeOK
<1>1. ASSUME UNCHANGED <<tcb, net>>
      PROVE  CloseInv'
  BY <1>1 DEF CloseInv
<1>2. ASSUME NEW h \in Host, TcpStep(h)
      PROVE  CloseInv'
  <2> DEFINE k == Peer(h)
             c == tcb[h]
             t == tcb'[h]
             u == tcb[k]
  <2>0. k \in Host /\ k # h /\ Peer(k) = h /\ \A x \in Host : x = h \/ x = k
    BY PeerFacts DEF Peer, Host
  <2>1. PICK took \in BOOLEAN, out \in Seq(Packet) :
          /\ took => net[h] # <<>>
          /\ net' = [net EXCEPT ![h] = IF took THEN Tail(@) ELSE @, ![k] = @ \o out]
          /\ Closes(c, t, net[h], took, out)
    BY <1>2, StepCloses
  <2>2. /\ tcb'[k] = u
        /\ net'[h] = IF took THEN Tail(net[h]) ELSE net[h]
        /\ net'[k] = net[k] \o out
    BY <1>0, <1>2, <2>0, <2>1, OthersRecords
  <2>3. /\ InOrder(net[h], c, u) /\ InOrder(net[k], u, c)
        /\ net[h] \in Seq(Packet) /\ net[k] \in Seq(Packet)
    BY <1>0, <2>0 DEF CloseInv
  <2>4. Agrees(c, ISN[h], u, ISN[k]) /\ Agrees(u, ISN[k], c, ISN[h])
    BY <1>0, Finds
  <2>5. c.state = "ESTABLISHED" /\ took /\ "FIN" \in Head(net[h]).flags => u.state \in Leaving
    <3> SUFFICES ASSUME c.state = "ESTABLISHED", took, "FIN" \in Head(net[h]).flags
                 PROVE  u.state \in Leaving
      OBVIOUS
    <3>1. SegAgrees(Head(net[h]), u, ISN[k], c)
      BY <1>0, <2>1, Finds
    <3>2. u.state \in Leaving \cup {"LAST_ACK"} \/ Ended(u)
      BY <3>1 DEF SegAgrees
    <3> QED
      BY <2>4, <3>2 DEF Agrees, Leaving
  <2>6. u.state \in {"CLOSE_WAIT", "LAST_ACK"} => c.state \in Leaving
    BY <2>4 DEF Agrees
  <2>7. c.state = "ESTABLISHED" => \A i \in DOMAIN net[k] : "FIN" \notin net[k][i].flags
    <3> SUFFICES ASSUME c.state = "ESTABLISHED", NEW i \in DOMAIN net[k],
                        "FIN" \in net[k][i].flags
                 PROVE  FALSE
      OBVIOUS
    <3>1. SegAgrees(net[k][i], c, ISN[h], u)
      BY <1>0, <2>0 DEF AgreeInv
    <3> QED
      BY <3>1 DEF SegAgrees, Leaving, Ended
  <2> HIDE DEF k, c, t, u
  <2>8. InOrder(net'[h], t, u)
    BY <2>1, <2>2, <2>3, <2>5, TakenInOrder
  <2>9. InOrder(net'[k], u, t)
    BY <2>1, <2>2, <2>3, <2>6, <2>7, SentInOrder
  <2>10. InOrder(net'[h], tcb'[h], tcb'[k]) /\ InOrder(net'[k], tcb'[k], tcb'[h])
    BY <2>2, <2>8, <2>9 DEF t
  <2> QED
    BY <2>0, <2>10 DEF CloseInv, k
<1>3. ASSUME NEW h \in Host, SockStep(h) \/ AppStep(h)
      PROVE  UNCHANGED <<tcb, net>>
  BY <1>3 DEF SockStep, AppStep, HandleTCPWrite, HandleTCPStatus, AppOpen,
              AppWrite, AppRead, AppClose, tcpVars
<1>4. ASSUME NEW h \in Host, NetStep(h)
      PROVE  CloseInv'
  <2>1. Lose(h)
    <3>1. faults < MaxFaults /\ (Lose(h) \/ "duplicate" \in Faults \/ "reorder" \in Faults)
      BY <1>4 DEF NetStep, Lose, Duplicate, Reorder, Fault
    <3>2. MaxFaults # 0
      BY <1>0, <3>1, FaultAssumption
    <3> QED
      BY <3>1, <3>2 DEF KeepsOrder
  <2>2. tcb' = tcb /\ net[h] # <<>> /\ net' = [net EXCEPT ![h] = Tail(net[h])]
    BY <2>1 DEF Lose, Fault, tcpVars
  <2> SUFFICES ASSUME NEW k \in Host
               PROVE  InOrder(net'[k], tcb[k], tcb[Peer(k)])
    BY <2>2 DEF CloseInv
  <2>3. InOrder(net[k], tcb[k], tcb[Peer(k)])
    BY DEF CloseInv
  <2>4. CASE k # h
    <3>1. net'[k] = net[k]
      BY <1>0, <2>2, <2>4
    <3> QED
      BY <2>3, <3>1
  <2>5. CASE k = h
    <3> DEFINE s == net[h]
               c == tcb[h]
               u == tcb[Peer(h)]
    <3>1. net'[h] = Tail(s) /\ s \in Seq(Packet) /\ s # <<>>
      BY <1>0, <2>2
    <3> HIDE DEF s, c, u
    <3>2. \A i \in DOMAIN Tail(s) : i + 1 \in DOMAIN s /\ Tail(s)[i] = s[i + 1]
      BY <3>1
    <3>3. Len(s) = Len(Tail(s)) + 1 /\ \A i \in DOMAIN Tail(s) : i \in Nat
      BY <3>1
    <3>4. InOrder(s, c, u)
      BY <2>3, <2>5 DEF s, c, u
    <3>5. InOrder(Tail(s), c, u)
      BY <3>1, <3>2, <3>3, <3>4 DEF InOrder
    <3> QED
      BY <2>5, <3>1, <3>5 DEF c, u
  <2> QED
    BY <2>4, <2>5
<1> QED
  BY <1>1, <1>2, <1>3, <1>4 DEF Next, vars

\* A record is dropped only when the peer has seen both FINs, on every link that
\* keeps the order of what it delivers, be it one that loses segments.
THEOREM CloseIsOrderly ==
  ASSUME KeepsOrder
  PROVE  Spec => []OrderlyClose
<1>1. AgreementInv /\ CloseInv => OrderlyClose
  BY DEF CloseInv, InOrder, OrderlyClose, Ended
<1>2. Init => CloseInv
  BY CloseInit
<1>3. AgreementInv /\ AgreementInv' /\ CloseInv /\ [Next]_vars => CloseInv'
  BY CloseStep DEF AgreementInv, AckInv
<1> QED
  BY <1>1, <1>2, <1>3, AgreementHolds, PTL DEF Spec
=============================================================================
