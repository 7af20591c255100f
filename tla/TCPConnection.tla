---------------------------- MODULE TCPConnection ----------------------------
(***************************************************************************)
(* One TCP connection between two Minet hosts: on each host the tcp_module *)
(* process with its connection record, the socket that sock_module keeps   *)
(* for the connection, and the two FIFOs between these processes; between  *)
(* the hosts, everything under tcp_module, as a channel of segments that   *)
(* may lose, duplicate or reorder at most MaxFaults of them.               *)
(*                                                                         *)
(* Each action of a host's TCP process is one pass through the loop of     *)
(* main: one event taken from a FIFO and the transition function it leads  *)
(* to.  The send loop of establishedLoop is the exception: its iterations  *)
(* are steps of their own, during which that process does nothing else,    *)
(* because each of them hands a segment to the network before the next one *)
(* starts and any of them may end the process.                             *)
(***************************************************************************)
EXTENDS TCPSegment

CONSTANTS
  A, B,          \* the two hosts
  ISN,           \* ISN[h]: what getSeq returned for h's connection
  OpenAs,        \* OpenAs[h]: the calls, CONNECT or ACCEPT, h may open with
  WriteSizes,    \* WriteSizes[h]: sizes of a minet_write of h
  MaxBytes,      \* MaxBytes[h]: bytes the application of h writes at most
  Readers,       \* hosts whose application calls minet_read
  Closers,       \* hosts whose application calls minet_close
  Faults,        \* what the network may do: "lose", "duplicate", "reorder"
  MaxFaults      \* how often

Host == {A, B}

ASSUME HostAssumption  == A # B
ASSUME ISNAssumption   == ISN \in [Host -> Nat \ {0}]
ASSUME OpenAssumption  == OpenAs \in [Host -> SUBSET {"CONNECT", "ACCEPT"}]
ASSUME WriteAssumption == /\ WriteSizes \in [Host -> SUBSET (Nat \ {0})]
                          /\ MaxBytes \in [Host -> Nat]
ASSUME UserAssumption  == Readers \subseteq Host /\ Closers \subseteq Host
ASSUME FaultAssumption == /\ Faults \subseteq {"lose", "duplicate", "reorder"}
                          /\ MaxFaults \in Nat

Peer(h) == IF h = A THEN B ELSE A

VARIABLES
  tcb,       \* tcb[h]: the connection record; CLOSED when there is none
  up,        \* up[h]: tcp_module has not been ended by an uncaught exception
  net,       \* net[h]: segments under way to h
  toTcp,     \* toTcp[h]: FIFO from sock_module to tcp_module
  toSock,    \* toSock[h]: FIFO from tcp_module to sock_module
  sock,      \* sock[h]: status, receive bin and request queue (tcpq)
  app,       \* app[h]: bytes written, bytes passed on to a read of h or to
             \* the bin its reads are served from, end of file seen
  faults     \* network faults so far

vars == <<tcb, up, net, toTcp, toSock, sock, app, faults>>
tcpVars  == <<tcb, up>>
sockVars == <<sock, app>>

RequestType == {"CONNECT", "ACCEPT", "WRITE", "CLOSE"}
Request  == [type : RequestType \cup {"STATUS"}, data : Seq(Nat), bytes : Nat]
Response == [type : {"WRITE", "STATUS"}, data : Seq(Nat)]
Status   == {"FREE", "OPEN_PENDING", "CONNECTED", "READ_PENDING",
             "WRITE_PENDING", "CLOSED"}
Socket   == [status : Status, bin : Seq(Nat), tcpq : Seq(RequestType)]

Req(ty, d, n) == [type |-> ty, data |-> d, bytes |-> n]
WriteUp(d)    == [type |-> "WRITE", data |-> d]
StatusUp      == [type |-> "STATUS", data |-> <<>>]

TypeOK ==
  /\ tcb    \in [Host -> Record]
  /\ up     \in [Host -> BOOLEAN]
  /\ net    \in [Host -> Seq(Packet)]
  /\ toTcp  \in [Host -> Seq(Request)]
  /\ toSock \in [Host -> Seq(Response)]
  /\ sock   \in [Host -> Socket]
  /\ app    \in [Host -> [wrote : Nat, got : Seq(Nat), eof : BOOLEAN]]
  /\ faults \in Nat

Init ==
  /\ tcb    = [h \in Host |-> ClosedRecord(ISN[h])]
  /\ up     = [h \in Host |-> TRUE]
  /\ net    = [h \in Host |-> <<>>]
  /\ toTcp  = [h \in Host |-> <<>>]
  /\ toSock = [h \in Host |-> <<>>]
  /\ sock   = [h \in Host |-> [status |-> "FREE", bin |-> <<>>, tcpq |-> <<>>]]
  /\ app    = [h \in Host |-> [wrote |-> 0, got |-> <<>>, eof |-> FALSE]]
  /\ faults = 0

-----------------------------------------------------------------------------
(* main waits for an event; it takes a segment, or a request.              *)
Waiting(h)        == up[h] /\ tcb[h].room = 0
FromMux(h, tr)    == /\ Waiting(h) /\ net[h] # <<>>
                     /\ OnPacket(tcb[h].state, Head(net[h]).flags) = tr
FromSock(h, tr)   == /\ Waiting(h) /\ toTcp[h] # <<>>
                     /\ OnRequest(tcb[h].state, Head(toTcp[h]).type) = tr

(* MinetReceive from one FIFO, MinetSend of segments and of messages.      *)
TakePacket(h, out, msgs) ==
  /\ net' = [net EXCEPT ![h] = Tail(@), ![Peer(h)] = @ \o out]
  /\ toSock' = [toSock EXCEPT ![h] = @ \o msgs]
  /\ UNCHANGED <<up, toTcp, sockVars, faults>>

TakeRequest(h, out, msgs) ==
  /\ net' = [net EXCEPT ![Peer(h)] = @ \o out]
  /\ toTcp' = [toTcp EXCEPT ![h] = Tail(@)]
  /\ toSock' = [toSock EXCEPT ![h] = @ \o msgs]
  /\ UNCHANGED <<up, sockVars, faults>>

Goto(t, s) == [t EXCEPT !.state = s]

IgnorePacket(h) ==
  /\ FromMux(h, "ignore")
  /\ TakePacket(h, <<>>, <<>>)
  /\ UNCHANGED tcb

IgnoreRequest(h) ==
  /\ FromSock(h, "ignore")
  /\ TakeRequest(h, <<>>, <<>>)
  /\ UNCHANGED tcb

-----------------------------------------------------------------------------
(* Opening.                                                                *)

closedToListen(h) ==
  /\ FromSock(h, "Listen")
  /\ tcb' = [tcb EXCEPT ![h] = Goto(@, "LISTEN")]
  /\ TakeRequest(h, <<>>, <<StatusUp>>)

\* The segment goes out twice, "a fake one" and "a real one".
closedToSynSent(h) ==
  /\ FromSock(h, "SynSent")
  /\ LET out == Syn(tcb[h])
     IN  /\ tcb' = [tcb EXCEPT ![h] = Goto(PostSend(@, out, 1), "SYN_SENT")]
         /\ TakeRequest(h, <<out, out>>, <<StatusUp>>)

listenToSynRcvd(h) ==
  /\ FromMux(h, "SynRcvd")
  /\ LET t   == PostRecv(tcb[h], Head(net[h]), 1)
         out == SynAck(t)
     IN  /\ tcb' = [tcb EXCEPT ![h] = Goto(PostSend(t, out, 1), "SYN_RCVD")]
         /\ TakePacket(h, <<out>>, <<>>)

\* The payload of the packet, if it has one, is counted and not kept.
synRcvdToEstablished(h) ==
  /\ FromMux(h, "SynRcvdEstablished")
  /\ LET p == Head(net[h])
     IN  tcb' = [tcb EXCEPT ![h] =
                   Goto(PostRecv(@, p, SegLen(p)), "ESTABLISHED")]
  /\ TakePacket(h, <<>>, <<WriteUp(<<>>)>>)

synSentToEstablished(h) ==
  /\ FromMux(h, "SynSentEstablished")
  /\ LET t   == PostRecv(tcb[h], Head(net[h]), 1)
         out == Ack(t, <<>>)
     IN  /\ tcb' = [tcb EXCEPT ![h] = Goto(PostSend(t, out, 0), "ESTABLISHED")]
         /\ TakePacket(h, <<out>>, <<WriteUp(<<>>)>>)

-----------------------------------------------------------------------------
(* Data transfer: establishedLoop.                                         *)

\* A segment: the payload is taken out first, so that postRecv measures what
\* is left in the packet; the acknowledgement is answered and the window
\* moved; what is then sent is the send loop's business.
establishedLoopPacket(h) ==
  /\ FromMux(h, "Loop")
  /\ LET p      == Head(net[h])
         t0     == tcb[h]
         t1     == PostRecv(t0, p, Residue(p))
         accept == p.data # <<>> /\ Accepts(t0, p)
         recv   == IF accept THEN t0.recvBuf \o p.data ELSE t0.recvBuf
         t2     == [t1 EXCEPT
                      !.recvBuf = recv,
                      !.sendBuf = EraseFront(@, t1.lastAcked - t0.lastAcked),
                      !.tmr     = t1.lastAcked # t1.lastSent]
     IN  /\ tcb' = [tcb EXCEPT ![h] = [t2 EXCEPT !.room = SendRoom(t2)]]
         /\ TakePacket(h,
              IF p.data # <<>> THEN <<Ack(t1, <<>>)>> ELSE <<>>,
              IF accept /\ t0.recvBuf = <<>> THEN <<WriteUp(recv)>> ELSE <<>>)

\* A WRITE taken without the STATUS sock_module waits for (mutant).
establishedLoopWriteSilent(h) ==
  /\ FromSock(h, "LoopWrite")
  /\ LET t == [tcb[h] EXCEPT !.sendBuf = @ \o Head(toTcp[h]).data]
     IN  tcb' = [tcb EXCEPT ![h] = [t EXCEPT !.room = SendRoom(t)]]
  /\ TakeRequest(h, <<>>, <<>>)

establishedLoopWrite(h) ==
  /\ FromSock(h, "LoopWrite")
  /\ LET t == [tcb[h] EXCEPT !.sendBuf = @ \o Head(toTcp[h]).data]
     IN  tcb' = [tcb EXCEPT ![h] = [t EXCEPT !.room = SendRoom(t)]]
  /\ TakeRequest(h, <<>>, <<StatusUp>>)

\* sock_module tells how many bytes of the last WRITE it took.
establishedLoopStatus(h) ==
  /\ FromSock(h, "LoopStatus")
  /\ LET left == EraseFront(tcb[h].recvBuf, Head(toTcp[h]).bytes)
     IN  /\ tcb' = [tcb EXCEPT ![h].recvBuf = left]
         /\ TakeRequest(h, <<>>,
              IF left # <<>> THEN <<WriteUp(left)>> ELSE <<>>)

\* One iteration of "while(room > 0)".  Extract removes what it returns from
\* the send buffer, at the offset of the bytes under way.
SendSegment(h) ==
  /\ up[h] /\ tcb[h].room > 0
  /\ Unacked(tcb[h]) <= Len(tcb[h].sendBuf)
  /\ LET t     == tcb[h]
         off   == Unacked(t)
         bytes == MinOf(t.room, MSS)
         out   == Ack(t, Extracted(t.sendBuf, off, bytes))
         sent  == PostSend(t, out, Len(out.data))
     IN  /\ tcb' = [tcb EXCEPT ![h] =
                      [sent EXCEPT !.sendBuf = AfterExtract(@, off, bytes),
                                   !.tmr     = TimerOnSend(t),
                                   !.room    = @ - bytes]]
         /\ net' = [net EXCEPT ![Peer(h)] = Append(@, out)]
  /\ UNCHANGED <<up, toTcp, toSock, sockVars, faults>>

\* std::string::substr throws out_of_range past the end of the buffer, and
\* nothing catches it.
ExtractThrows(h) ==
  /\ up[h] /\ tcb[h].room > 0
  /\ Unacked(tcb[h]) > Len(tcb[h].sendBuf)
  /\ up' = [up EXCEPT ![h] = FALSE]
  /\ UNCHANGED <<tcb, net, toTcp, toSock, sockVars, faults>>

-----------------------------------------------------------------------------
(* Closing.  postSend leaves datalen uninitialised for a segment that is   *)
(* neither SYN nor ACK, as fin() makes it.                                 *)

SendFin(h, next) ==
  LET out == Fin(tcb[h])
  IN  /\ \E g \in GarbageLen :
           tcb' = [tcb EXCEPT ![h] = Goto(PostSend(@, out, g), next)]
      /\ TakeRequest(h, <<out>>, <<StatusUp>>)

establishedToFinWait1(h) == FromSock(h, "FinWait1") /\ SendFin(h, "FIN_WAIT1")
\* Closing without LAST_ACK (mutant).
closeWaitToClosed(h)     == FromSock(h, "LastAck")  /\ SendFin(h, "CLOSED")
closeWaitToLastAck(h)    == FromSock(h, "LastAck")  /\ SendFin(h, "LAST_ACK")

finWait1ToFinWait2(h) ==
  /\ FromMux(h, "FinWait2")
  /\ LET p == Head(net[h])
     IN  tcb' = [tcb EXCEPT ![h] =
                   Goto(PostRecv(@, p, SegLen(p)), "FIN_WAIT2")]
  /\ TakePacket(h, <<>>, <<>>)

\* A FIN is answered with an acknowledgement.
AnswerFin(h, next, msgs) ==
  LET t   == PostRecv(tcb[h], Head(net[h]), 1)
      out == Ack(t, <<>>)
  IN  /\ tcb' = [tcb EXCEPT ![h] = [Goto(PostSend(t, out, 0), next) EXCEPT
                                      !.tmr = @ \/ next = "TIME_WAIT"]]
      /\ TakePacket(h, <<out>>, msgs)

\* A FIN taken in FIN_WAIT2 without an answer (mutant).
finWait2ToTimeWaitSilent(h) ==
  /\ FromMux(h, "TimeWait")
  /\ tcb' = [tcb EXCEPT ![h] =
               Goto(PostRecv(@, Head(net[h]), 1), "TIME_WAIT")]
  /\ TakePacket(h, <<>>, <<>>)
finWait2ToTimeWait(h) ==
  FromMux(h, "TimeWait") /\ AnswerFin(h, "TIME_WAIT", <<>>)
establishedToCloseWait(h) ==
  FromMux(h, "CloseWait") /\ AnswerFin(h, "CLOSE_WAIT", <<WriteUp(<<>>)>>)

\* The record is then erased by cleanClosedConnection.
lastAckToClosed(h) ==
  /\ FromMux(h, "Closed")
  /\ LET p == Head(net[h])
     IN  tcb' = [tcb EXCEPT ![h] = Goto(PostRecv(@, p, SegLen(p)), "CLOSED")]
  /\ TakePacket(h, <<>>, <<>>)

-----------------------------------------------------------------------------
(* sock_module and the application, which waits for the answer of each call*)
(* it makes.                                                               *)

\* SendTCPRequest keeps a record of every request but STATUS in tcpq.
SendTCPRequest(h, r, s) ==
  /\ toTcp' = [toTcp EXCEPT ![h] = Append(@, r)]
  /\ sock' = [sock EXCEPT ![h] =
                IF r.type = "STATUS" THEN s
                ELSE [s EXCEPT !.tcpq = Append(@, r.type)]]

AppOpen(h) ==
  /\ sock[h].status = "FREE"
  /\ \E ty \in OpenAs[h] :
       SendTCPRequest(h, Req(ty, <<>>, 0),
                      [sock[h] EXCEPT !.status = "OPEN_PENDING"])
  /\ UNCHANGED <<tcpVars, net, toSock, app, faults>>

AppWrite(h) ==
  /\ sock[h].status = "CONNECTED"
  /\ \E n \in WriteSizes[h] :
       /\ app[h].wrote + n <= MaxBytes[h]
       /\ app' = [app EXCEPT ![h].wrote = @ + n]
       /\ SendTCPRequest(h,
            Req("WRITE", [i \in 1..n |-> app[h].wrote + i], 0),
            [sock[h] EXCEPT !.status = "WRITE_PENDING"])
  /\ UNCHANGED <<tcpVars, net, toSock, faults>>

\* A read with something in the bin returns it at once, and leaves it there.
AppRead(h) ==
  /\ h \in Readers
  /\ sock[h].status = "CONNECTED" /\ sock[h].bin = <<>> /\ ~app[h].eof
  /\ sock' = [sock EXCEPT ![h].status = "READ_PENDING"]
  /\ UNCHANGED <<tcpVars, net, toTcp, toSock, app, faults>>

\* CloseSocket frees the socket before TCP has seen the request.
AppClose(h) ==
  /\ h \in Closers
  /\ sock[h].status = "CONNECTED"
  /\ SendTCPRequest(h, Req("CLOSE", <<>>, 0),
                    [sock[h] EXCEPT !.status = "CLOSED", !.bin = <<>>])
  /\ UNCHANGED <<tcpVars, net, toSock, app, faults>>

\* The waits that a WRITE from TCP ends; the default case ends none.
\* A default case that ends the wait of a write too (mutant).
EndsEveryWait == {"OPEN_PENDING", "READ_PENDING", "WRITE_PENDING"}
EndedByWrite  == {"OPEN_PENDING", "READ_PENDING"}

\* HandleTCPWrite: what becomes of the data is up to the socket's status, and
\* the answer always says how many bytes TCP may drop.
HandleTCPWrite(h) ==
  /\ toSock[h] # <<>> /\ Head(toSock[h]).type = "WRITE"
  /\ LET d     == Head(toSock[h]).data
         s     == sock[h]
         taken == s.status \in {"CONNECTED", "READ_PENDING"}
     IN  /\ SendTCPRequest(h,
              Req("STATUS", <<>>, IF s.status = "CLOSED" THEN 0 ELSE Len(d)),
              [s EXCEPT
                 !.status = IF @ \in EndedByWrite
                            THEN "CONNECTED" ELSE @,
                 !.bin    = IF s.status = "CONNECTED" THEN @ \o d ELSE @])
         /\ app' = [app EXCEPT
              ![h].got = IF taken THEN @ \o d ELSE @,
              ![h].eof = @ \/ (s.status = "READ_PENDING" /\ d = <<>>)]
  /\ toSock' = [toSock EXCEPT ![h] = Tail(@)]
  /\ UNCHANGED <<tcpVars, net, faults>>

\* HandleTCPStatus: a STATUS answers the oldest request in tcpq.
HandleTCPStatus(h) ==
  /\ toSock[h] # <<>> /\ Head(toSock[h]).type = "STATUS"
  /\ sock[h].tcpq # <<>>
  /\ sock' = [sock EXCEPT
       ![h].tcpq   = Tail(@),
       ![h].status = IF Head(sock[h].tcpq) = "WRITE" THEN "CONNECTED" ELSE @]
  /\ toSock' = [toSock EXCEPT ![h] = Tail(@)]
  /\ UNCHANGED <<tcpVars, net, toTcp, app, faults>>

-----------------------------------------------------------------------------
(* The network under the TCP modules.                                      *)

Fault(h, kind, segments) ==
  /\ kind \in Faults /\ faults < MaxFaults
  /\ net[h] # <<>>
  /\ net' = [net EXCEPT ![h] = segments]
  /\ faults' = faults + 1
  /\ UNCHANGED <<tcpVars, toTcp, toSock, sockVars>>

Lose(h)      == Fault(h, "lose", Tail(net[h]))
Duplicate(h) == Fault(h, "duplicate", Append(net[h], Head(net[h])))
Reorder(h)   == Fault(h, "reorder", Append(Tail(net[h]), Head(net[h])))

-----------------------------------------------------------------------------

TcpStep(h) ==
  \/ IgnorePacket(h)          \/ IgnoreRequest(h)
  \/ closedToListen(h)        \/ closedToSynSent(h)
  \/ listenToSynRcvd(h)       \/ synRcvdToEstablished(h)
  \/ synSentToEstablished(h)
  \/ establishedLoopPacket(h) \/ establishedLoopWrite(h)
  \/ establishedLoopStatus(h) \/ SendSegment(h) \/ ExtractThrows(h)
  \/ establishedToFinWait1(h) \/ closeWaitToLastAck(h)
  \/ finWait1ToFinWait2(h)    \/ finWait2ToTimeWait(h)
  \/ establishedToCloseWait(h) \/ lastAckToClosed(h)

SockStep(h) == HandleTCPWrite(h) \/ HandleTCPStatus(h)
AppStep(h)  == AppOpen(h) \/ AppWrite(h) \/ AppRead(h) \/ AppClose(h)
NetStep(h)  == Lose(h) \/ Duplicate(h) \/ Reorder(h)

Next == \E h \in Host : TcpStep(h) \/ SockStep(h) \/ AppStep(h) \/ NetStep(h)

Spec == Init /\ [][Next]_vars

(* Each process keeps taking events; the FIFOs it can take them from are    *)
(* finitely filled, so none is left waiting forever.                       *)
FairSpec == Spec /\ \A h \in Host : WF_vars(TcpStep(h)) /\ WF_vars(SockStep(h))
-----------------------------------------------------------------------------
(* Properties.                                                             *)

Synchronized == {"ESTABLISHED", "FIN_WAIT1", "FIN_WAIT2", "TIME_WAIT",
                 "CLOSE_WAIT", "LAST_ACK"}

\* What h regards as acknowledged its peer has received, and what the peer has
\* received h has sent, whatever the network does to the segments: postRecv
\* checks no acknowledgement number against last_sent, so this rests on the
\* numbers every segment under way carries.
AckChain ==
  \A h \in Host :
    /\ tcb[Peer(h)].lastRecvd <= tcb[h].lastSent
    /\ tcb[h].lastAcked <= MaxOf(ISN[h], tcb[Peer(h)].lastRecvd)

\* The reason for AckChain: however late, doubled or out of turn a segment
\* arrives, its sender has by then sent every byte it carries and received
\* every byte it acknowledges.
BackedBy(t, p) == /\ p.seq + SegLen(p) - 1 <= t.lastSent
                  /\ p.ackno <= t.lastRecvd + 1
SegmentsBacked ==
  \A h \in Host : \A i \in DOMAIN net[h] : BackedBy(tcb[Peer(h)], net[h][i])

\* While connected, a sender has at most N bytes under way, although the
\* unsigned room of the send loop may wrap around: a loop that starts with a
\* wrapped room ends the process before it sends anything.
WindowRespected ==
  \A h \in Host :
    up[h] /\ tcb[h].state = "ESTABLISHED" => Unacked(tcb[h]) <= Window

\* Bytes under way are covered by a running timer, once the handshake's own
\* acknowledgement is in.
TimerCovers ==
  \A h \in Host :
    tcb[h].state = "ESTABLISHED" /\ tcb[h].lastAcked < tcb[h].lastSent
      => tcb[h].tmr

\* A host that thinks the connection is open has exchanged SYNs with a peer
\* that is not still opening it, and that has dropped its record only if this
\* host has started to close: a segment that is late or doubled opens nothing.
HandshakeAgreed ==
  \A h \in Host :
    tcb[h].state \in Synchronized =>
      /\ tcb[h].lastRecvd > ISN[Peer(h)]
      /\ tcb[Peer(h)].lastRecvd > ISN[h]
      /\ tcb[Peer(h)].state \notin {"LISTEN", "SYN_SENT"}
      /\ tcb[Peer(h)].state = "CLOSED" =>
           tcb[h].state \in {"FIN_WAIT1", "FIN_WAIT2", "TIME_WAIT"}

\* A host learns of a close only from a peer that closed first: no accident of
\* delivery makes both hosts the passive side.
CloseAgreed ==
  \A h \in Host :
    tcb[h].state \in {"CLOSE_WAIT", "LAST_ACK"} =>
      tcb[Peer(h)].state \in {"FIN_WAIT1", "FIN_WAIT2", "TIME_WAIT"}

\* On a link that keeps the order of segments, a record is dropped only when
\* the peer has seen both FINs.  (Any acknowledgement ends LAST_ACK, so this
\* needs the order.)
OrderlyClose ==
  \A h \in Host :
    tcb[h].state = "CLOSED" /\ tcb[h].lastRecvd > 0
      => tcb[Peer(h)].state = "TIME_WAIT"

\* The application sees a byte it has not seen before only if it is later in
\* the stream than all it has seen: bytes may be lost, and repeated, but none
\* arrives out of its turn.  Only a segment that arrives twice may fill in what
\* a stale STATUS made tcp_module erase of its first copy, and so be out of
\* turn by less than the length of a segment.
Slack == IF "duplicate" \in Faults THEN MSS ELSE 1

FreshInOrder ==
  \A h \in Host : \A i \in DOMAIN app[h].got :
    \/ \E j \in 1..(i - 1) : app[h].got[j] = app[h].got[i]
    \/ \A j \in 1..(i - 1) : app[h].got[j] < app[h].got[i] + Slack

\* tcpq pairs answers with requests by position only.  When an application
\* gets its socket back, nothing it asked before is still unanswered.
AnswersInStep ==
  \A h \in Host :
    sock[h].status \in {"CONNECTED", "READ_PENDING"} => sock[h].tcpq = <<>>

-----------------------------------------------------------------------------
(* Progress on a link without faults, under FairSpec.                      *)

\* An open that reaches SYN_RCVD completes: the accept of this host and the
\* connect of the other both return.
OpensReturn ==
  \A h \in Host :
    tcb[h].state = "SYN_RCVD" ~> \A k \in Host : sock[k].status # "OPEN_PENDING"

\* A write returns, unless the peer's FIN was faster: CLOSE_WAIT has no
\* transition for a WRITE, and the application then waits forever.
WritesReturn ==
  \A h \in Host :
    sock[h].status = "WRITE_PENDING" ~>
      sock[h].status # "WRITE_PENDING" \/ tcb[h].state = "CLOSE_WAIT" \/ ~up[h]

\* The passive side of a close gets rid of its record: the acknowledgement it
\* waits for in LAST_ACK comes, since its peer cannot have ended meanwhile.
PassiveCloseEnds ==
  \A h \in Host : tcb[h].state = "LAST_ACK" ~> tcb[h].state = "CLOSED"

-----------------------------------------------------------------------------
(* What comments of the source say and the code does not do.  Each of these*)
(* is violated; README.md tells how.                                       *)

\* tcp_transit.cc says of postRecv "change lastAcked and lastRecvd after
\* receiving packet; return true if it accepts the data": an accepted segment
\* leaves last_recvd at its last byte.
AcceptedIsCounted ==
  [][\A h \in Host :
       establishedLoopPacket(h) /\ Accepts(tcb[h], Head(net[h])) =>
         tcb'[h].lastRecvd >= Head(net[h]).seq + Len(Head(net[h]).data) - 1]_vars

\* tcp_transit.cc says of the send loop "send out the left over data in the
\* buffer, it may be blocked by window size of buffer size": it sends what the
\* buffer holds, and never reaches past its end.
LoopStaysInBuffer == \A h \in Host : up[h]

\* minet_socket.cc says of minet_read "zero indicates that the sender has
\* closed the connection": a read that is waiting after the peer's FIN has the
\* message that ends it on its way.
ReaderSeesEnd ==
  \A h \in Host :
    tcb[h].state = "CLOSE_WAIT" /\ sock[h].status = "READ_PENDING"
       => toSock[h] # <<>>

\* tcp_transit.cc sets a timer in finWait2ToTimeWait, and timeWaitToClosed runs
\* "after the 2 timeouts": TIME_WAIT ends.
TimeWaitEnds ==
  \A h \in Host : tcb[h].state = "TIME_WAIT" ~> tcb[h].state = "CLOSED"
=============================================================================
