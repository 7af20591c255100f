---------------------------- MODULE SocketTable -----------------------------
(***************************************************************************)
(* Many connections of one host: sock_module with its table of sockets,    *)
(* its ports and its queue of unanswered requests; tcp_module with its     *)
(* list of connection records, of which each message must find the right   *)
(* one; the FIFOs between the two; and the one application process, which  *)
(* makes one library call after the other (minet_socket.cc sends a request *)
(* and waits for the answer).  Numbers and payloads are TCPConnection's    *)
(* business: a record here has a state and a number of bytes that          *)
(* sock_module has not taken yet, and any segment may arrive at any time.  *)
(*                                                                         *)
(* A connection is its local port and its remote end.  NoPort and AnyEnd   *)
(* are PORT_ANY and IP_ADDRESS_ANY, and also what a new socket holds; the  *)
(* local address is the host's own as soon as there is a port.             *)
(***************************************************************************)
EXTENDS TCPEvents, Integers, SequencesExt

CONSTANTS
  NumSocks,      \* sockets 1..NumSocks; NUM_SOCKS in sock.h
  Ports,         \* port numbers; 1..NUM_PORTS
  Remote,        \* remote ends: address and port
  AnyEnd, NoCall,
  BinSize,       \* bytes that fit in a socket's bin; BIN_SIZE in sock.h
  MaxCalls,      \* MaxCalls[op]: bound on the calls of that name
  MaxUnread      \* bound on the bytes a record holds for sock_module

NoPort == 0
Op == {"SOCKET", "BIND", "LISTEN", "ACCEPT", "CONNECT", "READ", "WRITE",
       "CLOSE"}

ASSUME SocksAssumption  == NumSocks \in Nat \ {0}
ASSUME PortsAssumption  == Ports \subseteq Nat \ {NoPort}
ASSUME RemoteAssumption == AnyEnd \notin Remote
ASSUME BoundsAssumption ==
  {BinSize, MaxUnread} \subseteq Nat /\ MaxCalls \in [Op -> Nat]

Sock == 1..NumSocks

VARIABLES
  socks,     \* socks[s]: status, connection and bytes in the bin
  owner,     \* owner[p]: the socket port p was assigned for, 0 for none
  tcpq,      \* requests that wait for a STATUS: type and socket
  toTcp, toSock,
  clist,     \* connection records of tcp_module
  call,      \* the library call the application waits for
  toApp,     \* FIFO from sock_module to the application
  calls      \* calls made so far

sockSide == <<socks, owner, tcpq>>
appSide  == <<call, calls>>
vars     == <<sockSide, toTcp, toSock, clist, toApp, appSide>>

-----------------------------------------------------------------------------
(* Connections, and which of them match.                                   *)

Connection    == [port : Ports \cup {NoPort}, end : Remote \cup {AnyEnd}]
Unconnected   == [port |-> NoPort, end |-> AnyEnd]

MatchesSource(c, d) == c.port = NoPort \/ d.port = NoPort \/ c.port = d.port
MatchesDest(c, d)   == c.end = AnyEnd \/ d.end = AnyEnd \/ c.end = d.end
Matches(c, d)       == MatchesSource(c, d) /\ MatchesDest(c, d)

\* associateConnection: the first record that matches, but a LISTEN record only
\* if there is no other, and of these the last.
Associate(list, c) ==
  LET exact == SelectInSeq(list, LAMBDA r : r.state # "LISTEN"
                                              /\ Matches(r.conn, c))
  IN  IF exact # 0 THEN exact
      ELSE SelectLastInSeq(list, LAMBDA r : r.state = "LISTEN"
                                              /\ MatchesSource(r.conn, c))

\* cleanClosedConnection erases the first CLOSED record.
Clean(list) == RemoveFirstMatch(list, LAMBDA r : r.state = "CLOSED")

-----------------------------------------------------------------------------
SockStatus == {"FREE", "UNBOUND", "BOUND", "LISTENING", "ACCEPT_PENDING",
               "CONNECT_PENDING", "CONNECTED", "READ_PENDING", "WRITE_PENDING"}
RequestType == {"CONNECT", "ACCEPT", "WRITE", "CLOSE"}

SockRecord == [status : SockStatus, conn : Connection, bin : 0..BinSize]
Closed     == [status |-> "FREE", conn |-> Unconnected, bin |-> 0]
TcpRecord  == [conn : Connection, state : State, unread : 0..MaxUnread]
Message    == [type : RequestType \cup {"STATUS"}, conn : Connection,
               bytes : 0..MaxUnread]
Calls     == [op : Op, sock : Sock \cup {0}]

ASSUME NoCallAssumption == NoCall \notin Calls

Msg(ty, c, n) == [type |-> ty, conn |-> c, bytes |-> n]

TypeOK ==
  /\ socks  \in [Sock -> SockRecord]
  /\ owner  \in [Ports -> Sock \cup {0}]
  /\ tcpq   \in Seq([type : RequestType, sock : Sock])
  /\ toTcp  \in Seq(Message)
  /\ toSock \in Seq(Message)
  /\ clist  \in Seq(TcpRecord)
  /\ call   \in Calls \cup {NoCall}
  /\ toApp  \in Seq(Calls)
  /\ calls  \in [Op -> Nat]

Init ==
  /\ socks = [s \in Sock |-> Closed]
  /\ owner = [p \in Ports |-> 0]
  /\ tcpq = <<>> /\ toTcp = <<>> /\ toSock = <<>> /\ clist = <<>>
  /\ call = NoCall /\ toApp = <<>> /\ calls = [op \in Op |-> 0]

-----------------------------------------------------------------------------
(* tcp_module, one event at a time.                                        *)

\* What the transition functions do to the state; the others keep it.
NextState == [SynRcvd |-> "SYN_RCVD", SynRcvdEstablished |-> "ESTABLISHED",
              SynSentEstablished |-> "ESTABLISHED", CloseWait |-> "CLOSE_WAIT",
              FinWait2 |-> "FIN_WAIT2", TimeWait |-> "TIME_WAIT",
              Closed |-> "CLOSED", SynSent |-> "SYN_SENT", Listen |-> "LISTEN",
              FinWait1 |-> "FIN_WAIT1", LastAck |-> "LAST_ACK",
              LoopWrite |-> "ESTABLISHED"]

Goto(i, tr, list) == [list EXCEPT ![i].state = NextState[tr]]

(* A segment with flags f, of connection c, finds its record and selects a *)
(* transition.                                                             *)
Found(c) == Associate(clist, c)
Selected(c, f) == IF Found(c) = 0 THEN "ignore"
                  ELSE OnPacket(clist[Found(c)].state, f)

\* The record that listens becomes the record of the connection.
TakeSyn(c, f) ==
  /\ Selected(c, f) = "SynRcvd"
  /\ clist' = Goto(Found(c), "SynRcvd", [clist EXCEPT ![Found(c)].conn = c])
  /\ UNCHANGED <<sockSide, toTcp, toSock, toApp, appSide>>

\* The end of a handshake, and a FIN, go up as a WRITE without data.
TellSock(c, f) ==
  /\ Selected(c, f) \in
       {"SynRcvdEstablished", "SynSentEstablished", "CloseWait"}
  /\ clist' = Goto(Found(c), Selected(c, f), clist)
  /\ toSock' = Append(toSock, Msg("WRITE", clist[Found(c)].conn, 0))
  /\ UNCHANGED <<sockSide, toTcp, toApp, appSide>>

\* Data in order; it goes up at once if all before it has been taken.
TakeData(c, f) ==
  /\ Selected(c, f) = "Loop"
  /\ LET had == clist[Found(c)].unread
     IN  /\ had < MaxUnread
         /\ clist' = [clist EXCEPT ![Found(c)].unread = had + 1]
         /\ toSock' = IF had > 0 THEN toSock
                      ELSE Append(toSock, Msg("WRITE", clist[Found(c)].conn, 1))
  /\ UNCHANGED <<sockSide, toTcp, toApp, appSide>>

\* The steps of closing that sock_module is not told of.
CloseFurther(c, f) ==
  /\ Selected(c, f) \in {"FinWait2", "TimeWait", "Closed"}
  /\ clist' = Clean(Goto(Found(c), Selected(c, f), clist))
  /\ UNCHANGED <<sockSide, toTcp, toSock, toApp, appSide>>

(* A request: CONNECT and ACCEPT add a record first, and then look for one *)
(* like any other.                                                         *)
Request   == Head(toTcp)
Candidates ==
  IF Request.type \in {"CONNECT", "ACCEPT"}
  THEN Append(clist, [conn |-> Request.conn, state |-> "CLOSED", unread |-> 0])
  ELSE clist
Chosen    == Associate(Candidates, Request.conn)
Wanted    == IF Chosen = 0 THEN "ignore"
             ELSE OnRequest(Candidates[Chosen].state, Request.type)

TakesRequest == /\ toTcp # <<>>
                /\ toTcp' = Tail(toTcp)
                /\ UNCHANGED <<sockSide, toApp, appSide>>

IgnoreRequest ==
  /\ TakesRequest
  /\ Wanted = "ignore"
  /\ clist' = Clean(Candidates)
  /\ UNCHANGED toSock

\* Every request with a transition, but STATUS, is answered with a STATUS.
DoRequest ==
  /\ TakesRequest
  /\ Wanted \notin {"ignore", "LoopStatus"}
  /\ clist' = Clean(Goto(Chosen, Wanted, Candidates))
  /\ toSock' = Append(toSock, Msg("STATUS", Candidates[Chosen].conn, 0))

\* What sock_module has taken is dropped, what is left goes up again.
TakeStatus ==
  /\ TakesRequest
  /\ Wanted = "LoopStatus"
  /\ LET left == Max({0, clist[Chosen].unread - Request.bytes})
     IN  /\ clist' = [clist EXCEPT ![Chosen].unread = left]
         /\ toSock' = IF left = 0 THEN toSock ELSE
              Append(toSock, Msg("WRITE", clist[Chosen].conn, left))

-----------------------------------------------------------------------------
(* sock_module: messages of tcp_module.                                    *)

FreeSocks == {s \in Sock : socks[s].status = "FREE"}
LowestOf(S) == CHOOSE s \in S : \A t \in S : s <= t

\* FindConnection: the connection itself, or a socket that accepts on its port.
\* "0" stands for no such socket.
FoundBy(c) ==
  {s \in Sock : \/ socks[s].conn = c
                \/ /\ socks[s].status = "ACCEPT_PENDING"
                   /\ socks[s].conn = [port |-> c.port, end |-> AnyEnd]}
FindConnection(c) == IF FoundBy(c) = {} THEN 0 ELSE LowestOf(FoundBy(c))

Reply(op, s) == Append(toApp, [op |-> op, sock |-> s])

FromTcp(type) == toSock # <<>> /\ Head(toSock).type = type
Consumed(n) ==
  /\ toSock' = Tail(toSock)
  /\ toTcp' = Append(toTcp, Msg("STATUS", Head(toSock).conn, n))

(* HandleTCPWrite, by the status of the socket that is found.              *)
WriteFor(s, statuses) ==
  /\ FromTcp("WRITE")
  /\ s = FindConnection(Head(toSock).conn)
  /\ s # 0 /\ socks[s].status \in statuses
  /\ UNCHANGED <<owner, tcpq, clist, appSide>>

WriteForNobody ==
  /\ FromTcp("WRITE") /\ FindConnection(Head(toSock).conn) = 0
  /\ Consumed(0)
  /\ UNCHANGED <<sockSide, clist, toApp, appSide>>

\* A bin without a limit (mutant).
FitsAny(n, bin) == n
Fits(n, bin)    == Min({n, BinSize - bin})

WriteToBin(s) ==
  /\ WriteFor(s, {"CONNECTED"})
  /\ LET n == Fits(Head(toSock).bytes, socks[s].bin)
     IN  socks' = [socks EXCEPT ![s].bin = @ + n] /\ Consumed(n)
  /\ UNCHANGED toApp

\* A read stays pending: the SetStatus is forgotten (mutant).
WriteToReaderAgain(s) ==
  /\ WriteFor(s, {"READ_PENDING"})
  /\ toApp' = Reply("READ", s)
  /\ Consumed(Head(toSock).bytes)
  /\ UNCHANGED socks
WriteToReader(s) ==
  /\ WriteFor(s, {"READ_PENDING"})
  /\ socks' = [socks EXCEPT ![s].status = "CONNECTED"]
  /\ toApp' = Reply("READ", s)
  /\ Consumed(Head(toSock).bytes)

\* The socket listens again, and a new one gets the connection.
WriteToAccept(s) ==
  /\ WriteFor(s, {"ACCEPT_PENDING"})
  /\ FreeSocks # {}
  /\ LET new == LowestOf(FreeSocks)
     IN  /\ socks' = [socks EXCEPT
                        ![s].status = "LISTENING",
                        ![new] = [status |-> "CONNECTED", bin |-> 0,
                                  conn |-> Head(toSock).conn]]
         /\ toApp' = Reply("ACCEPT", new)
  /\ Consumed(Head(toSock).bytes)

\* No socket is left for the connection: the application is not told.
WriteToAcceptFull(s) ==
  /\ WriteFor(s, {"ACCEPT_PENDING"})
  /\ FreeSocks = {}
  /\ socks' = [socks EXCEPT ![s].status = "LISTENING"]
  /\ Consumed(Head(toSock).bytes)
  /\ UNCHANGED toApp

WriteToConnect(s) ==
  /\ WriteFor(s, {"CONNECT_PENDING"})
  /\ socks' = [socks EXCEPT ![s].status = "CONNECTED",
                            ![s].conn = Head(toSock).conn]
  /\ toApp' = Reply("CONNECT", s)
  /\ Consumed(Head(toSock).bytes)

\* Any other status: the data is dropped and reported as taken.
WriteDropped(s) ==
  /\ WriteFor(s, SockStatus \ {"CONNECTED", "READ_PENDING", "ACCEPT_PENDING",
                               "CONNECT_PENDING"})
  /\ Consumed(Head(toSock).bytes)
  /\ UNCHANGED <<socks, toApp>>

HandleTCPWrite ==
  \/ WriteForNobody
  \/ \E s \in Sock :
       \/ WriteToBin(s)        \/ WriteToReader(s)  \/ WriteToAccept(s)
       \/ WriteToAcceptFull(s) \/ WriteToConnect(s) \/ WriteDropped(s)

\* An answer to a CLOSE passed on as well (mutant).
PassesOnClose == {"WRITE", "CLOSE"}
PassedOn      == {"WRITE"}

\* HandleTCPStatus: the answer to the oldest request in tcpq.  tcp_module sends
\* no errors, so only the answer to a WRITE is passed on.
HandleTCPStatus ==
  /\ FromTcp("STATUS") /\ tcpq # <<>>
  /\ LET q == Head(tcpq)
     IN  IF q.type \in PassedOn
         THEN /\ socks' = [socks EXCEPT ![q.sock].status = "CONNECTED"]
              /\ toApp' = Reply("WRITE", q.sock)
         ELSE UNCHANGED <<socks, toApp>>
  /\ tcpq' = Tail(tcpq)
  /\ toSock' = Tail(toSock)
  /\ UNCHANGED <<owner, toTcp, clist, appSide>>

-----------------------------------------------------------------------------
(* sock_module: requests of the application, ProcessAppRequest.  Those it  *)
(* refuses change nothing and are left out.                                *)

Makes(op, s) ==
  /\ call = NoCall /\ calls[op] < MaxCalls[op]
  /\ call' = [op |-> op, sock |-> s]
  /\ calls' = [calls EXCEPT ![op] = @ + 1]
  /\ UNCHANGED <<toSock, clist>>

\* SendTCPRequest.
\* A CLOSE that leaves no record in tcpq (mutant).
RecordedBarClose == RequestType \ {"CLOSE"}
Recorded == RequestType
SendTCPRequest(type, s, c) ==
  /\ toTcp' = Append(toTcp, Msg(type, c, 0))
  /\ tcpq' = IF type \in Recorded
             THEN Append(tcpq, [type |-> type, sock |-> s]) ELSE tcpq

AppSocket ==
  /\ FreeSocks # {}
  /\ LET s == LowestOf(FreeSocks)
     IN  /\ Makes("SOCKET", 0)
         /\ socks' = [socks EXCEPT ![s].status = "UNBOUND"]
         /\ toApp' = Reply("SOCKET", s)
  /\ UNCHANGED <<owner, tcpq, toTcp>>

\* ResolveSrcPort with a port.
AppBind(s, p) ==
  /\ socks[s].status = "UNBOUND" /\ owner[p] = 0
  /\ Makes("BIND", s)
  /\ owner' = [owner EXCEPT ![p] = s]
  /\ socks' = [socks EXCEPT ![s].status = "BOUND", ![s].conn.port = p]
  /\ toApp' = Reply("BIND", s)
  /\ UNCHANGED <<tcpq, toTcp>>

AppListen(s) ==
  /\ socks[s].status = "BOUND"
  /\ Makes("LISTEN", s)
  /\ socks' = [socks EXCEPT ![s].status = "LISTENING", ![s].conn.end = AnyEnd]
  /\ toApp' = Reply("LISTEN", s)
  /\ UNCHANGED <<owner, tcpq, toTcp>>

AppAccept(s) ==
  /\ socks[s].status = "LISTENING"
  /\ Makes("ACCEPT", s)
  /\ socks' = [socks EXCEPT ![s].status = "ACCEPT_PENDING"]
  /\ SendTCPRequest("ACCEPT", s, socks[s].conn)
  /\ UNCHANGED <<owner, toApp>>

\* ResolveSrcPort without a port: FindFreePort takes the lowest free one.
\* Any port, whoever has it (mutant).
AllPorts  == Ports
FreePorts == {p \in Ports : owner[p] = 0}

AppConnect(s, r) ==
  /\ \/ /\ socks[s].status = "UNBOUND" /\ FreePorts # {}
        /\ LET p == LowestOf(FreePorts)
           IN  /\ owner' = [owner EXCEPT ![p] = s]
               /\ socks' = [socks EXCEPT
                              ![s].status = "CONNECT_PENDING",
                              ![s].conn = [port |-> p, end |-> r]]
     \/ /\ socks[s].status = "BOUND"
        /\ socks' = [socks EXCEPT ![s].status = "CONNECT_PENDING",
                                  ![s].conn.end = r]
        /\ UNCHANGED owner
  /\ Makes("CONNECT", s)
  /\ SendTCPRequest("CONNECT", s, socks'[s].conn)
  /\ UNCHANGED toApp

\* What is in the bin is returned, and stays in the bin.
AppRead(s) ==
  /\ socks[s].status = "CONNECTED"
  /\ Makes("READ", s)
  /\ IF socks[s].bin > 0
     THEN toApp' = Reply("READ", s) /\ UNCHANGED socks
     ELSE /\ socks' = [socks EXCEPT ![s].status = "READ_PENDING"]
          /\ UNCHANGED toApp
  /\ UNCHANGED <<owner, tcpq, toTcp>>

AppWrite(s) ==
  /\ socks[s].status = "CONNECTED"
  /\ Makes("WRITE", s)
  /\ socks' = [socks EXCEPT ![s].status = "WRITE_PENDING"]
  /\ SendTCPRequest("WRITE", s, socks[s].conn)
  /\ UNCHANGED <<owner, toApp>>

\* Whatever the socket's status.  Its port stays assigned.
AppClose(s) ==
  /\ socks[s].status # "FREE"
  /\ Makes("CLOSE", s)
  /\ SendTCPRequest("CLOSE", s, socks[s].conn)
  /\ socks' = [socks EXCEPT ![s] = Closed]
  /\ toApp' = Reply("CLOSE", s)
  /\ UNCHANGED owner

\* MinetReceive in the library: whatever comes first is the answer.
AppReturn ==
  /\ call # NoCall /\ toApp # <<>>
  /\ call' = NoCall /\ toApp' = Tail(toApp)
  /\ UNCHANGED <<sockSide, toTcp, toSock, clist, calls>>

-----------------------------------------------------------------------------
ProcessAppRequest ==
  \/ AppSocket
  \/ \E s \in Sock :
       \/ \E p \in Ports : AppBind(s, p)
       \/ AppListen(s)
       \/ AppAccept(s)
       \/ \E r \in Remote : AppConnect(s, r)
       \/ AppRead(s)
       \/ AppWrite(s)
       \/ AppClose(s)

Segments == {{"SYN"}, {"SYN", "ACK"}, {"ACK"}, {"FIN"}, {"FIN", "ACK"}}

TcpModule ==
  \/ \E p \in Ports, r \in Remote, f \in Segments :
       LET c == [port |-> p, end |-> r]
       IN  \/ TakeSyn(c, f)  \/ TellSock(c, f)
           \/ TakeData(c, f) \/ CloseFurther(c, f)
  \/ IgnoreRequest \/ DoRequest \/ TakeStatus
SockModule == HandleTCPWrite \/ HandleTCPStatus \/ ProcessAppRequest

Next == TcpModule \/ SockModule \/ AppReturn

Spec == Init /\ [][Next]_vars

-----------------------------------------------------------------------------
(* What the library relies on: each call of the application is answered    *)
(* once at most, never before it is made, and with the answer to this very *)
(* call; the FIFO to the application (sock_module.cc, SendAppMessage) never*)
(* holds the answer to an earlier one.                                     *)
SameCall(a, c) ==
  a.op = c.op /\ (c.op \in {"SOCKET", "ACCEPT"} \/ a.sock = c.sock)

Library == INSTANCE SocketCall WITH Answers <- Calls, AnswerTo <- SameCall

CallsInOrder == Library!Spec

(* A socket is in a pending status only while the application waits for    *)
(* that very call on it (ProcessAppRequest sets the status, HandleTCPWrite *)
(* and HandleTCPStatus reset it with the answer, whichever socket the      *)
(* message from tcp_module finds).                                         *)
PendingFor == [ACCEPT |-> "ACCEPT_PENDING", CONNECT |-> "CONNECT_PENDING",
               READ |-> "READ_PENDING", WRITE |-> "WRITE_PENDING"]

PendingIsAwaited ==
  \A op \in DOMAIN PendingFor, s \in Sock :
    socks[s].status = PendingFor[op] =>
      call = [op |-> op, sock |-> s] /\ toApp = <<>>

(* HandleTCPStatus takes a record out of tcpq without looking whether there*)
(* is one (sock_module.cc:200): there is one for every STATUS under way and*)
(* for every request tcp_module may still answer.                          *)
CountOf(queue, types) == Cardinality({i \in DOMAIN queue : queue[i].type \in types})
Requests(queue)       == CountOf(queue, RequestType)
Statuses(queue)       == CountOf(queue, {"STATUS"})

StatusHasRecord == Requests(toTcp) + Statuses(toSock) <= Len(tcpq)

(* A connect that tcp_module has taken is never orphaned: its record is in *)
(* SYN_SENT, whatever other records tcp_module has that might have matched *)
(* (associateConnection), or the WRITE that ends the call is under way.    *)
IsUnderWay(ty, c, queue) ==
  \E i \in DOMAIN queue : queue[i].type = ty /\ queue[i].conn = c

ConnectServed ==
  \A s \in Sock :
    socks[s].status = "CONNECT_PENDING"
      /\ ~IsUnderWay("CONNECT", socks[s].conn, toTcp) =>
        \/ \E i \in DOMAIN clist :
             clist[i].conn = socks[s].conn /\ clist[i].state = "SYN_SENT"
        \/ IsUnderWay("WRITE", socks[s].conn, toSock)

(* A socket that accepts listens: once tcp_module has taken the ACCEPT, a  *)
(* record listens on the port, or a connection to it is being opened, or is*)
(* about to be handed over.  minet_socket.cc:713 says the socket "goes back*)
(* to the listening state and will be available to receive additional      *)
(* connection requests".                                                   *)
AcceptListens ==
  \A s \in Sock :
    socks[s].status = "ACCEPT_PENDING"
      /\ ~IsUnderWay("ACCEPT", socks[s].conn, toTcp) =>
        \/ \E i \in DOMAIN clist :
             /\ clist[i].conn.port = socks[s].conn.port
             /\ clist[i].state \in {"LISTEN", "SYN_RCVD"}
        \/ \E i \in DOMAIN toSock :
             /\ toSock[i].type = "WRITE"
             /\ toSock[i].conn.port = socks[s].conn.port

(* The STATUS with which tcp_module answers a WRITE will meet the record of*)
(* a WRITE in tcpq, else the call never returns.  minet_socket.cc:1160 says*)
(* of minet_write that it "will block until the operation has completed".  *)
StatusMeetsWrite ==
  [][toTcp # <<>> /\ toTcp' = Tail(toTcp)
       /\ Request.type = "WRITE" /\ toSock' # toSock
       => tcpq[Statuses(toSock) + 1].type = "WRITE"]_vars

(* Closing the listening socket closes no connection of its port.          *)
(* minet_socket.cc:723 says of that socket that it "is returned to the     *)
(* listening state and is not associated with the connection" accept gave. *)
ClosesListener ==
  /\ toTcp # <<>> /\ toTcp' = Tail(toTcp)
  /\ Request.type = "CLOSE"
  /\ Request.conn.port # NoPort /\ Request.conn.end = AnyEnd

CloseOwn ==
  [][ClosesListener =>
       \A i \in DOMAIN clist : clist[i].conn.end # AnyEnd =>
         i \in DOMAIN clist' /\ clist'[i].state = clist[i].state]_vars
=============================================================================
