----------------------------- MODULE UdpSockets -----------------------------
(***************************************************************************)
(* UDP from the socket library to ip_mux: the application with its one     *)
(* call at a time (minet_socket.cc), the UDP half of sock_module, and      *)
(* udp_module with its list of forwards, which says what datagrams         *)
(* sock_module wants.  The FIFOs between the three are all there; of what  *)
(* sock_module sends to udp_module only the answers to datagrams, which    *)
(* udp_module ignores, are left out.                                       *)
(*                                                                         *)
(* A connection is its local port and its remote end; NoPort and AnyEnd    *)
(* are PORT_ANY and IP_ADDRESS_ANY.  An entry of the bin is what went in   *)
(* of one datagram: the last may be cut to the room that was left.         *)
(***************************************************************************)
EXTENDS Integers, SequencesExt

CONSTANTS
  NumSocks,      \* sockets 1..NumSocks; NUM_SOCKS in sock.h
  Ports,         \* port numbers; 1..NUM_PORTS
  Remote,        \* remote ends: address and port
  AnyEnd, NoCall,
  BinSize,       \* datagrams that fill a socket's bin; BIN_SIZE in sock.h
  MaxCalls,      \* bound on the library calls
  MaxDatagrams   \* bound on the datagrams that arrive

NoPort == 0
Unknown == {"RECVFROM", "SENDTO", "SET_BLOCKING", "SET_NONBLOCKING",
            "CAN_READ_NOW", "CAN_WRITE_NOW"}
\* What ProcessAppRequest knows, and what else the library asks of it.
Op == {"SOCKET", "BIND", "LISTEN", "CONNECT", "READ", "WRITE", "CLOSE"} \cup Unknown

ASSUME SockAssumption   == NumSocks \in Nat \ {0} /\ Ports \subseteq Nat \ {NoPort}
ASSUME RemoteAssumption == AnyEnd \notin Remote
ASSUME BoundAssumption  == {BinSize, MaxCalls, MaxDatagrams} \subseteq Nat

Sock == 1..NumSocks

VARIABLES
  socks,     \* socks[s]: status, connection and bin
  owner,     \* owner[p]: the socket port p was assigned for, 0 for none
  udpq,      \* requests that wait for a STATUS
  toUdp, toSock,
  forwards,  \* udp_module's ConnectionList
  toMux,     \* what udp_module has sent to ip_mux
  call,      \* the library call the application waits for
  fromApp, toApp,
  calls,     \* calls made so far
  arrived    \* datagrams that have come from ip_mux

sockSide == <<socks, owner, udpq>>
udpSide  == <<forwards, toMux, arrived>>
library  == <<call, calls>>
vars     == <<sockSide, udpSide, library, toUdp, toSock, fromApp, toApp>>

Connection  == [port : Ports \cup {NoPort}, end : Remote \cup {AnyEnd}]
Unconnected == [port |-> NoPort, end |-> AnyEnd]

Matches(c, d) == /\ NoPort \in {c.port, d.port} \/ c.port = d.port
                 /\ AnyEnd \in {c.end, d.end} \/ c.end = d.end
FindMatching(list, c) == SelectInSeq(list, LAMBDA f : Matches(f, c))

Status   == {"FREE", "UNBOUND", "BOUND", "CONNECTED", "READ_PENDING", "WRITE_PENDING"}
Datagram == [from : Remote, port : Ports]
Entry    == [status : Status, conn : Connection, bin : Seq(Datagram)]
Request  == [type : {"FORWARD", "WRITE", "CLOSE"}, conn : Connection]
Record   == [type : {"FORWARD", "WRITE", "CLOSE"}, conn : Connection, sock : Sock]
Message  == [type : {"STATUS", "WRITE"}, conn : Connection, data : Seq(Datagram)]
Packet   == [type : {"UDP", "ICMP"}, conn : Connection]
Call     == [op : Op, sock : Sock \cup {0}, conn : Connection]
Answer   == [op : Op, sock : Sock \cup {0}, error : BOOLEAN, data : Seq(Datagram)]

ASSUME CallAssumption == NoCall \notin Call

TypeOK ==
  /\ socks \in [Sock -> Entry] /\ \A s \in Sock : Len(socks[s].bin) <= BinSize
  /\ owner \in [Ports -> Sock \cup {0}]
  /\ udpq \in Seq(Record) /\ toUdp \in Seq(Request) /\ toSock \in Seq(Message)
  /\ forwards \in Seq(Connection) /\ toMux \in Seq(Packet)
  /\ call \in Call \cup {NoCall}
  /\ fromApp \in Seq(Call) /\ toApp \in Seq(Answer)
  /\ calls \in 0..MaxCalls /\ arrived \in 0..MaxDatagrams

Closed == [status |-> "FREE", conn |-> Unconnected, bin |-> <<>>]

Init ==
  /\ socks = [s \in Sock |-> Closed]
  /\ owner = [p \in Ports |-> 0]
  /\ udpq = <<>> /\ toUdp = <<>> /\ toSock = <<>>
  /\ forwards = <<>> /\ toMux = <<>> /\ arrived = 0
  /\ call = NoCall /\ fromApp = <<>> /\ toApp = <<>> /\ calls = 0

-----------------------------------------------------------------------------
(* The library: every call sends a request and waits for the answer.       *)
Makes(op, s, c) ==
  /\ call = NoCall /\ calls < MaxCalls
  /\ call' = [op |-> op, sock |-> s, conn |-> c]
  /\ fromApp' = Append(fromApp, call')
  /\ calls' = calls + 1
  /\ UNCHANGED <<sockSide, udpSide, toUdp, toSock, toApp>>

minet_socket        == Makes("SOCKET", 0, Unconnected)
minet_bind(s, p)    == Makes("BIND", s, [port |-> p, end |-> AnyEnd])
minet_listen(s)     == Makes("LISTEN", s, Unconnected)
minet_connect(s, r) == Makes("CONNECT", s, [port |-> NoPort, end |-> r])
minet_read(s)       == Makes("READ", s, Unconnected)
minet_write(s)      == Makes("WRITE", s, Unconnected)
minet_recvfrom(s)   == Makes("RECVFROM", s, Unconnected)
minet_sendto(s, r)  == Makes("SENDTO", s, [port |-> NoPort, end |-> r])
minet_close(s)      == Makes("CLOSE", s, Unconnected)

minet_set_blocking(s)    == Makes("SET_BLOCKING", s, Unconnected)
minet_set_nonblocking(s) == Makes("SET_NONBLOCKING", s, Unconnected)
minet_can_read_now(s)    == Makes("CAN_READ_NOW", s, Unconnected)
minet_can_write_now(s)   == Makes("CAN_WRITE_NOW", s, Unconnected)

Application ==
  \/ minet_socket
  \/ \E s \in Sock :
       \/ minet_listen(s) \/ minet_read(s) \/ minet_write(s)
       \/ minet_recvfrom(s) \/ minet_close(s)
       \/ minet_set_blocking(s) \/ minet_set_nonblocking(s)
       \/ minet_can_read_now(s) \/ minet_can_write_now(s)
       \/ \E p \in Ports : minet_bind(s, p)
       \/ \E r \in Remote : minet_connect(s, r) \/ minet_sendto(s, r)

Return ==
  /\ toApp # <<>>
  /\ call' = NoCall /\ toApp' = Tail(toApp)
  /\ UNCHANGED <<sockSide, udpSide, toUdp, toSock, fromApp, calls>>

-----------------------------------------------------------------------------
(* sock_module: a request of the application.                              *)
LowestOf(S) == CHOOSE x \in S : \A y \in S : x <= y
FreeSocks == {s \in Sock : socks[s].status = "FREE"}
FreePorts == {p \in Ports : owner[p] = 0}

\* ResolveSrcPort, without and with a port in the request.
AsksPorts(c) == IF c.port = NoPort THEN FreePorts ELSE FreePorts \cap {c.port}

\* What ProcessAppRequest grants a UDP socket; LISTEN it never does, and what
\* it does not know it returns as it came, without an error.
Granted(r) ==
  LET status == IF r.sock = 0 THEN "FREE" ELSE socks[r.sock].status IN
  CASE r.op = "SOCKET"  -> FreeSocks # {}
    [] r.op = "BIND"    -> status = "UNBOUND" /\ AsksPorts(r.conn) # {}
    [] r.op = "LISTEN"  -> FALSE
    [] r.op = "CONNECT" -> status = "BOUND" \/ (status = "UNBOUND" /\ AsksPorts(r.conn) # {})
    [] r.op = "READ"    -> status \in {"CONNECTED", "BOUND"}
    [] r.op = "WRITE"   -> status = "CONNECTED"
    [] r.op = "CLOSE"   -> status # "FREE"
    [] OTHER            -> TRUE

Tell(op, s, error, data) ==
  toApp' = Append(toApp, [op |-> op, sock |-> s, error |-> error, data |-> data])

Takes(op) == /\ fromApp # <<>> /\ Head(fromApp).op = op /\ Granted(Head(fromApp))
             /\ fromApp' = Tail(fromApp)
             /\ UNCHANGED <<udpSide, library, toSock>>
s0 == Head(fromApp).sock

SendUDPRequest(type, c) ==
  /\ toUdp' = Append(toUdp, [type |-> type, conn |-> c])
  /\ udpq' = Append(udpq, [type |-> type, conn |-> c, sock |-> s0])

Refuse ==
  /\ fromApp # <<>> /\ ~Granted(Head(fromApp))
  /\ Tell(Head(fromApp).op, s0, TRUE, <<>>)
  /\ fromApp' = Tail(fromApp)
  /\ UNCHANGED <<sockSide, udpSide, library, toUdp, toSock>>

Socket ==
  /\ Takes("SOCKET")
  /\ socks' = [socks EXCEPT ![LowestOf(FreeSocks)].status = "UNBOUND"]
  /\ Tell("SOCKET", LowestOf(FreeSocks), FALSE, <<>>)
  /\ UNCHANGED <<owner, udpq, toUdp>>

\* A socket without a port gets one; udp_module forwards what is for it.
Reserve(ports, status, end) ==
  LET p == LowestOf(ports) IN
    /\ owner' = [owner EXCEPT ![p] = s0]
    /\ socks' = [socks EXCEPT ![s0].status = status,
                              ![s0].conn = [port |-> p, end |-> end]]

Bind ==
  /\ Takes("BIND")
  /\ Reserve(AsksPorts(Head(fromApp).conn), "UNBOUND", socks[s0].conn.end)
  /\ SendUDPRequest("FORWARD", socks'[s0].conn)
  /\ UNCHANGED toApp

\* The status is CONNECTED before udp_module has answered.
Connect ==
  /\ Takes("CONNECT")
  /\ LET r == Head(fromApp).conn IN
       \/ /\ socks[s0].status = "UNBOUND"
          /\ Reserve(AsksPorts(r), "CONNECTED", r.end)
       \/ /\ socks[s0].status = "BOUND"
          /\ socks' = [socks EXCEPT ![s0].status = "CONNECTED", ![s0].conn.end = r.end]
          /\ UNCHANGED owner
  /\ SendUDPRequest("FORWARD", socks'[s0].conn)
  /\ UNCHANGED toApp

\* The whole bin is returned, and stays in the bin.
Read ==
  /\ Takes("READ")
  /\ \/ /\ socks[s0].bin # <<>>
        /\ Tell("READ", s0, FALSE, socks[s0].bin)
        /\ UNCHANGED socks
     \/ /\ socks[s0].bin = <<>>
        /\ socks' = [socks EXCEPT ![s0].status = "READ_PENDING"]
        /\ UNCHANGED toApp
  /\ UNCHANGED <<owner, udpq, toUdp>>

Write ==
  /\ Takes("WRITE")
  /\ SendUDPRequest("WRITE", socks[s0].conn)
  /\ socks' = [socks EXCEPT ![s0].status = "WRITE_PENDING"]
  /\ UNCHANGED <<owner, toApp>>

NotKnown ==
  /\ \E op \in Unknown : Takes(op)
  /\ Tell(Head(fromApp).op, s0, FALSE, <<>>)
  /\ UNCHANGED <<sockSide, toUdp>>

\* CloseSocket forgets the bin, but not the port; it keeps the bin, or gives the
\* port back as well (mutants).
CloseKeepsBin(s) == /\ socks' = [socks EXCEPT ![s].status = "FREE", ![s].conn = Unconnected]
                    /\ UNCHANGED owner
CloseSocket(s)   == /\ socks' = [socks EXCEPT ![s] = Closed]
                    /\ UNCHANGED owner

\* The socket is closed first: the request has what is left (mutant).
RequestAfterClose(s)  == SendUDPRequest("CLOSE", Unconnected)
RequestBeforeClose(s) == SendUDPRequest("CLOSE", socks[s].conn)

Close ==
  /\ Takes("CLOSE")
  /\ RequestBeforeClose(s0)
  /\ CloseSocket(s0)
  /\ Tell("CLOSE", s0, FALSE, <<>>)

ProcessAppRequest ==
  Refuse \/ Socket \/ Bind \/ Connect \/ Read \/ Write \/ NotKnown \/ Close

-----------------------------------------------------------------------------
(* sock_module: a message of udp_module.                                   *)
FromUdp(type) ==
  /\ toSock # <<>> /\ Head(toSock).type = type
  /\ toSock' = Tail(toSock)
  /\ UNCHANGED <<owner, udpSide, library, toUdp, fromApp>>

\* A UDP socket is found by exactly the connection of the forward.
FoundBy(c) == {s \in Sock : socks[s].conn = c}

\* As much of a datagram as fits goes in, and none once the bin is full.  Whatever
\* is there goes in (mutant).
FitsAlways(s) == TRUE
Fits(s)       == Len(socks[s].bin) < BinSize

HandleUDPWrite ==
  /\ FromUdp("WRITE")
  /\ LET found == FoundBy(Head(toSock).conn)
         s     == LowestOf(found)
     IN  CASE found # {} /\ socks[s].status = "CONNECTED" /\ Fits(s) ->
                /\ socks' = [socks EXCEPT ![s].bin = @ \o Head(toSock).data]
                /\ UNCHANGED toApp
           [] found # {} /\ socks[s].status = "READ_PENDING" ->
                /\ socks' = [socks EXCEPT ![s].status = "CONNECTED"]
                /\ Tell("READ", s, FALSE, Head(toSock).data)
           [] OTHER -> UNCHANGED <<socks, toApp>>
  /\ UNCHANGED udpq

\* Only the answer to a FORWARD is passed on (mutant).
PassesOnForward == {"FORWARD"}
PassedOn        == {"FORWARD", "WRITE"}

\* The oldest request in udpq has been answered (udp_module's answer to a FORWARD
\* or WRITE is never an error).
HandleUDPStatus ==
  /\ FromUdp("STATUS")
  /\ LET q == Head(udpq) IN
       IF q.type \notin PassedOn THEN UNCHANGED <<socks, toApp>>
       ELSE /\ socks' = [socks EXCEPT ![q.sock].status =
                           IF socks[q.sock].conn.end # AnyEnd THEN "CONNECTED" ELSE "BOUND"]
            /\ Tell(IF q.type = "WRITE" THEN "WRITE"
                    ELSE IF q.conn.end = AnyEnd THEN "BIND" ELSE "CONNECT",
                    q.sock, FALSE, <<>>)
  /\ udpq' = Tail(udpq)

-----------------------------------------------------------------------------
(* udp_module.                                                             *)
FromSock(type) ==
  /\ toUdp # <<>> /\ Head(toUdp).type = type
  /\ toUdp' = Tail(toUdp)
  /\ UNCHANGED <<sockSide, library, fromApp, toApp, arrived>>
req == Head(toUdp).conn

ToSock(type, c, data) == Append(toSock, [type |-> type, conn |-> c, data |-> data])

Erase(list, c) == RemoveFirstMatch(list, LAMBDA f : Matches(f, c))

\* The old forward stays (mutant).
AddForward(c) == forwards' = Append(forwards, c)
Forward(c)    == forwards' = Append(Erase(forwards, c), c)

UdpForward ==
  /\ FromSock("FORWARD")
  /\ Forward(req)
  /\ toSock' = ToSock("STATUS", req, <<>>)
  /\ UNCHANGED toMux

UdpWrite ==
  /\ FromSock("WRITE")
  /\ toMux' = Append(toMux, [type |-> "UDP", conn |-> req])
  /\ toSock' = ToSock("STATUS", req, <<>>)
  /\ UNCHANGED forwards

\* A CLOSE that matches nothing is answered too; or not (mutant).
StatusIfMatched == IF FindMatching(forwards, req) = 0 THEN toSock
                   ELSE ToSock("STATUS", req, <<>>)
StatusAlways    == ToSock("STATUS", req, <<>>)

UdpClose ==
  /\ FromSock("CLOSE")
  /\ forwards' = Erase(forwards, req)
  /\ toSock' = StatusAlways
  /\ UNCHANGED toMux

\* A datagram arrives; if nobody wants it the sender is told.
FromMux(r, p) ==
  LET f == FindMatching(forwards, [port |-> p, end |-> r])
      d == [from |-> r, port |-> p]
  IN  /\ arrived < MaxDatagrams /\ arrived' = arrived + 1
      /\ \/ /\ f # 0
            /\ toSock' = ToSock("WRITE", forwards[f], <<d>>)
            /\ UNCHANGED toMux
         \/ /\ f = 0
            /\ toMux' = Append(toMux, [type |-> "ICMP", conn |-> [port |-> p, end |-> r]])
            /\ UNCHANGED toSock
      /\ UNCHANGED <<sockSide, forwards, library, toUdp, fromApp, toApp>>

-----------------------------------------------------------------------------
SockModule == ProcessAppRequest \/ HandleUDPWrite \/ HandleUDPStatus
UdpRequest == UdpForward \/ UdpWrite \/ UdpClose

Next == \/ Application \/ Return \/ SockModule \/ UdpRequest
        \/ \E r \in Remote, p \in Ports : FromMux(r, p)

\* Each process goes on as long as there is something in its FIFOs.
Fairness == WF_vars(Return) /\ WF_vars(SockModule) /\ WF_vars(UdpRequest)

Spec == Init /\ [][Next]_vars /\ Fairness

-----------------------------------------------------------------------------
(* HandleUDPStatus takes the oldest record out of udpq for the one that has*)
(* been answered, unseen (sock_module.cc:344).  The answers under way and  *)
(* the requests still to be served are those of the records, in order.     *)
Statuses(messages, k) == Cardinality({i \in 1..k : messages[i].type = "STATUS"})

StatusMeetsRequest ==
  LET answered == Statuses(toSock, Len(toSock)) IN
    /\ Len(udpq) = answered + Len(toUdp)
    /\ \A i \in DOMAIN toSock : toSock[i].type = "STATUS" =>
         toSock[i].conn = udpq[Statuses(toSock, i)].conn
    /\ \A j \in DOMAIN toUdp : toUdp[j].conn = udpq[answered + j].conn

(* udp_module forwards nothing for ever to a connection nobody has: each   *)
(* of its forwards is that of an open socket, or a request that takes it   *)
(* out is under way (sock_module.cc:961, udp_module.cc:149).               *)
ForwardsOwned ==
  \A i \in DOMAIN forwards :
    \/ \E s \in Sock : socks[s].conn = forwards[i]
    \/ \E j \in DOMAIN toUdp : toUdp[j].type # "WRITE" /\ Matches(toUdp[j].conn, forwards[i])

(* Of all that is read from a socket nothing was for another port, though  *)
(* sockets are closed and opened again with datagrams, forwards and        *)
(* answers under way.                                                      *)
ReadOwn ==
  \A i \in DOMAIN toApp : \A j \in DOMAIN toApp[i].data :
    toApp[i].data[j].port = socks[toApp[i].sock].conn.port

(* Every call returns, but for a read that no datagram comes for.          *)
CallsReturn == call # NoCall /\ call.op # "READ" ~> call = NoCall

(* What minet_socket.cc:1045 says of minet_read: a connectionless socket   *)
(* must be bound, and the call "will block until data arrives".  For that  *)
(* the datagrams for its port have to be forwarded while a read waits.     *)
ReaderForwarded ==
  \A s \in Sock : socks[s].status = "READ_PENDING" =>
    \E i \in DOMAIN forwards : forwards[i] = socks[s].conn
=============================================================================
