# Minet in TLA+

Minet is a TCP/IP stack built of ordinary Unix processes that talk through
named pipes. This directory holds TLA+ modules of it, from the
socket library down to the device driver, the TLC configurations that check them, and theorems about them whose proofs TLAPS
checks. Source paths below are those of the repository (`core/`, `libminet/`,
`lowlevel/` under its `src/`).

## 1. The system

Every box is a process; every line is a pair of FIFOs, one each way.

    apps --- (minet_socket.cc) --- sock_module --- tcp_module --\
                                       |  \------- udp_module ---- ip_mux --- ip_module --- ethernet_mux --- device_driver2
                                       |---------- icmp_module -/                  \------- arp_module ---/
                                       \---------- ipother_module

A module is a loop around `MinetGetNextEvent`: take one message from one FIFO,
handle it to the end, send messages to other FIFOs, repeat. There are no threads
and no shared memory. All concurrency is between processes, through the pipes
and through the network; inside a handler nothing interleaves. The one exception is
`device_driver`, whose signal handler may run between any two steps of its main loop.

| component | state | operations | what makes it correct | what is hard |
|---|---|---|---|---|
| TCP connection (`tcp_transit.cc`, `tcp_event.cc`, `packet_factory.cc`, `tcpstate.*`, `buffer.cc`, `tcp_timer.cc`) | state, `last_sent`, `last_acked`, `last_recvd`, send and receive buffer, timer flag | one transition function per pair of states, the loop of ESTABLISHED | acknowledged means received; the window; both ends agree about open and close; the stream's order | loss, doubling, reordering; crossing segments; unsigned arithmetic; buffers that shrink when read |
| TCP connection table (`tcp_module.cc`, `constate.h`, `connection_factory.cc`) | `clist`, a list of records | find a record for a segment or request, add one, drop a CLOSED one | a message goes to the record it is meant for | wildcards, records in TIME_WAIT, the record that LISTENs turning into the connection |
| Socket module (`sock_module.cc`, `sock_mod_structs.*`, `sockint.*`) | sockets with status and receive bin, `tcpq`/`udpq`..., ports | nine calls of applications, WRITE and STATUS from each protocol | answers reach the call they answer; no byte is given twice or out of order; ports and sockets are released | pairing by position only; messages in states that do not expect them |
| Socket library (`minet_socket.cc`) | descriptor table, one pipe pair | `minet_socket` ... `minet_close`, `minet_select` | what its comments promise of each call | blocking calls over shared FIFOs |
| FIFO runtime (`Minet.cc`) | list of open FIFOs | connect, accept, next event | all processes start; no event is forgotten | opens that block until the other end opens; full pipes |
| IP, ARP, routing (`ip_module.cc`, `arp_module.cc`, `arp.*`, `route.cc`) | ARP cache, route table | send (asks ARP and waits), receive; learn and answer | a packet goes to the address of its next hop | IP blocks on ARP; a route table that frees what it returns |
| UDP (`udp_module.cc`) | list of forwarded connections | FORWARD, CLOSE, WRITE, a datagram | a datagram reaches the socket bound to it, and no other | wildcards in the list; sockets given out again with datagrams under way |
| ICMP, other protocols (`icmp_module.cc`, `ipother_module.cc`, `icmp.cc`) | none | answer a packet | answers are not answered | an uninitialised flag decides what is answered |
| muxes (`ethernet_mux.cc`, `ip_mux.cc`) | none | dispatch on a protocol field; ip_mux answers what nobody wants | | modules that are not there |
| wire formats (`ip.cc`, `tcp.cc`, `udp.cc`, `icmp.cc`, `ethernet.cc`, `packet.cc`, `buffer.cc`) | the bytes of headers and payload | one setter for each field, checksums | what was set is what arrives | setters share bytes; checksums are computed over unfinished headers |
| drivers (`lowlevel/`, `raw_ethernet_packet_buffer.cc`, `ethernet.cc`) | two rings of frames, two socketpairs | push, pull; signal handler and main loop | a frame is neither lost, repeated nor overtaken before the ring is full | full/empty with one slot free; signals at any point, and merged |
| monitor, timeline viewer, old TCP (`tcp_in.h`, `sock_in.h`) | | | | not part of the running stack |

How the parts of one TCP connection interact:

1. The application's `minet_connect`/`minet_accept` becomes CONNECT/ACCEPT from
   sock_module to tcp_module, which answers at once with STATUS and later, when
   the handshake is done, with a WRITE without data. Only the second ends the call.
2. `minet_write` becomes WRITE; its STATUS ends the call.
3. Received bytes go up as WRITE; sock_module answers with a STATUS that says
   how many of them it took, and tcp_module drops those from its receive buffer.
4. `minet_close` becomes CLOSE; the call returns at once and the socket is free
   before tcp_module has seen the request.
5. A FIN from the peer goes up as a WRITE without data.

How the parts below interact:

6. `ip_module` asks `arp_module` for every packet it sends, and waits for the answer;
   `arp_module` always answers at once, with nothing if it does not know, and then asks
   the Ethernet. The packet that found no answer is dropped.
7. `udp_module` delivers a datagram to sock_module if one of its forwards matches, and
   otherwise tells the sender. sock_module adds and removes forwards as sockets are
   bound, connected and closed.
8. Every process meets the end of a neighbour as an end of file or a SIGPIPE, and dies.

STATUS therefore travels in both directions, and sock_module matches the ones it
gets by position: `tcpq` holds the type of every request that waits for one.

## 2. The order of the work

| | modules | content | state |
|---|---|---|---|
| 1 | `TCPEvents`, `TCPSegment`, `TCPConnection` | one connection between two hosts with its sockets, over a faulty network | checked; all its safety properties proved |
| 2 | `SocketTable` | socket table, ports and all TCP calls of sock_module, with `tcpq` shared by all sockets; tcp_module's list of records with its wildcards | checked; all its safety properties proved |
| 3 | `SocketCall` | what the library promises an application | refinement checked and proved |
| 4 | `Minet` | the processes, the order in which they open their FIFOs, their loops over FIFOs that can be full, and their ends | checked; all its safety properties proved |
| 5 | `FrameQueue`, `FrameRing`, `DeviceDriver` | the driver with its signal handler, and the queue each of its rings implements | checked; refinement, order and account of frames proved |
| 6 | `Network` | drivers' filters, muxes, ARP, the three IP modules and ICMP, on several hosts | checked; all its safety properties proved |
| 7 | `UdpSockets` | UDP from the library to ip_mux | checked; all its safety properties proved |
| 8 | `WireFormats` | headers, checksums and the setter calls that make a packet | checked; its safety property proved |

Not planned: a `Stream` that says what a connection promises. It cannot be stated as
more than `FreshInOrder` says: with losses never repaired and bytes repeated,
`TCPConnection` is no stream. Every safety property that a passing run checks is proved;
what is left to TLC alone is liveness.

## 3. The modules

An arrow points from a module to one it extends.

    TCPConnection_proofs --> TCPConnection --> TCPSegment --> TCPEvents
    TCPOrder_proofs      --> TCPConnection_proofs
    SocketTable_proofs   --> SocketTable --> TCPEvents
                             SocketTable ..implements.. SocketCall
    DeviceDriver_proofs  --> DeviceDriver --> FrameRing
                             DeviceDriver ..implements.. FrameQueue (twice)
    Network_proofs       --> Network
    UdpSockets_proofs    --> UdpSockets
    Minet_proofs         --> Minet
    WireFormats_proofs   --> WireFormats

Each of `TCPConnection`, `SocketTable`, `Minet`, `DeviceDriver`, `Network`, `UdpSockets`
and `WireFormats` has an `MC` module that gives its constants their values for TLC.

The models meet at the FIFOs between processes. `TCPConnection` has tcp_module and
sock_module of two hosts with `net` for everything below; `SocketTable` and `UdpSockets`
have all sockets of one host with a free remote end; `Network` has everything below the
transports, which only send and receive; `DeviceDriver` has what `Network` takes for a
FIFO with a filter; `Minet` has every process, with each handler reduced to what it
sends and waits for. Definitions with mutated behaviour, marked "(mutant)", belong to
no specification; they show that a property can be violated by a change of the code.

### TCPEvents

The control that the two models of tcp_module share: the states, the guards of
`tcp_event.cc` on a segment's flags, and the `switch` of `connectionStateTransfer`
(`OnPacket`, `OnRequest`), which selects a transition function for a segment or for a
request of sock_module.

### TCPSegment

The pure part. `Record` is `TCPState` (with the timer flag of
`ConnectionToStateMapping`, and `room`, the local variable of the send loop),
`Packet` a segment: flags, sequence number, acknowledgement number, payload.
`Syn`, `SynAck`, `Ack`, `Fin` are what `packet_factory.cc` builds, including that
`fin` reuses `last_sent` as its number and sets no acknowledgement. `PostRecv` and
`PostSend` are the two helpers of `tcp_transit.cc` that all transitions share.
`Residue` is the payload that a *second* `extractPayload` on the same packet finds:
`establishedLoop` takes the payload out before it calls `postRecv`, which takes it
out again to measure it. After the first time only the padding of the Ethernet frame
is left, and the second takes no more of that than the length in the IP header.
`SendRoom` is unsigned arithmetic, modulo `Width`.

A byte is its place in its writer's stream. That is enough to say of any two
bytes which comes first and whether one has been delivered before, and the code
never looks into the bytes.

### TCPConnection

Two hosts. `tcb[h]` is the record in tcp_module's list, `sock[h]` the socket in
sock_module, `toTcp[h]` and `toSock[h]` the FIFOs between these two, `net[h]` the
segments under way to h: everything below tcp_module on both hosts, plus the wire.
`app[h]` records what the application wrote and was given.

| code | model |
|---|---|
| `main`, one event and its handler | one action of `TcpStep(h)`; a handler is never split, with one exception |
| the `switch` of `connectionStateTransfer` with the guards of `tcp_event.cc` | `OnPacket`, `OnRequest`: the transition a state selects for a segment or a request; `"ignore"` for the transitions with an empty body and the events no guard enables (`IgnorePacket`, `IgnoreRequest`: the event is taken and lost) |
| `closedToListen`, `closedToSynSent`, `listenToSynRcvd`, ..., `lastAckToClosed` | the action of the same name |
| `establishedLoop`, by the event | `establishedLoopPacket`, `establishedLoopWrite`, `establishedLoopStatus` |
| its `while(room > 0)` | `SendSegment`, one iteration, while `Waiting(h)` keeps the process from anything else; `ExtractThrows` is the iteration in which `substr` throws and the process ends |
| `HandleTCPWrite`, `HandleTCPStatus`, `SendTCPRequest` | the same names |
| the cases of `ProcessAppRequest` for a connected application | `AppOpen`, `AppWrite`, `AppRead`, `AppClose` |
| the network | `Lose`, `Duplicate`, `Reorder`, at most `MaxFaults` together (outside the repository) |

The one exception to "a handler is an action" is the send loop, because each
iteration hands a segment to the next process before the following one starts and
any of them may throw: the peer can see the first segment of a loop that never
finishes.

What is read out of undefined or unspecified behaviour: `postSend` adds an
uninitialised `datalen` for a FIN; the model adds any element of `GarbageLen`.

Abstractions: FIFOs and pipes never fill (`Minet` has them with a bound); bins stay below `BIN_SIZE`; no sequence
number wraps (`getSeq` starts below 2000); a segment is never corrupt (tcp_module
does not check the checksum, and IP's covers only its header); the answer to an
application's call is the socket's change of status; a read with data in the bin,
which changes nothing, is no step. An application opens once, waits for each call
to return, and does not close before its open has returned.

### MCTCPConnection

The constants of the configurations: initial sequence numbers (`MCISN`, different
ones, so that a number of one host cannot pass for one of the other), who connects,
how much each side writes.

### SocketTable

One host, several sockets and connections. `socks`, `owner` and `tcpq` are
`SockStatus`, `PortStatus` and the queue of sock_module, `clist` is tcp_module's list,
`toTcp` and `toSock` the FIFOs between them; `call` is the library call the
application waits in and `toApp` the FIFO with its answer. The application is one
process, and `minet_socket.cc` sends a request and blocks for the answer, so there is
never more than one call. Sequence numbers and payloads are `TCPConnection`'s business:
here a segment is a set of flags that may arrive for any port at any time, from a
remote end that owes nobody anything.

| code | model |
|---|---|
| `Connection::Matches*` | the same names; a connection is its local port and its remote end, either of which may be the wildcard |
| `associateConnection`, `cleanClosedConnection` | `Associate`, `Clean` |
| `addClosedConnection` | in `Candidates`: the list as it is when a request looks for its record |
| the transition functions | `NextState`, and an action by what else they do: `TakeSyn` (the listening record becomes the connection's), `TellSock` (a WRITE without data), `TakeData`, `CloseFurther`, `DoRequest` (a STATUS), `TakeStatus`, `IgnoreRequest` |
| the cases of `HandleTCPWrite` | `WriteForNobody`, `WriteToBin`, `WriteToReader`, `WriteToAccept`, `WriteToAcceptFull`, `WriteToConnect`, `WriteDropped` |
| `HandleTCPStatus` | the same name |
| the cases of `ProcessAppRequest` | `AppSocket` ... `AppClose`, each with its answer, if it is given at once, or its request to tcp_module |
| `MinetReceive` in the library | `AppReturn` |

Abstractions: requests that sock_module refuses change nothing and are left out;
reads block; a port, once assigned, is never given back (no code does); the bytes of a
record and of a bin are numbers.

### SocketCall

What the library relies on, as a specification of its own: at most one answer to a
call, none before it is made, and the answer to this very call. `SocketTable` implements
it with `call` and `toApp` as they are, which is the property `CallsInOrder`.

### Minet

The processes. `config` names one way to start the stack: which modules are in
`MINET_MODULES`, which are monitored, which are really launched. `OpenOrder[p]` lists the
FIFOs p would open if every module were there: first the one to the monitor, then two for
each call; `Places(p)` are the places in it that this stack has, and `opened[p]` the place
p has come to. `phase[p]` is "opening", "telling" (an open call is through, and its write to
the monitor is next), "running", "dying" (in `death`, with its FIFOs open) or "ended". `pipe`
holds what is in each FIFO, `todo[p]` is what is left of the handler p is in, `traffic` what
may still come from outside. A message is "data" or the "answer" to data.

| code | model |
|---|---|
| the calls of `MinetConnect` and `MinetAccept` in each `main` | `DeviceDriverOpens`, `EthernetMuxOpens`, ... in the order of the code |
| `MinetInit`, `MinetConnect`, `MinetAccept`: the FIFOs, in the order in which they are opened, read or write end first | the same names, and `OpenOrder` |
| `MinetIsModuleInConfig`, `MinetIsModuleMonitored` | the same names; `strstr` finds `other_module` in `ipother_module` (`NamedIn`) |
| an `open` that blocks until the other end is opened | `OpenNext`; it also returns when who opened the other end has ended since (`HasReached`) |
| the `MinetSendToMonitor` at the end of `MinetInit`, `MinetConnect` and `MinetAccept` (`Minet.cc:412`, 745, 1022) | `EndsCall`, then `MinetSendToMonitor`, or `Die` if the monitor has ended: a module may die between two opens |
| `main` after the opens | `AllOpen`; for ip_module `GiveUp` if ethernet_mux is named and ip_mux or arp_module is not, since it asks for ethernet_mux three times (`ip_module.cc:94-105`) |
| `MinetGetNextEvent`: the first readable FIFO in the order they were opened | the same name; `Handle` takes the message and picks a script |
| what a handler of each module sends and waits for | `EthernetMuxScripts` ... `SockScripts`; the SYN that is sent twice, up to `MaxSegments` segments of a send loop and a WRITE sent again are in `TcpScripts` |
| `MinetSend`, `MinetReceive` | the same names; a send waits for room, a receive for a message; with `MINET_NOHANDLE` both return at once (`NoHandle`) |
| `Unserialize` at the end of file, SIGPIPE, `death` | `MeetsEnd`, `death`, `Die`; with a display `death` waits for a key (`HitEnter`) |
| a frame, a call, a segment sent again; a module that stops | `Begin`, `Quit` |

`sock_module` has no branch for `ipother_module` in its loop: once that FIFO is readable
it is found again and again (`Serves`), which TLC shows as a process that does nothing more.

A script may be any that the handler can produce in some state of the module: `Minet` has
more behaviours than the program, none less. A WRITE that tcp_module sends again when the
application took only a part (`Resends`) counts as traffic, since it is up to the application
how often this happens. A write to the monitor returns at once, or is a SIGPIPE: the FIFOs to
the monitor never fill in the model. While the monitor is in its loop it only reads, so this only costs time;
where it never comes to its loop (`watchreader`) the modules would go on until 64 kilobytes of
events are written, and then wait.

### FrameRing, FrameQueue, DeviceDriver

`FrameRing` is `RawEthernetPacketBuffer` as a value: `Push`, `Pull`, `IsFull` and
`Numitems`, which counts one too few once `curin` has wrapped around. `FrameQueue` is
what a ring should be: a bounded queue that refuses a frame when full and at no
other time.

`DeviceDriver` has the reader and writer processes, the signal handler and the main
loop. What is atomic follows from the signal mask: the main loop's critical section
(`Serve`: one frame to ethernet_mux, one from it) is one action, everything else may be
interrupted between its steps.

| code | model |
|---|---|
| `PacketHandler` of `reader.cc`: write, then kill | `ReaderWrite`, `ReaderSignal`; a second signal while one is pending is the same signal |
| `writer.cc`: discard, or launch and write the outcome | `WriterDiscard`, `WriterLaunch`; its `kill` reaches nobody |
| the handler of `ethernet.cc` | `Interrupt`, `HandlerLooks` (one `select` and both branches), `HandlerReturns` |
| `EthernetGetNextPacket`, `ReceiveNextPacket`, `SendNextPacket`, `EthernetInitiateSend` | the same names |
| the main loop of `device_driver.cc` | `Watch` (the test of Numitems), `CallSelect`, `SelectReturns`, `BlockSignal`, `Serve` (`ToMux`, `FromMux`, `StartSend`) |

`MuxSends` stands for the three branches of `ethernet_mux` that write to the driver. It lets a
frame come at any time, which is more than ethernet_mux does. The socketpairs to and
from the driver have no bound. In the code they do: a reader that writes to a full one blocks, which
only delays it; but a writer whose results nobody takes (its signal is lost, see
`device_signal`) would block in the end too, and then the driver, inside `Serialize` in its critical
section. That state is not in the model, and none of its properties speaks of it.

Between `Watch` and `CallSelect` a signal may put a frame into the ring that `select` was
not told about (`device_driver.cc:162`); it is sent up after some later event only.

### Network

Several hosts on one Ethernet and a router that does not run Minet. `build[h]` says which
programs host h runs: the plain, diffusion or routing `ip_module`, device_driver with its
reader's filter or device_driver2 with its own, ipother_module or not. A host's name stands
for its IP address and its Ethernet address, which is what ARP has to find out; a
packet is its addresses, what it is (`Kind`) and what is wrong with it (`Defect`).

| code | model |
|---|---|
| the filters of `reader.cc` and `device_driver2.cc`; a promiscuous interface | `Hears`, `OnTheWire` |
| `ProcessOutgoing`, `ethernet_mux` | `ProcessOutgoing`, `EthernetMux` |
| `arp_module`: a question of ip_module, a frame heard | `ArpAnswers`, `ArpHears` |
| `SendPacket`: the question and what follows the answer | `SendPacket`, `SendGoesOn`; in between ip_module does nothing else (`waiting`) |
| ip_module's two branches, in three versions | `IpReceives` (`Answered`, `Dropped`), `IpSends` (`RouteOut`) |
| `ip_mux` | `IpMux`, in the same step as its one neighbour's send |
| `icmp_module`, `ICMPPacket::respond` | `IcmpModule`, `respond`, `requires_response`, which some types leave uninitialised |
| udp_module and tcp_module, as far as ip_mux sees them: a packet to any address at any time, more than they would send | `TransportSends` |
| router, losses, damage (outside the repository) | `RouterSends`, `RouterBroadcasts`, `RouterReplies`, `Lose`, `DamagePacket` |

What a reader of the code might not expect and the model has: the first packet to an
unknown neighbour is discarded (`ip_module.cc:74`); IP broadcasts leave with a blank
Ethernet destination; the diffusion version sends its errors without a look at ARP's
answer; the routing version checks neither TTL nor answers defects.

### UdpSockets

The application with every call of the library on a datagram socket, the UDP half of
sock_module, and udp_module. As in `SocketTable` the application waits for each answer.

| code | model |
|---|---|
| `minet_socket` ... `minet_can_write_now` | the same names, then `Return` |
| the cases of `ProcessAppRequest` | `Refuse`, `Socket`, `Bind`, `Connect`, `Read`, `Write`, `Close`, and `NotKnown` for its default case |
| `HandleUDPWrite`, `HandleUDPStatus` | the same names |
| `udp_module`'s FORWARD, WRITE, CLOSE, a datagram | `UdpForward`, `UdpWrite`, `UdpClose`, `FromMux` |

`NotKnown`: recvfrom, sendto and the calls about blocking fall into the default case and
return success with nothing done. `HandleUDPWrite` puts as much of a datagram into the bin as
fits: an entry of `bin` is what went in of one datagram, the last may be cut, and `BinSize`
entries fill the bin. What was cut off is not modelled. The bin of a datagram socket is never emptied, so
reads repeat it. A BOUND socket whose read had to wait is CONNECTED afterwards,
without a destination.

### WireFormats

Bytes. A packet is built by the calls that the code makes, in its order (`Segment` for
`packet_factory.cc`, `Datagram` for `udp_module.cc`, `Message` for `icmp.cc`), one action
`Set` for each call; every setter computes the checksum again, over whatever is there
at that time. `Send` puts the Ethernet header in front and may pad the frame; of a packet whose
frame is longer than 1514 bytes no `RawEthernetPacket` can be made (`raw_ethernet_packet.cc:21`:
the `throw` ends ip_module), so it is never sent, although `UDP_MAX_DATA` allows it. `Receive`
takes it apart, `Respond` turns a request round. Where two fields lie in the same bytes
(version and header length, flags and fragment offset, the pointer and the identifier
of an ICMP message) the setters change the bytes that the code changes. The checksum of
a timestamp reply, whose time is set last, is not computed again (`icmp.cc:512`).

| code | model |
|---|---|
| `Buffer::GetData`, `SetData`, `ExtractFront` | the same names; `ByteAt` for one byte |
| where each setter and getter reads and writes | `IPFields` ... `ICMPFields`: byte, size, lowest bit and range of a field; `Get`, `Put` |
| `OnesComplementSum` | `Words`, `Sums` and `Fold16` twice, as in the code |
| `ComputeChecksum`, `RecomputeChecksum`, `IsChecksumCorrect` of each header | the same names after IP, TCP, UDP, ICMP |
| `RawEthernetPacket(const Packet &)` | the guard of `Send`, `ETHERNET_PACKET_LEN` |
| the constructors and the code that builds a packet | `IPDefaults`, `Segment`, `Datagram`, `Message`: sequences of calls, executed by `Set` |
| `ExtractHeaderFromPayload` | `TakenApart` |

`Headers` are the IP headers that an ICMP error may quote; nothing is assumed of them but
that they have 20 bytes. Data longer than a segment or a datagram can take (`MaxData`) is cut
before a packet is built and does not come into one.

### The modules of proofs

One for each model, two for `TCPConnection`: see section 5.

## 4. The runs

Every run has `CHECK_DEADLOCK FALSE`: a connection ends, traffic ends, calls are
bounded, and then nothing further happens. Where a deadlock matters (`stack`) a property
says what it may look like.

**tcp_faulty** (passes; 1.8 million states). Client and server, windows of two
one-byte segments, a client that writes more than two windows at once, a server that
writes one byte, both closing at any time; one segment
is lost, doubled or moved behind the others at any point.

- `AckChain`: what a host regards as acknowledged the peer has received, what the
  peer has received the host has sent. `postRecv` accepts *any* larger
  acknowledgement number, so this rests on what the segments under way can say,
- `SegmentsBacked`: they never claim more than their sender has done by now.
- `WindowRespected`: no more than a window under way, although `room` may wrap
  around. It holds for a reason nobody intended: whenever `room` wraps, the first
  `Extract` throws.
- `TimerCovers`: bytes under way have a running timer.
- `HandshakeAgreed`, `CloseAgreed`: both hosts have compatible states; duplicates
  of SYN (the code itself sends two) open nothing.
- `FreshInOrder`: the application never sees an earlier byte for the first time
  after a later one. Bytes may be missing (no retransmission) and repeated (a segment
  whose bytes were not counted, `tcp_accepted` below); the property says exactly what is left of "in order".
  When the network doubles segments there is one more exception, which the proof brought to
  light and this run, with one fault, is too small to show: a late STATUS may remove from
  the receive buffer a part of a segment that has not gone up yet, and the segment's second copy, which
  is accepted again, brings that part after the rest, out of turn by less than the length of
  a segment (`Slack`). With segments of four bytes and four faults an application may read the
  bytes 1, 2, 1, 2, 3, 3, 6, 7, 4, 5, 6, 7.
- `AnswersInStep`: when an application has its socket back, `tcpq` is empty, so the
  next STATUS answers the next request.

**tcp_progress** (passes; 155 thousand states, with liveness). Either host may
connect or accept, both write and close, no faults.

- `OpensReturn`: from SYN_RCVD both opens come back.
- `WritesReturn`: a write returns, except when it meets CLOSE_WAIT, which has no
  transition for it, or when the process has ended.
- `PassiveCloseEnds`: LAST_ACK ends, which needs that the peer is still there to
  acknowledge the FIN.
- `OrderlyClose`: a record is dropped only when the peer has seen both FINs. This
  one is false when segments can change places, since any acknowledgement ends
  LAST_ACK, and is checked where they cannot.

Two connects (simultaneous open) and two closes (simultaneous close) are behaviours
of this run. They get stuck in SYN_SENT and FIN_WAIT1, because
`finWait1ToClosing` and its relatives have empty bodies; the liveness properties
speak of the states from which the code does go on.

**sock_calls** (passes; 477 thousand states). Two sockets, two ports, one remote end;
the application makes at most the calls of `SomeCalls`: enough for a listener that
accepts, closes what it accepted and accepts again with the same socket number, next to
a connect, a read and a write, in any order.

- `CallsInOrder`: the refinement to `SocketCall`. The FIFO to the application has no
  tags, so an answer too many would be taken for the answer to the next call.
- `PendingIsAwaited`: a socket is in a pending status only while the application waits
  for that call on that socket. A WRITE may find a socket it was not meant for (one for
  a connection since closed is taken by a pending accept on its port); whatever it finds,
  nobody is answered who does not wait.
- `StatusHasRecord`: `HandleTCPStatus` dereferences what `tcpq.Remove()` returns; there
  is a record for every STATUS under way and for every request still to be answered.
  (There may be more, as `sock_status` shows.)
- `ConnectServed`: a connect that tcp_module has taken has a record in SYN_SENT, or its
  WRITE is on its way: no other record shadows it in `associateConnection`.

**stack** (passes; 164 791 states). Fourteen ways to start the stack, each with the modules
its question is about: `start` and `watch` (with a monitor) get through; in `noother` and
`watchreader` a module waits for one that never opens its FIFO; in `noarp` ip_module gives up.
Two have traffic: `linkfull` (driver, mux, ARP and IP) and `transport` (the other
protocols, with an application). In the other seven a module ends, at any point from its first
open on (`monitorends`: the monitor itself).

- `OpensMeet`: there are no processes that wait in their opens for each other. Who stays in an
  open waits in the end for somebody who was not started, never opens the FIFO, or was gone before
  it came there. All three are reached: `ethernet_mux` waits for `other_module` whenever
  `ipother_module` is named, as one name contains the other; the monitor waits for `reader`, which
  has no FIFO for it; and a module that dies of the monitor's end between two opens leaves its
  neighbour in `open()`.
- `StuckIsFull`: modules that all wait for one another need at least two full FIFOs,
  whose writers wait to send more. Such deadlocks are reached: device_driver and ethernet_mux in
  `linkfull`, each with a full FIFO to the other; ip_mux and tcp_module in `stack_full.cfg`.
  (tcp_module and sock_module get there with four frames and more than two million states, which
  the runs leave out and the theorem does not.)
- `EndReachesAll`: when a module ends, all others end, whatever handler they are in, unless
  death waits for a key. If not, nobody can go on, and one of the two reasons of the property
  holds: a module stays in an open whose other end is missing (`monitorends`, `tcpends`), or
  at least two wait at full FIFOs (`fullends`). An idle application notices nothing until its
  next call. In `noarp` it is ip_module's own exit that ends the others.

**devices** (passes; 517 924 states). Rings of three slots, four frames each way.

- `RingsAreQueues`: both rings implement `FrameQueue`, with the handler and the main loop
  working on them in turns.
- `FramesInOrder`, `FramesAccounted`: along the whole way, socketpairs and FIFOs
  included, no frame overtakes another, is doubled or vanishes without having been refused.
- `KeepsBackOne`: what the wrong `Numitems` costs: at most one frame is left in the
  output ring with nobody to send it.
- `FramesTaken`: although signals are merged, every frame of the reader is taken.

**network** (passes; 466 075 states). Two hosts, in two combinations that between them have
every program; two packets, and two events in all (a packet, a loss, a damage).

- `AddressesRight`: no ARP cache has a wrong entry, and a packet travels in a frame to the
  host it is for, except for what is said above of broadcasts and diffusion errors.
- `AnswerIsForQuestion`: ip_module takes the next message from arp_module for the answer
  to its question. It is.
- `DeliveredInOrder`: with a promiscuous interface that hears its own frames, a transport
  still gets nothing twice, nothing for others, and nothing out of order.
- `NeighbourLearnt`: the packet discarded for want of an ARP entry makes the entry come.
- `BecomesQuiet`: answers are not answered for ever, unless an ICMP type is unknown to
  `respond`, which then may return it unchanged.

**udp** (passes; 1 675 488 states). Two sockets and ports, seven calls of any kind, two
datagrams at any time.

- `StatusMeetsRequest`: the requests in `udpq` are, in order, those whose answers are
  under way and those udp_module has still to serve.
- `ForwardsOwned`: every forward belongs to an open socket or is about to be taken out.
- `ReadOwn`: nothing read from a socket was for another port, though sockets are closed and
  given out again with datagrams and answers under way.
- `CallsReturn`: every call but a read returns.

**wire** (passes; 5 078 states). Every kind of packet the stack builds but two: parameter
problems, for which see `wire_pointer` below, and timestamps, whose replies leave with the
checksum of the request.

- `ArrivesAsBuilt`: every field at the receiver is what was last set, every checksum is
  right, the data is what was sent, padding or not; for answers too.

**Four runs that fail, one for each finding:**

| run | property | what happens |
|---|---|---|
| `tcp_send_loop` | `LoopStaysInBuffer` | the send buffer no longer holds the bytes under way (Extract removed them), a segment of the peer restarts the send loop, `room` wraps around, `substr` throws, tcp_module ends |
| `sock_status` | `StatusMeetsWrite` | a CLOSE that finds no record gets no STATUS, its record stays in `tcpq`, and from then on every STATUS is paired with the request before its own: writes are done and do not return |
| `device_signal` | `WriteSignalled` | the writer calls `kill` with its arguments exchanged: the outcome of a write stays in the socketpair until the reader has a frame |
| `udp_close` | `ReaderForwarded` | closing a socket that was never bound sends a CLOSE of nothing but wildcards, and udp_module erases another socket's forward |

**Seven more configurations** are kept for the reader and not listed as runs: each
checks one property that the code violates in the way described.

| configuration | module, property | what happens |
|---|---|---|
| `tcp_accepted` | `MCTCPConnection`, `AcceptedIsCounted` | a full-sized segment is delivered and acknowledged as if it had not come: `last_recvd` does not move, since its payload was gone before `postRecv` measured it |
| `tcp_end_of_file` | `MCTCPConnection`, `ReaderSeesEnd` | a FIN that arrives between two reads leaves no trace in sock_module; the next `minet_read` waits for good instead of returning 0 |
| `tcp_time_wait` | `MCTCPConnection`, `TimeWaitEnds` | TIME_WAIT never ends: `main` calls `MinetGetNextEvent` without a timeout, so the Timeout branch is dead code |
| `sock_accept` | `MCSocketTable`, `AcceptListens` | a second `minet_accept` on a socket is matched, through its wildcard, with the connection accepted before; the record added for it is erased, and the call waits while nothing listens |
| `sock_close` | `MCSocketTable`, `CloseOwn` | closing the listening socket is matched in the same way and closes the connection it accepted |
| `wire_length` | `MCWireFormats`, `LengthIsReal` | `ICMPPacket` sets a total length of 48 for every message (`icmp.cc:292`), while `ip.cc:196` says that it is computed |
| `wire_pointer` | `MCWireFormats`, `PointerKept` | the pointer of a parameter problem lies where the identifier does, and `SetIdentifier(0)` overwrites it (`icmp.cc:302`, `icmp.cc:320`) |

One more passes: `stack_full` (`MCMinet`; 344 792 states) checks `TypeOK`, `OpensMeet` and
`StuckIsFull` for the two busiest starts: `segmented`, where send loops of two segments get ip_mux
and tcp_module stuck, each with a full FIFO to the other, and `resent`, where sock_module takes part
and WRITEs are sent again.

**Bounds.** Two hosts and one connection are the whole of what this module is
about. Windows of 2 or 3 with segments of 1 or 2 bytes are the least with which a
window holds more than one segment, a loop has more than one iteration, and a write
exceeds the window; 5 bytes one way and 1 the other fill the window, cross each
other and meet the wrapped `room`. (5 is the least with which a send loop that
forgets the window gets past it: Extract shortens the buffer by what it sends, so
the loop can only reach beyond the window if more than two windows were buffered.) `PadTo` = 2 lies between the sizes of segments
(1, 2) as the real 6 lies between 1 and 536. `Width` = 64 is larger than any number
reached, so a wrapped value is far larger than any honest one, as with 2^32.
`GarbageLen` is {2} in `tcp_faulty`, which moves `last_sent` beyond every number the
peer has seen, and {0} in `tcp_progress`, the value for which a FIN counts as nothing;
the failing runs have both. One fault is enough to put any one segment anywhere; the proofs of section 5 lift
`AckChain` and `SegmentsBacked` to any number of them.

`SocketTable` runs with two sockets and two ports (three sockets in the failing
configurations), so that both run out and are used by a listener and a connect at once; a bin of one byte and at most one byte unread
(`BinSize`, `MaxUnread`) so that a bin is full after the first byte; `MaxCalls` bounds the
calls by name. One remote end is enough: what goes wrong between connections goes
wrong between ports and wildcards already.

`Minet` runs with `PipeCap` = 1, the FIFO that fills soonest; a deadlock with larger FIFOs
is one with as many more messages. `MaxSegments` = 2 is one segment more than fits into a FIFO.
`traffic` bounds what comes from outside and the WRITEs sent again, by configuration: 3 in `linkfull`,
which does get stuck with it, 4 in `fullends`, with which the end of a module
meets a deadlock, and 1 or 2 in the others, so that an end meets handlers at every point.

`DeviceDriver` runs with rings of three slots, which hold two frames, so that a ring can
be empty, full and in between, and `Numitems` wrong; four frames wrap both indices around. `Network` needs two hosts and the router for a third party's ARP frames to
be heard; two packets for an order. A larger run of its safety properties alone, with
`MaxEvents` = 3 (10 278 010 states), shows nothing else. `UdpSockets` has seven calls,
enough for a socket to be connected, closed, given out and bound again with a read after
that; five are enough for the failing run. `WireFormats` takes each address, port, number and
identification from both ends of its range, and data of no, odd and even length, shorter and
longer than the eight bytes an ICMP error quotes.

**Fairness.** Each process is a loop that blocks in `select` over its FIFOs and returns as
soon as one has something in it. Weak fairness is assumed of a process, never of one of
its FIFOs: `MinetGetNextEvent` serves the first readable FIFO in the order in which they were
opened, so a FIFO further back may wait as long as an earlier one is busy. In runs
with finite traffic each still comes to its turn.

- `TCPConnection`: each host's TCP process and socket process; nothing of applications or
  of the network.
- `Minet`: some process that can run runs. Which of them is a matter of the scheduler.
  Nobody needs to send, call, hit a key or stop.
- `DeviceDriver`: the signal handler, the main loop, the writer, and the reader between
  its write and its signal. Frames need not come.
- `Network`: some module that can run runs; nothing need be sent, lost or damaged.
- `UdpSockets`: udp_module's requests, sock_module and the library's return.

## 5. What is proved

All proofs hold for every value of the constants that the named assumptions of the
modules allow; TLC evaluates these in every run. None of them restricts more than types
and "at least one", distinctness of names, and that a ring has two slots. Two theorems,
`CloseIsOrderly` and `ArrivesTheorem`, have a hypothesis of their own.

| module | theorem | states | of |
|---|---|---|---|
| `TCPConnection_proofs` | `TypeCorrect` | `TypeOK` | `TCPConnection` |
| | `AcknowledgedWasReceived` | `AckChain` | |
| | `SegmentsStayBacked` | `SegmentsBacked` | |
| | `CallsInStep` | `AnswersInStep` | |
| | `LoopKeepsWindow` | `WindowRespected` | |
| | `LoopKeepsTimer` | `TimerCovers` | |
| | `OpenIsMutual` | `HandshakeAgreed` | |
| | `CloseIsMutual` | `CloseAgreed` | |
| | `CloseIsOrderly` | `OrderlyClose`, if segments are at most lost | |
| `TCPOrder_proofs` | `BytesComeInTurn` | `FreshInOrder` | |
| `SocketTable_proofs` | `SocketTypeCorrect` | `TypeOK` | `SocketTable` |
| | `PendingIsCalled` | `PendingIsAwaited` | |
| | `StatusFindsRecord` | `StatusHasRecord` | |
| | `LibraryServed` | `CallsInOrder`, the refinement to `SocketCall` | |
| | `ConnectNeverOrphaned` | `ConnectServed` | |
| `DeviceDriver_proofs` | `DriverTypeCorrect` | `TypeOK` | `DeviceDriver` |
| | `OutputKeepsBackOne` | `KeepsBackOne` | |
| | `DriverImplementsQueues` | `RingsAreQueues`, the refinement to `FrameQueue` | |
| | `FramesKeepOrder` | `FramesInOrder` | |
| | `FramesAreAccounted` | `FramesAccounted` | |
| `Network_proofs` | `NetworkTypeCorrect` | `TypeOK` | `Network` |
| | `AnswersMeetQuestions` | `AnswerIsForQuestion` | |
| | `FramesGoWherePacketsDo` | `AddressesRight` | |
| | `PacketsKeepOrder` | `DeliveredInOrder` | |
| `UdpSockets_proofs` | `UdpTypeCorrect` | `TypeOK` | `UdpSockets` |
| | `StatusesMeetRequests` | `StatusMeetsRequest` | |
| | `ForwardsHaveOwners` | `ForwardsOwned` | |
| | `ReadsAreOwn` | `ReadOwn` | |
| `Minet_proofs` | `StackTypeCorrect` | `TypeOK` | `Minet` |
| | `OpensAlwaysMeet` | `OpensMeet` | |
| | `StuckMeansFull` | `StuckIsFull` | |
| `WireFormats_proofs` | `ArrivesTheorem` | `ArrivesAsBuilt`, for `BuiltRight` | `WireFormats` |
| | `SumComplement` | a checksum put in its place gives 0 | |
| | `SetIPRight`, `SetTCPRight`, `SetUDPRight`, `SetICMPRight` | what a setter promises | |

### TCPConnection: the acknowledgement chain

The first three theorems follow from one inductive invariant, `AckInv`: `TypeOK`, `AckChain`,
`SegmentsBacked` and `Started` (`last_sent` is never below the initial number).

- `TypeOK` alone is not inductive. The send loop extracts at the offset `last_sent -
  last_acked`; were that negative, the buffer left over would not be a sequence of
  bytes. It is not negative because `last_acked` is at most what the peer received,
  and that at most what was sent: `AckChain`.
- `AckChain` alone is not inductive either, since it says nothing of the segment
  about to be received. `SegmentsBacked` does; and it is preserved because a record's
  counters only grow (`ReceivedIsBacked`, `SentIsBacked`, `BackedByGoto`) and because
  losing, doubling and reordering put nothing new under way (`NetChain`).
- `Started` covers the time before the peer has received anything.

The step theorem has one case per action, grouped as the module groups them
(opening, transfer, closing, sockets, network). All actions that receive a segment
share `PacketStep`, those that take a request `RequestStep`: from the numbers of the
new record and of the segments it sends they conclude the invariant, so each
action has only its own arithmetic to show.

### TCPConnection: agreement

The next five theorems follow from `AgreementInv`, which adds three
parts to `AckInv`.

- `CallInv`. A record is as `addClosedConnection` made it and its open still to come
  (`Fresh`), or no open will ever reach it again and `tcpq`, the requests and the answers
  under way fit the status of the socket (`Begun`). That a connection is opened once is
  what the other parts need: an open resets the record's numbers. `AnswersInStep` follows.
- `SendInv`. `SentRight` describes the send loop. `room` is either honest, and then room
  and unacknowledged bytes together fit in the window, or has wrapped around, and then
  the first `Extract` throws: the buffer is shorter than its offset. This is the proof of
  `WindowRespected`, for the reason nobody intended; the same part keeps the timer.
- `AgreeInv`. `Agrees` relates two records: whoever is synchronised has the other's initial
  number, and the other is past opening; a passive closer has an active one opposite.
  `SegAgrees` says the same of a record and a segment under way, so that it may arrive
  late, twice or not at all. Both are kept because records only go forward (`Onward`,
  `RecordKept`).

`CloseIsOrderly` assumes `KeepsOrder`: the network does nothing (as in the run `tcp_progress`),
or it loses segments and does no more. With a segment repeated or out of turn `OrderlyClose` is
false. The invariant, `CloseInv`, is about the segments under way to a host (`InOrder`). The FIN
of a host in FIN_WAIT1 or FIN_WAIT2 is the last segment on its way to the peer; so when the peer
has taken it and is in CLOSE_WAIT or LAST_ACK, nothing is on the way to it, unless this host has
taken the peer's FIN too and is in TIME_WAIT. The acknowledgement that ends LAST_ACK therefore
comes from a host in TIME_WAIT. `Closes` says of every step of tcp_module what the invariant needs of it;
all else (whose FIN it can be, in which states) is in `AgreementInv`.

### TCPConnection: the order of bytes

`StreamInv` follows the bytes of one writer to the other application, once for each
direction. Of what the writer's application has written, tcp_module has taken the first `e`
bytes and a WRITE under way has the others (`AskedRight`); the part of the send buffer that
the send loop has not reached ends at `e` (`BufferRight`), and every byte that a segment or the
reader's host has comes before that part (`Gone`). A segment has consecutive bytes, a later
number means later bytes, and two with one number are one segment twice (`SegmentsRight`).
At the reader, a segment that can still be accepted has only bytes that are in their turn after all the
reader's host has (`ReaderRight`), and the receive buffer, the WRITEs going up and what was read are
each in turn and continue or repeat one another (`StreamRight`). In turn means: all bytes there are
earlier than this one plus `Slack`. `Slack` is 1, plain order, unless the network duplicates:
then the second copy of the first segment, accepted while `last_recvd` is 0, may fill in what a stale
STATUS made tcp_module erase of the first one, and a byte may be out of turn by less than a segment.

### SocketTable

`SockInv` is `TypeOK`, `CallInv` and `StatusHasRecord`. `HandleTCPStatus` takes the head
of `tcpq` unseen, so its type rests on `StatusHasRecord`: the answers under way and the
requests still to be answered are no more than the records. This is counting over FIFOs
(`CountAppend`, `CountTail`), and every action that moves a message has its case. `CallInv`
says that an answer in `toApp` is for the call being waited for and that a pending
socket is the call's own. With it a step is either an answer at once (`AnsweredAtOnce`), an
answer to a pending socket (`AnsweredLater`) or nothing to the library (`CallUnmoved`),
which are the steps of `SocketCall` and its stutter.

`ConnectServed` needs more (`ConnectInv`). A port that has no owner, or whose socket is only
bound, occurs in no record and no message (`FreshPorts`); so when a connect reaches
`associateConnection`, no other record can match it, wildcards or not. From there it goes
through three stages, each entered before the last is left: the request under way
(`Asked`), its record in SYN_SENT (`Opening`), the WRITE under way (`Opened`).

### DeviceDriver

The first part shows what `Push` and `Pull` do to the frames a ring stands for, by case
distinction on where the indices wrap (arithmetic modulo the size, without induction).
`DriverInv` then has both rings well-formed and `KeepsBackOne`; each step of the driver is
one of `FrameQueue`, or a stutter, for each of the rings (`InStep`, `OutStep`). That
`KeepsBackOne` is part of the invariant matters for the critical section, which pushes and
pulls in one step.

For the order of frames all places where a frame may be form one line. Each step leaves
the line as it is, takes one frame out of it, or appends a new one (`Moves`), and all
three keep it increasing. For `FramesAccounted` the same line is taken as a set: what a step takes
out of it was delivered or refused, what it appends was just handed over.

### Network

`NetInv` strengthens the two properties to the frames and answers themselves: an ARP
frame has its sender's address in both places (`ArpRight`), so what `Update` enters is
right (`CacheRight`), so what arp_module answers is right (`QuestionRight`), so a packet's
frame is (`IpRight`). `QuestionRight` is also the hand-over between ip_module and
arp_module: question or answer, never both, never a second one.

`PacketsKeepOrder` needs its own invariant, `OrderInv`. A packet of one host to another goes
through five queues: down from its transport, held by ip_module while arp_module is asked,
from ip_module to the wire, up to the other ip_module, and to its transport. In each the packets
are in the order in which they were sent, and whatever is in one of them was sent after
everything in those further on. Damaged packets are left out of this, since they reach no
transport, and the packets that the routing version turns back to its own host never come into the
queues to and from the wire.

### UdpSockets

`UdpInv` has `TypeOK`, `ReadOwn` and six parts. `CallRight`: of a call that is made there is
exactly one trace: the request, a record in `udpq` that is the last one, a socket that reads,
or the answer. `RecordsRight`: the records of `udpq` are, in order, those of the
answers under way and then those of the requests still to be served (`Meets`), which is what makes it safe
that `HandleUDPStatus` takes the front record without looking at it. `SocksRight`: what is in a bin came for
the socket's port, and a socket's status says what its connection may be. `OwnersRight`: a port
belongs to the socket it was assigned for, and what is forwarded for an open socket is what
it has, or had when it was bound. `ForwardsRight`: there is one forward for a port, and either a
socket has that connection or a request in the queue, a CLOSE or a FORWARD, takes it out.
`DatagramsRight`: a datagram on its way to sock_module goes to the port it came for. With a port
assigned once only, that is why a socket reads only its own.

### Minet

The three theorems hold for every way to start the stack: any set of modules in
`MINET_MODULES`, any set monitored, any set launched, any that end at any time, FIFOs of any length
and any number of segments in a handler.

- `OpensMeet`: every FIFO gets a number (`Rank`) such that each module opens its FIFOs with
  growing numbers (`RankGrows`, over the lists of calls in the `main` of all modules). That
  such numbers exist is what "the orders fit together" means. Suppose that some processes all wait in
an open for another of them. Take the one whose FIFO has the least number: its other end has not come to that
FIFO and waits at one with a smaller number, or it has and the open returns (`FirstCanOpen`). Neither
can be. The ends of other modules play no part in this, which is why it holds with them too.
- `StuckIsFull`: `StackInv` says that what a module has opened the other end opens too (`OpenedMet`,
  from which `Linked`); that all modules but ip_module and the application only send, and what is left of a handler
  is part of one (`TodosKnown`; for the send loops of tcp_module of any length: `SegmentsPlain`); that while ip_module waits, its question, arp_module's handler or
  the answer is under way (`ArpAnswers`); that a call of the application is in exactly one of
  its stages (`CallsInTurn`). Now let all be stuck, and some module other than the application
  wait. If it is ip_module that waits for an answer, arp_module cannot write (`OnlyIpWaitsEmpty`). If it
  waits to write, then whoever should read has something to read and does not, so it waits
  too, and it is not the application (`FullNeedsFull`); so two wait to write.

### WireFormats

The theorem holds for all addresses, ports, numbers, identifications and data. Its
hypothesis is `Kinds \subseteq BuiltRight`: every kind of packet the stack builds except a
parameter problem and a timestamp, of which the property is false (the run `wire` leaves out the
same two). It is proved from the bytes up.

- Bytes. What `SetData` writes is read back, and the bytes beside it stay (`SetDataBytes`); a field
  has its own part of a byte or a word, and changing that part changes no other (`PutField`,
  `Apart`, and for the flags and the fragment offset, which share a word, `OtherPart`).
- Sums. The checksum is a sum of words that is folded twice. The sums are a recursive function;
  the provers have no induction rule for it that takes a predicate, but they can use that every
  set of natural numbers has a least element (`LeastNumber`, from `WFMin`). So `SumsExist` and the
  lemmas after it look at the least number for which what they say would be false.
  `FoldTwice` shows that two foldings of a 32-bit sum leave a number congruent to it modulo 65535, and 0 only for 0,
  hence `SumComplement`.
- Setters. `SetIPRight`, `SetTCPRight`, `SetUDPRight`, `SetICMPRight`: a setter sets its
  field, keeps all others, and leaves a right checksum for whatever else is there at that time.
- Packets. `WireInv` is inductive. Of the calls still to come it says that each is a right one
  (`RightCalls`), which of them must still come (`Required`), and what the last one for a field will
  set (`Due`); that the transport's checksum is right after the *last* call only, which is why the
  invariant knows that the last call is never one of the IP header nor the payload
  (`CallsRight`). That the total length or the protocol, which are part of the pseudo header, may still
  change does no harm as long as a setter of the transport comes after them. A frame is its headers, the payload and zeros
  (`Framed`), which `TakenApart` divides in the same places (`TakenApartRight`).
- Padding. What the receiver has may be longer than what was sent. TCP and UDP compute their checksum
  over what the lengths say is data (`TCPSumPadded`); an ICMP message, whose checksum is over
  everything there is, is never so short that it is padded, since it quotes or carries at least 20 bytes.

`Respond` keeps the invariant with the setters that turn a request round: it begins with
headers that are finished already.

## 6. What is only model-checked, what is not modelled

Only model-checked:

- all liveness (`OpensReturn`, `WritesReturn`, `PassiveCloseEnds`, `EndReachesAll`,
  `FramesTaken`, `NeighbourLearnt`, `BecomesQuiet`, `CallsReturn`), which with fairness and
  ENABLED is out of the prover's reach;
- `LengthIsReal` and `PointerKept` of `WireFormats`, and the other properties of section 4 that
  fail.

Not modelled:

- the route table (`route.cc`): `match_route` frees the table's own entry and returns it,
  and never looks at the last. After the first lookup that finds an entry the list has
  a freed element in it, and nothing more can be said of it;
- `minet_select`, `minet_poll` and their relatives, which the build leaves out
  (`SELECTPOLL_BROKEN`), and the branches of the library for kernel sockets;
- the ICMP half of sock_module: nothing calls `SendICMPRequest`, so icmp_module never gets a
  request from it, and what icmp_module sends up is ignored (`sock_module.cc:1052`); and ping,
  which would use it;
- several applications at once, and with them a CLOSE while an open is under way (SYN_SENT);
- non-blocking calls: no code makes a socket non-blocking (the request for it falls into
  the default case);
- the Timeout event, which `main` never lets happen;
- what `DIFFUSION_HACK` guards, which is not compiled; `bitsource`;
- what the monitor is told, and the timeline viewer (that the monitor is told, and
  that its end ends others, is in `Minet`); a full socketpair of the driver;
- the old TCP in `tcp_in.h` and `sock_in.h`, which no file includes;
- the HTTP applications, other than as clients and servers that make one blocking call
  after the other.
