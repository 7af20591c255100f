------------------------------- MODULE Minet --------------------------------
(***************************************************************************)
(* The processes of a Minet stack and the FIFOs between them: Minet.cc and *)
(* the main() of every module.  Each module opens its FIFOs one after the  *)
(* other, each open waiting for the other end, and tells the monitor of    *)
(* each; then it handles the event of the first FIFO that is readable, and *)
(* what it sends blocks on a full FIFO.  A module that meets the end of a  *)
(* neighbour dies of it.                                                   *)
(*                                                                         *)
(* What a module does with a message is here only what it sends and waits  *)
(* for; the other modules of this project say when.  A message is "data"   *)
(* or the "answer" to one: the handlers answer data, not answers.          *)
(***************************************************************************)
EXTENDS Naturals, FiniteSets, Sequences

CONSTANTS
  Configs,     \* the ways in which the stack is started, by name; see Config
  PipeCap,     \* messages that fit in a FIFO
  MaxSegments  \* segments that tcp_module sends in one handler

\* What main() of each module does after MinetInit, in its order.
Connect(m) == [call |-> "MinetConnect", module |-> m]
Accept(m)  == [call |-> "MinetAccept", module |-> m]

DeviceDriverOpens == <<Accept("ethernet_mux")>>
EthernetMuxOpens  == <<Connect("device_driver"), Accept("arp_module"),
                       Accept("ip_module"), Accept("other_module")>>
OtherOpens        == <<Connect("ethernet_mux")>>
ArpOpens          == <<Connect("ethernet_mux"), Accept("ip_module")>>
IpOpens           == <<Connect("ethernet_mux"), Connect("arp_module"),
                       Accept("ip_mux")>>
IpMuxOpens        == <<Connect("ip_module"), Accept("udp_module"),
                       Accept("tcp_module"), Accept("icmp_module"),
                       Accept("ipother_module")>>
UdpOpens          == <<Connect("ip_mux"), Accept("sock_module")>>
TcpOpens          == <<Connect("ip_mux"), Accept("sock_module")>>
IcmpOpens         == <<Connect("ip_mux"), Accept("sock_module")>>
IpOtherOpens      == <<Connect("ip_mux"), Accept("sock_module")>>
SockOpens         == <<Connect("tcp_module"), Connect("udp_module"),
                       Connect("icmp_module"), Connect("ipother_module"),
                       Accept("app")>>
AppOpens          == <<Connect("sock_module")>>
MonitorOpens      == <<Accept("reader"), Accept("writer"),
                       Accept("device_driver"), Accept("ethernet_mux"),
                       Accept("ip_module"), Accept("arp_module"),
                       Accept("other_module"), Accept("ip_mux"),
                       Accept("ipother_module"), Accept("icmp_module"),
                       Accept("udp_module"), Accept("tcp_module"),
                       Accept("sock_module"), Accept("app")>>

Connections ==
  [device_driver |-> DeviceDriverOpens, ethernet_mux |-> EthernetMuxOpens,
   other_module |-> OtherOpens, arp_module |-> ArpOpens, ip_module |-> IpOpens,
   ip_mux |-> IpMuxOpens, udp_module |-> UdpOpens, tcp_module |-> TcpOpens,
   icmp_module |-> IcmpOpens, ipother_module |-> IpOtherOpens,
   sock_module |-> SockOpens, app |-> AppOpens, monitor |-> MonitorOpens]

Module == DOMAIN Connections
Names  == Module \cup {"reader", "writer"}

Config == [modules : SUBSET Names, monitored : SUBSET Names,
           launched : SUBSET Module, traffic : Nat,
           quits : SUBSET Module, xterm : BOOLEAN]

ASSUME CapAssumption     == PipeCap \in Nat \ {0}
ASSUME SegmentAssumption == MaxSegments \in Nat \ {0}
ASSUME ConfigAssumption  == \A n \in DOMAIN Configs : Configs[n] \in Config

VARIABLES
  config,  \* the name of how this stack was started; never changes
  opened,  \* opened[p]: the place in OpenOrder[p] that p has come to
  phase,   \* phase[p]: where process p is
  pipe,    \* pipe[<<p, q>>]: what p has sent to q and q has not received
  todo,    \* todo[p]: what is left of the handler p is in
  traffic  \* how much more may come from outside: frames, calls, resends

vars == <<config, opened, phase, pipe, todo, traffic>>

-----------------------------------------------------------------------------
(* The environment: MINET_MODULES and MINET_MONITOR are searched with      *)
(* strstr, and other_module is a part of ipother_module.                   *)
NamedIn(m, names) ==
  m \in names \/ (m = "other_module" /\ "ipother_module" \in names)

MinetIsModuleInConfig(c, m)  == NamedIn(m, c.modules)
MinetIsModuleMonitored(c, m) == NamedIn(m, c.monitored)

\* A FIFO is the pair of its two ends.  MinetInit opens the one to the monitor,
\* a connect first the one it reads from, an accept the one it writes to.
MinetInit(p)       == <<p, "monitor">>
MinetConnect(p, q) == <<<<q, p>>, <<p, q>>>>
\* Both ends in the same order (mutant).
AcceptLikeConnect(p, q) == <<<<q, p>>, <<p, q>>>>
MinetAccept(p, q)  == <<<<p, q>>, <<q, p>>>>

EndsOf(p, x) == IF x.call = "MinetConnect" THEN MinetConnect(p, x.module)
                ELSE MinetAccept(p, x.module)

\* The FIFOs of each module in the order in which it opens them, if all modules
\* are there to be called for.  The monitor only reads.
OpenOrder ==
  [p \in Module |->
     IF p = "monitor"
     THEN [k \in DOMAIN Connections[p] |-> <<Connections[p][k].module, p>>]
     ELSE [k \in 1..(2 * Len(Connections[p]) + 1) |->
             IF k = 1 THEN MinetInit(p)
             ELSE EndsOf(p, Connections[p][k \div 2])[1 + (k % 2)]]]

\* The calls that p makes, and the places in OpenOrder[p] of what they open.
CallsMade ==
  [n \in DOMAIN Configs |->
     [p \in Module |->
        {i \in DOMAIN Connections[p] :
           LET m == Connections[p][i].module
           IN  IF p = "monitor" THEN MinetIsModuleMonitored(Configs[n], m)
               ELSE MinetIsModuleInConfig(Configs[n], m)}]]
OpensMade ==
  [n \in DOMAIN Configs |->
     [p \in Module |->
        {k \in DOMAIN OpenOrder[p] :
           IF p = "monitor" THEN k \in CallsMade[n][p]
           ELSE IF k = 1 THEN MinetIsModuleMonitored(Configs[n], p)
           ELSE k \div 2 \in CallsMade[n][p]}]]

Calls(p)        == CallsMade[config][p]
Places(p)       == OpensMade[config][p]
Opens(p)        == {OpenOrder[p][k] : k \in Places(p)}
HasHandle(p, q) ==
  \E i \in Calls(p) : Connections[p][i].module = q
Launched        == Configs[config].launched
Fifos           == UNION {Opens(p) : p \in Launched}

-----------------------------------------------------------------------------
Phase == {"opening", "telling", "running", "dying", "ended"}
Step  == [do : {"send", "await"}, module : Module, type : {"data", "answer"}]

TypeOK ==
  /\ config \in DOMAIN Configs
  /\ opened \in [Launched -> Nat]
  /\ phase \in [Launched -> Phase]
  /\ pipe \in [Fifos -> Seq({"data", "answer"})]
  /\ \A f \in Fifos : Len(pipe[f]) <= PipeCap
  /\ todo \in [Launched -> Seq(Step)]
  /\ traffic \in 0..Configs[config].traffic

Init ==
  /\ config \in DOMAIN Configs
  /\ opened = [p \in Launched |-> 0]
  /\ phase = [p \in Launched |-> "opening"]
  /\ pipe = [f \in Fifos |-> <<>>]
  /\ todo = [p \in Launched |-> <<>>]
  /\ traffic = Configs[config].traffic

-----------------------------------------------------------------------------
(* Opening: an open returns as soon as the other end is open, or waits in  *)
(* its own open of the same FIFO.  It returns, too, when who opened the    *)
(* other end has ended since, but not when it ended before it came there.  *)
OtherEnd(p, fifo) == IF fifo[1] = p THEN fifo[2] ELSE fifo[1]

NextPlace(p) ==
  CHOOSE k \in Places(p) :
    opened[p] < k /\ \A j \in Places(p) : opened[p] < j => k <= j
NextFifo(p)  == OpenOrder[p][NextPlace(p)]
IsOpening(p) == phase[p] = "opening" /\ \E k \in Places(p) : opened[p] < k

HasReached(q, fifo) ==
  /\ q \in Launched
  /\ \E k \in Places(q) : /\ OpenOrder[q][k] = fifo
                          /\ k <= opened[q] \/ (IsOpening(q) /\ k = NextPlace(q))

CanOpen(p) == IsOpening(p) /\ HasReached(OtherEnd(p, NextFifo(p)), NextFifo(p))

\* MinetInit, MinetConnect and MinetAccept write to the monitor when they are
\* through: after the first FIFO, and after both of each neighbour.
EndsCall(p, k) ==
  k % 2 = 1 /\ p # "monitor" /\ MinetIsModuleMonitored(Configs[config], p)

OpenNext(p) ==
  /\ CanOpen(p)
  /\ opened' = [opened EXCEPT ![p] = NextPlace(p)]
  /\ phase' = [phase EXCEPT ![p] = IF EndsCall(p, NextPlace(p)) THEN "telling" ELSE @]
  /\ UNCHANGED <<config, pipe, todo, traffic>>

\* A monitored module writes to the monitor what it opens, that it is up, and
\* every event.
MonitorGone(p) == /\ MinetIsModuleMonitored(Configs[config], p)
                  /\ "monitor" \in Launched /\ phase["monitor"] = "ended"

MinetSendToMonitor(p) ==
  /\ phase[p] = "telling" /\ ~MonitorGone(p)
  /\ phase' = [phase EXCEPT ![p] = "opening"]
  /\ UNCHANGED <<config, opened, pipe, todo, traffic>>

AllOpened(p) == phase[p] = "opening" /\ \A k \in Places(p) : k <= opened[p]

\* ip_module asks for ethernet_mux again where it means ip_mux and arp_module: it
\* says so and ends at once if it has the first and not both of the others.
LacksModules(p) ==
  /\ p = "ip_module" /\ MinetIsModuleInConfig(Configs[config], "ethernet_mux")
  /\ ~ /\ MinetIsModuleInConfig(Configs[config], "ip_mux")
       /\ MinetIsModuleInConfig(Configs[config], "arp_module")

GiveUp(p) ==
  /\ AllOpened(p) /\ LacksModules(p) /\ ~MonitorGone(p)
  /\ phase' = [phase EXCEPT ![p] = "ended"]
  /\ UNCHANGED <<config, opened, pipe, todo, traffic>>

AllOpen(p) ==
  /\ AllOpened(p) /\ ~LacksModules(p) /\ ~MonitorGone(p)
  /\ phase' = [phase EXCEPT ![p] = "running"]
  /\ UNCHANGED <<config, opened, pipe, todo, traffic>>

-----------------------------------------------------------------------------
(* What the handlers send and wait for: the ways in which a module may     *)
(* handle a message of some type from q.                                   *)
Send(q, type) == [do |-> "send", module |-> q, type |-> type]
Data(q)       == Send(q, "data")
Answer(q)     == Send(q, "answer")
Await(q)      == [do |-> "await", module |-> q, type |-> "answer"]

EthernetMuxScripts(q) ==
  IF q = "device_driver"
  THEN {<<Data(r)>> : r \in {"arp_module", "ip_module", "other_module"}}
  ELSE {<<Data("device_driver")>>}

ArpScripts(q) ==
  IF q = "ip_module" THEN {<<Answer(q)>>, <<Answer(q), Data("ethernet_mux")>>}
  ELSE {<<>>, <<Data("ethernet_mux")>>}

\* The answer before the question (mutant).
AwaitFirst == <<Await("arp_module"), Data("arp_module")>>
AskArp     == <<Data("arp_module"), Await("arp_module")>>
SendPacket == {AskArp, AskArp \o <<Data("ethernet_mux")>>}

IpScripts(q) ==
  SendPacket \cup (IF q = "ethernet_mux" THEN {<<>>, <<Data("ip_mux")>>} ELSE {})

IpMuxScripts(q) ==
  IF q # "ip_module" THEN {<<Data("ip_module")>>}
  ELSE LET last == IF HasHandle("ip_mux", "ipother_module")
                   THEN "ipother_module" ELSE "ip_module"
       IN  {<<Data(r)>> : r \in {"udp_module", "tcp_module", "icmp_module", last}}

UdpScripts(q, type) ==
  IF q = "ip_mux" THEN {<<Data("sock_module")>>, <<Data("ip_mux")>>}
  ELSE IF type = "answer" THEN {<<>>}
  ELSE {<<Answer(q)>>, <<Data("ip_mux"), Answer(q)>>}

\* The send loops, as far as the window lets them, and the acknowledgment before.
Segments == {[i \in 1..n |-> Data("ip_mux")] : n \in 0..MaxSegments}

\* A packet: data for the application and segments, or the two the other way
\* round at the ends of a connection.  A request: the SYN twice, one packet, or
\* segments.  The answer to data: the rest of the data once more.
TcpScripts(q, type) ==
  IF q = "ip_mux"
  THEN Segments \cup {<<Data("sock_module")>> \o s : s \in Segments}
         \cup {<<Data(q), Data("sock_module")>>}
  ELSE IF type = "answer" THEN {<<>>, <<Data(q)>>}
  ELSE {<<Data("ip_mux"), Data("ip_mux"), Answer(q)>>,
        <<Data("ip_mux"), Answer(q)>>, <<>>}
         \cup {<<Answer(q)>> \o s : s \in Segments}

IcmpScripts(q, type) ==
  IF q = "ip_mux" THEN {<<Data(q)>>, <<Data("sock_module")>>}
  ELSE IF type = "answer" THEN {<<>>} ELSE {<<>>, <<Answer(q)>>}

IpOtherScripts(q, type) ==
  IF q = "ip_mux" \/ type = "answer" THEN {<<>>} ELSE {<<Answer(q)>>}

\* The application is waiting, and its answer is not under way yet.
AppWaits == /\ "app" \in Launched
            /\ todo["app"] # <<>> /\ Head(todo["app"]).do = "await"
            /\ pipe[<<"app", "sock_module">>] = <<>>
            /\ pipe[<<"sock_module", "app">>] = <<>>
TellApp  == IF AppWaits THEN {<<>>, <<Answer("app")>>} ELSE {<<>>}

SockScripts(q, type) ==
  IF q = "app"
  THEN {<<Answer(q)>>} \cup UNION
         {{<<Data(r)>>, <<Data(r), Answer(q)>>} :
            r \in {"tcp_module", "udp_module"}}
  ELSE IF type = "answer" THEN TellApp
  ELSE IF q = "icmp_module" THEN {<<Answer(q)>>}
  ELSE {tell \o <<Answer(q)>> : tell \in TellApp}

Scripts(p, q, type) ==
  CASE p = "ethernet_mux"   -> EthernetMuxScripts(q)
    [] p = "arp_module"     -> ArpScripts(q)
    [] p = "ip_module"      -> IpScripts(q)
    [] p = "ip_mux"         -> IpMuxScripts(q)
    [] p = "udp_module"     -> UdpScripts(q, type)
    [] p = "tcp_module"     -> TcpScripts(q, type)
    [] p = "icmp_module"    -> IcmpScripts(q, type)
    [] p = "ipother_module" -> IpOtherScripts(q, type)
    [] p = "sock_module"    -> SockScripts(q, type)
    [] OTHER                -> {<<>>}

-----------------------------------------------------------------------------
(* Running.                                                                *)
HasEnded(q) == q \in Launched /\ phase[q] = "ended"

\* select finds a FIFO readable that holds something, or whose writer has ended.
Readable(p, q) == pipe[<<q, p>>] # <<>> \/ HasEnded(q)

IsIdle(p)      == phase[p] = "running" /\ todo[p] = <<>>
HasEvent(p, i) == Readable(p, Connections[p][i].module)

\* MinetGetNextEvent: the first readable FIFO, in the order they were opened.
MinetGetNextEvent(p, q) ==
  /\ IsIdle(p) /\ p # "app"
  /\ \E i \in Calls(p) : /\ HasEvent(p, i) /\ q = Connections[p][i].module
                        /\ \A j \in Calls(p) : j < i => ~HasEvent(p, j)

\* sock_module has no branch for ipother_module: it looks again, for ever.
Serves(p, q) == ~(p = "sock_module" /\ q = "ipother_module")

\* The data that sock_module did not take goes round once more, which counts as
\* traffic: it depends on what the application reads.
Resends(p, type, script) ==
  IF p = "tcp_module" /\ type = "answer" /\ script # <<>> THEN 1 ELSE 0

Handle(p) ==
  \E q \in Launched :
    /\ MinetGetNextEvent(p, q) /\ Serves(p, q) /\ pipe[<<q, p>>] # <<>>
    /\ pipe' = [pipe EXCEPT ![<<q, p>>] = Tail(@)]
    /\ \E script \in Scripts(p, q, Head(pipe[<<q, p>>])) :
         LET cost == Resends(p, Head(pipe[<<q, p>>]), script)
         IN  /\ cost <= traffic
             /\ todo' = [todo EXCEPT ![p] = script]
             /\ traffic' = traffic - cost
    /\ UNCHANGED <<config, opened, phase>>

\* From outside: a frame of the network, and a call of the application.
Outside ==
  [device_driver |-> {<<Data("ethernet_mux")>>},
   app           |-> {<<Data("sock_module"), Await("sock_module")>>}]

Begin(p) ==
  /\ p \in DOMAIN Outside /\ IsIdle(p) /\ traffic > 0
  /\ \E script \in Outside[p] :
       /\ \A i \in DOMAIN script : HasHandle(p, script[i].module)
       /\ todo' = [todo EXCEPT ![p] = script]
  /\ traffic' = traffic - 1
  /\ UNCHANGED <<config, opened, phase, pipe>>

Peer(p)  == todo[p][1].module
Waits(p) == phase[p] = "running" /\ todo[p] # <<>>
InStep(p, do) == Waits(p) /\ todo[p][1].do = do /\ HasHandle(p, Peer(p))

\* For MINET_NOHANDLE a send or a receive returns at once.
NoHandle(p) ==
  /\ Waits(p) /\ ~HasHandle(p, Peer(p))
  /\ todo' = [todo EXCEPT ![p] = Tail(@)]
  /\ UNCHANGED <<config, opened, phase, pipe, traffic>>

\* One message too many (mutant).
HasRoomForMore(p, q) == Len(pipe[<<p, q>>]) <= PipeCap
HasRoom(p, q) == Len(pipe[<<p, q>>]) < PipeCap

MinetSend(p) ==
  /\ InStep(p, "send") /\ ~HasEnded(Peer(p))
  /\ HasRoom(p, Peer(p))
  /\ pipe' = [pipe EXCEPT ![<<p, Peer(p)>>] = Append(@, todo[p][1].type)]
  /\ todo' = [todo EXCEPT ![p] = Tail(@)]
  /\ UNCHANGED <<config, opened, phase, traffic>>

MinetReceive(p) ==
  /\ InStep(p, "await") /\ pipe[<<Peer(p), p>>] # <<>>
  /\ pipe' = [pipe EXCEPT ![<<Peer(p), p>>] = Tail(@)]
  /\ todo' = [todo EXCEPT ![p] = Tail(@)]
  /\ UNCHANGED <<config, opened, phase, traffic>>

-----------------------------------------------------------------------------
(* Ends.  A FIFO whose writer has ended reads as the end of file, of which *)
(* Unserialize makes an exception nobody catches; a write to a FIFO whose  *)
(* reader has ended is a SIGPIPE.  Either ends in death().                 *)
HasWork(p) ==
  /\ phase[p] = "running"
  /\ IF todo[p] = <<>> THEN \E i \in Calls(p) : HasEvent(p, i)
     ELSE HasHandle(p, Peer(p))

MeetsEnd(p) ==
  \/ \E q \in Launched : /\ MinetGetNextEvent(p, q) /\ Serves(p, q)
                       /\ pipe[<<q, p>>] = <<>>
  \/ InStep(p, "await") /\ HasEnded(Peer(p)) /\ pipe[<<Peer(p), p>>] = <<>>
  \/ InStep(p, "send") /\ HasEnded(Peer(p))
  \/ MonitorGone(p) /\ (phase[p] = "telling" \/ AllOpened(p) \/ HasWork(p))

\* Waits for a key on any display (mutant).
Linger(p) == phase' = [phase EXCEPT ![p] = "dying"]
\* death() may wait for a key, and the FIFOs stay open.
death(p)  == phase' = [phase EXCEPT ![p] =
                         IF Configs[config].xterm THEN "dying" ELSE "ended"]

Die(p) ==
  /\ MeetsEnd(p)
  /\ death(p)
  /\ UNCHANGED <<config, opened, pipe, todo, traffic>>

HitEnter(p) ==
  /\ phase[p] = "dying"
  /\ phase' = [phase EXCEPT ![p] = "ended"]
  /\ UNCHANGED <<config, opened, pipe, todo, traffic>>

\* The application is done, or somebody stops a module, at any time.
Quit(p) ==
  /\ p \in Configs[config].quits /\ phase[p] \in {"opening", "telling", "running"}
  /\ phase' = [phase EXCEPT ![p] = "ended"]
  /\ UNCHANGED <<config, opened, pipe, todo, traffic>>

-----------------------------------------------------------------------------
Runs(p) == OpenNext(p) \/ MinetSendToMonitor(p) \/ GiveUp(p) \/ AllOpen(p)
             \/ Handle(p) \/ NoHandle(p) \/ MinetSend(p) \/ MinetReceive(p) \/ Die(p)

Next == \E p \in Launched : Runs(p) \/ Begin(p) \/ HitEnter(p) \/ Quit(p)

\* Some process that can run does run, as on any scheduler; nobody needs to send
\* a frame, call, hit a key or stop a module.
Spec == Init /\ [][Next]_vars /\ WF_vars(\E p \in Launched : Runs(p))

-----------------------------------------------------------------------------
(* The orders in which the modules open their FIFOs fit together           *)
(* (Minet.cc:729, 1008): there are no processes that wait in their opens   *)
(* for each other, each to come to a FIFO that it would open later.  Who   *)
(* stays in an open() waits, perhaps through others, for a module that was *)
(* not started (other_module, for the sake of ipother_module), never opens *)
(* the FIFO, or ended before it came to it.                                *)
OpensMeet ==
  \A S \in SUBSET {p \in Launched : IsOpening(p) /\ ~CanOpen(p)} :
    (\A p \in S : \E q \in S : /\ q = OtherEnd(p, NextFifo(p))
                              /\ NextFifo(p) \in Opens(q))
      => S = {}

(* Processes that all wait for one another need a lot of messages to do it *)
(* (MinetSend blocks; sock_module.cc:41): two FIFOs at least are full, and *)
(* the writer of each waits to send one more.  Only the application may    *)
(* wait for an answer when nothing is under way.                           *)
FullAndWaiting(p) ==
  InStep(p, "send") /\ ~HasEnded(Peer(p)) /\ ~HasRoom(p, Peer(p))
EmptyAndWaiting(p) ==
  InStep(p, "await") /\ ~HasEnded(Peer(p)) /\ pipe[<<Peer(p), p>>] = <<>>

CanRun(p) ==
  \/ CanOpen(p) \/ phase[p] = "telling" \/ AllOpened(p)
  \/ MonitorGone(p) /\ HasWork(p)
  \/ \E q \in Launched : MinetGetNextEvent(p, q) /\ Serves(p, q)
  \/ Waits(p) /\ ~FullAndWaiting(p) /\ ~EmptyAndWaiting(p)

Stuck ==
  /\ \A p \in Launched : phase[p] = "running" /\ ~CanRun(p)
  /\ \E p \in Launched \ {"app"} : Waits(p)

StuckIsFull == Stuck => Cardinality({p \in Launched : FullAndWaiting(p)}) >= 2

(* The end of one module ends the others (Unserialize throws at the end of *)
(* file, SIGPIPE is caught by death): they all end but for the application,*)
(* unless death() waits for a key.  Else nobody can go on, and either a    *)
(* module stays for ever in the open of a FIFO whose other end was gone    *)
(* before it opened it (MinetInit, MinetConnect and MinetAccept write to   *)
(* the monitor), or two at least wait at full FIFOs.  That the monitor is  *)
(* gone is noticed with the next event only.                               *)
Reached(p) == phase[p] = "ended" \/ (p = "app" /\ phase[p] = "running")

StaysInOpen(p) ==
  /\ IsOpening(p) /\ ~CanOpen(p)
  /\ LET q == OtherEnd(p, NextFifo(p))
     IN  q \notin Launched \/ NextFifo(p) \notin Opens(q) \/ HasEnded(q)

EndReachesAll ==
  (~Configs[config].xterm /\ \E p \in Launched \ {"monitor"} : HasEnded(p))
    ~> \/ \A p \in Launched : Reached(p)
       \/ /\ \A p \in Launched : Reached(p) \/ ~CanRun(p)
          /\ \/ \E p \in Launched : StaysInOpen(p)
             \/ Cardinality({p \in Launched : FullAndWaiting(p)}) >= 2
=============================================================================
