------------------------------ MODULE Network -------------------------------
(***************************************************************************)
(* The lower half of the stack on several hosts of one Ethernet: driver    *)
(* with its filter, ethernet_mux, arp_module, ip_module in its three       *)
(* versions, ip_mux and icmp_module; the transports only send and receive. *)
(* A router is there too, that does not run this stack: all that Minet     *)
(* itself never sends comes from it.                                       *)
(*                                                                         *)
(* A host's name is its IP address and its Ethernet address.               *)
(***************************************************************************)
EXTENDS Integers, Sequences, Functions

CONSTANTS
  Host, Router,
  Nobody,      \* an IP address that no host has
  Broadcast,   \* IP_ADDRESS_BROADCAST, and as a frame's destination all ones
  Blank,       \* ETHERNET_BLANK_ADDR
  Nothing,     \* ip_module waits for no answer
  Builds,      \* the combinations of programs looked at: functions of Host
  MaxPackets,  \* bound on packets sent
  MaxEvents    \* bound on packets sent, lost and damaged together

ASSUME BoundAssumption == {MaxPackets, MaxEvents} \subseteq Nat
ASSUME NameAssumption ==
  /\ Host \cap {Router, Nobody, Broadcast, Blank} = {}
  /\ Router # Nobody /\ Broadcast \notin {Router, Nobody}
  /\ Blank \notin {Router, Nobody, Broadcast}

VARIABLES
  build,     \* of each host: which ip_module, which driver, ipother_module?
  cache,     \* ARPCache: Blank where it has no entry
  toArp, toIp,      \* frames heard: FIFOs by way of driver and ethernet_mux
  fromArp, fromIp,  \* frames to send: FIFOs by way of ethernet_mux and driver
  asks, answers,                  \* FIFOs between ip_module and arp_module
  waiting,   \* what SendPacket wants to send while it waits for the answer
  toIcmp,    \* packets for icmp_module: FIFO by way of ip_mux
  down,      \* packets for ip_module: FIFO by way of ip_mux
  got,       \* all packets that UDP and TCP have got
  missed,    \* who discarded a packet to whom for want of an ARP entry
  count      \* packets sent, frames lost, frames damaged

arpQueues == <<toArp, fromArp>>
ipQueues  == <<toIp, fromIp>>
question  == <<asks, answers, waiting>>
muxQueues == <<down, toIcmp>>
vars == <<build, cache, arpQueues, ipQueues, question, muxQueues, got,
          missed, count>>

IP     == Host \cup {Router, Nobody, Broadcast}
Kind   == {"data", "other", "echo", "timestamp", "reply", "error", "strange"}
Defect == {"none", "checksum", "ttl", "fragment"}
Packet == [src : IP, dest : IP, kind : Kind, defect : Defect, id : 1..MaxPackets]
Station == Host \cup {Router}
ArpFrame ==
  [type : {"ARP"}, from : Station, to : Station \cup {Broadcast},
   opcode : {"Request", "Reply"}, sender : Station, target : IP]
IpFrame ==
  [type : {"IP"}, from : Station, to : Station \cup {Broadcast, Blank},
   packet : Packet]
Wait  == [packet : Packet, checks : BOOLEAN]
Build == [ip : {"plain", "diffusion", "routing"}, driver : {"reader", "pcap"},
          ipother : BOOLEAN]

ASSUME BuildAssumption == Builds \subseteq [Host -> Build]
ASSUME NothingAssumption == Nothing \notin Wait

TypeOK ==
  /\ build \in [Host -> Build]
  /\ cache \in [Host -> [IP -> Station \cup {Blank}]]
  /\ toArp \in [Station -> Seq(ArpFrame)] /\ fromArp \in [Host -> Seq(ArpFrame)]
  /\ {toIp, fromIp} \subseteq [Host -> Seq(IpFrame)]
  /\ asks \in [Host -> Seq(IP)]
  /\ answers \in [Host -> Seq([ip : IP, hw : Station \cup {Blank}])]
  /\ waiting \in [Host -> Wait \cup {Nothing}]
  /\ {down, toIcmp, got} \subseteq [Host -> Seq(Packet)]
  /\ missed \subseteq Host \X IP
  /\ count \in [sent : 0..MaxPackets, lost : 0..MaxEvents, damaged : 0..MaxEvents]

Empty(S) == [n \in S |-> <<>>]

\* arp_module enters its own host before it serves; the hosts may know each other
\* from earlier traffic.
Init ==
  /\ build \in Builds
  /\ \E known \in {{}, Station} :
       cache = [h \in Host |-> [ip \in IP |-> IF ip \in known \cup {h} THEN ip ELSE Blank]]
  /\ toArp = Empty(Station) /\ fromArp = Empty(Host)
  /\ toIp = Empty(Host) /\ fromIp = Empty(Host)
  /\ asks = Empty(Host) /\ answers = Empty(Host)
  /\ waiting = [h \in Host |-> Nothing]
  /\ down = Empty(Host) /\ toIcmp = Empty(Host)
  /\ got = Empty(Host)
  /\ missed = {}
  /\ count = [sent |-> 0, lost |-> 0, damaged |-> 0]

MoreEvents == count.sent + count.lost + count.damaged < MaxEvents

Put(queues, h, x) == [queues EXCEPT ![h] = Append(@, x)]
Rest(queues, h)   == [queues EXCEPT ![h] = Tail(@)]

-----------------------------------------------------------------------------
(* The Ethernet.                                                           *)

\* pcap's filters: "host me or broadcast" of the reader, "host me or arp" of
\* device_driver2.  The interface is promiscuous and hears its own frames.
Involves(h, f) == IF f.type = "ARP" THEN h \in {f.sender, f.target}
                  ELSE h \in {f.packet.src, f.packet.dest}
Hears(n, f) ==
  IF n = Router THEN f.type = "ARP" /\ f.opcode = "Request" /\ f.target = Router
  ELSE \/ Involves(n, f)
       \/ IF build[n].driver = "reader" THEN f.to = Broadcast ELSE f.type = "ARP"

(* Driver and ethernet_mux sort the frames heard by their type; the FIFO    *)
(* between them adds nothing but delay.                                    *)
OnTheWire(f) ==
  LET Heard(queues) == [n \in DOMAIN queues |->
                          IF Hears(n, f) THEN Append(queues[n], f) ELSE queues[n]]
  IN  IF f.type = "ARP" THEN toArp' = Heard(toArp) /\ UNCHANGED toIp
      ELSE toIp' = Heard(toIp) /\ UNCHANGED toArp

\* ProcessOutgoing writes only frames that have the host as their source.
ProcessOutgoing(h, f) == IF f.from = h THEN OnTheWire(f) ELSE UNCHANGED <<toArp, toIp>>

EthernetMux(h) ==
  /\ \/ /\ fromArp[h] # <<>>
        /\ ProcessOutgoing(h, Head(fromArp[h]))
        /\ fromArp' = Rest(fromArp, h) /\ UNCHANGED fromIp
     \/ /\ fromIp[h] # <<>>
        /\ ProcessOutgoing(h, Head(fromIp[h]))
        /\ fromIp' = Rest(fromIp, h) /\ UNCHANGED fromArp
  /\ UNCHANGED <<build, cache, question, muxQueues, got, missed, count>>

Lose(n) ==
  /\ MoreEvents
  /\ count' = [count EXCEPT !.lost = @ + 1]
  /\ \/ toArp[n] # <<>> /\ toArp' = Rest(toArp, n) /\ UNCHANGED toIp
     \/ n \in Host /\ toIp[n] # <<>> /\ toIp' = Rest(toIp, n) /\ UNCHANGED toArp
  /\ UNCHANGED <<build, cache, fromArp, fromIp, question, muxQueues, got, missed>>

\* A packet is damaged: its checksum is wrong, its source perhaps too.
Damaged(f, src) == [f EXCEPT !.packet = [@ EXCEPT !.defect = "checksum", !.src = src]]

DamagePacket(h) ==
  /\ toIp[h] # <<>> /\ MoreEvents
  /\ \E src \in IP : toIp' = [toIp EXCEPT ![h][1] = Damaged(@, src)]
  /\ count' = [count EXCEPT !.damaged = @ + 1]
  /\ UNCHANGED <<build, cache, arpQueues, fromIp, question, muxQueues, got, missed>>

-----------------------------------------------------------------------------
(* arp_module.                                                             *)

\* The frame goes to the target, not to all (mutant).
ToTarget(opcode, from, to, target) ==
  [type |-> "ARP", opcode |-> opcode, from |-> from, sender |-> from,
   to |-> target, target |-> target]
ARPPacket(opcode, from, to, target) ==
  [type |-> "ARP", opcode |-> opcode, from |-> from, sender |-> from,
   to |-> to, target |-> target]

\* A question of ip_module is answered at once; if there is no entry, a request
\* goes out, and its reply is for a later question.
ArpAnswers(h) ==
  /\ asks[h] # <<>>
  /\ LET ip == Head(asks[h]) IN
       /\ answers' = Put(answers, h, [ip |-> ip, hw |-> cache[h][ip]])
       /\ IF cache[h][ip] = Blank
          THEN fromArp' = Put(fromArp, h, ARPPacket("Request", h, Broadcast, ip))
          ELSE UNCHANGED fromArp
  /\ asks' = Rest(asks, h)
  /\ UNCHANGED <<build, cache, toArp, ipQueues, waiting, muxQueues, got, missed, count>>

\* What is learnt: the sender's address.  The target's, only from requests,
\* and whoever has it (mutants).
LearnTarget(h, f)  == cache' = [cache EXCEPT ![h][f.target] = f.from]
LearnRequest(h, f) == cache' = IF f.opcode = "Request"
                               THEN [cache EXCEPT ![h][f.sender] = f.from] ELSE cache
Update(h, f)       == cache' = [cache EXCEPT ![h][f.sender] = f.from]

\* A reply is passed on to ip_module too (mutant).
TellIp(h, f)   == answers' = Put(answers, h, [ip |-> f.sender, hw |-> f.from])
KeepQuiet(h, f) == UNCHANGED answers

ArpHears(h) ==
  /\ toArp[h] # <<>>
  /\ LET f == Head(toArp[h]) IN
       /\ Update(h, f) /\ KeepQuiet(h, f)
       /\ IF f.opcode = "Request" /\ f.target = h
          THEN fromArp' = Put(fromArp, h, ARPPacket("Reply", h, f.from, f.sender))
          ELSE UNCHANGED fromArp
  /\ toArp' = Rest(toArp, h)
  /\ UNCHANGED <<build, ipQueues, asks, waiting, muxQueues, got, missed, count>>

-----------------------------------------------------------------------------
(* ip_module.                                                              *)

\* SendPacket asks arp_module and blocks.  The errors of the diffusion version
\* do not look at what the answer says.
SendPacket(h, p, checks) ==
  /\ asks' = Put(asks, h, p.dest)
  /\ waiting' = [waiting EXCEPT ![h] = [packet |-> p, checks |-> checks]]

\* The packet goes to the address that the answer has.
Frame(h, p, hw) == [type |-> "IP", from |-> h, to |-> hw, packet |-> p]

SendGoesOn(h) ==
  /\ waiting[h] # Nothing /\ answers[h] # <<>>
  /\ LET p  == waiting[h].packet
         hw == Head(answers[h]).hw
     IN  IF \/ hw # Blank \/ ~waiting[h].checks
            \/ p.dest = Broadcast /\ build[h].ip # "routing"
         THEN fromIp' = Put(fromIp, h, Frame(h, p, hw)) /\ UNCHANGED missed
         ELSE missed' = missed \cup {<<h, p.dest>>} /\ UNCHANGED fromIp
  /\ answers' = Rest(answers, h)
  /\ waiting' = [waiting EXCEPT ![h] = Nothing]
  /\ UNCHANGED <<build, cache, arpQueues, toIp, asks, muxQueues, got, count>>

ICMPError(h, p) == [src |-> h, dest |-> p.src, kind |-> "error", defect |-> "none",
                    id |-> p.id]

(* ip_mux: what it sends on.  What transports and icmp_module send it goes *)
(* to ip_module: for them, down is the FIFO to send to.                    *)
IpMux(h, p) ==
  /\ got' = IF p.kind = "data" THEN Put(got, h, p) ELSE got
  /\ toIcmp' = IF p.kind \in {"data", "other"} THEN toIcmp ELSE Put(toIcmp, h, p)
  /\ down' = IF p.kind = "other" /\ ~build[h].ipother
             THEN Put(down, h, ICMPError(h, p)) ELSE down

\* A defect is answered with an error, or the packet is dropped, or nobody looks.
Answered(ip) == CASE ip = "plain"     -> Defect \ {"none"}
                  [] ip = "diffusion" -> {"checksum"}
                  [] ip = "routing"   -> {}
Dropped(ip)  == CASE ip = "plain"     -> {}
                  [] ip = "diffusion" -> {"fragment"}
                  [] ip = "routing"   -> {"checksum", "fragment"}

IpReceives(h) ==
  /\ waiting[h] = Nothing /\ toIp[h] # <<>>
  /\ LET p == Head(toIp[h]).packet IN
       CASE p.dest \notin {h, Broadcast} \/ p.defect \in Dropped(build[h].ip) ->
              UNCHANGED <<asks, waiting, muxQueues, got>>
         [] p.dest \in {h, Broadcast} /\ p.defect \in Answered(build[h].ip) ->
              /\ SendPacket(h, ICMPError(h, p), build[h].ip = "plain")
              /\ UNCHANGED <<muxQueues, got>>
         [] OTHER -> IpMux(h, p) /\ UNCHANGED <<asks, waiting>>
  /\ toIp' = Rest(toIp, h)
  /\ UNCHANGED <<build, cache, arpQueues, fromIp, answers, missed, count>>

\* The routing version turns packets to its own host back (Minet sends no protocol
\* that ip_mux would answer); or turns them back and sends them too (mutant).
TurnBack(h, p) == /\ got' = IF p.kind = "data" THEN Put(got, h, p) ELSE got
                  /\ toIcmp' = IF p.kind = "data" THEN toIcmp ELSE Put(toIcmp, h, p)
IsLocal(h, p)  == build[h].ip = "routing" /\ p.dest = h

TurnAndSend(h, p) ==
  /\ SendPacket(h, p, TRUE)
  /\ IF IsLocal(h, p) THEN TurnBack(h, p) ELSE UNCHANGED <<got, toIcmp>>
RouteOut(h, p) ==
  IF IsLocal(h, p) THEN TurnBack(h, p) /\ UNCHANGED <<asks, waiting>>
  ELSE SendPacket(h, p, TRUE) /\ UNCHANGED <<got, toIcmp>>

IpSends(h) ==
  /\ waiting[h] = Nothing /\ down[h] # <<>>
  /\ RouteOut(h, Head(down[h]))
  /\ down' = Rest(down, h)
  /\ UNCHANGED <<build, cache, arpQueues, ipQueues, answers, missed, count>>

-----------------------------------------------------------------------------
(* icmp_module.  ICMPPacket::respond sets requires_response for an echo    *)
(* (or address mask) request and clears it for replies and errors; a       *)
(* timestamp request and a type it does not know leave it uninitialised.   *)
(* The unknown one comes out as it went in.                                *)
requires_response(p) == CASE p.kind = "echo" -> {TRUE}
                          [] p.kind \in {"reply", "error"} -> {FALSE}
                          [] OTHER -> BOOLEAN

\* The addresses are not exchanged (mutant).
SentBack(p) == p
respond(p) == IF p.kind = "strange" THEN p
              ELSE [p EXCEPT !.src = p.dest, !.dest = p.src, !.kind = "reply"]

\* What needs no reply is written to sock_module.
IcmpModule(h) ==
  /\ toIcmp[h] # <<>>
  /\ \E reply \in requires_response(Head(toIcmp[h])) :
       down' = IF reply THEN Put(down, h, respond(Head(toIcmp[h]))) ELSE down
  /\ toIcmp' = Rest(toIcmp, h)
  /\ UNCHANGED <<build, cache, arpQueues, ipQueues, question, got, missed, count>>

-----------------------------------------------------------------------------
(* Traffic: a transport of a host, or the router.                          *)
NewPacket(src, dest, kind, defect) ==
  [src |-> src, dest |-> dest, kind |-> kind, defect |-> defect, id |-> count.sent + 1]
CountSent == MoreEvents /\ count.sent < MaxPackets /\ count' = [count EXCEPT !.sent = @ + 1]

\* udp_module or tcp_module sends a packet to any address, at any time: when they
\* do is up to the other modules of this project.
TransportSends(h) ==
  /\ CountSent
  /\ \E dest \in IP : down' = Put(down, h, NewPacket(h, dest, "data", "none"))
  /\ UNCHANGED <<build, cache, arpQueues, ipQueues, question, toIcmp, got, missed>>

RouterSends(h) ==
  /\ CountSent
  /\ \E kind \in Kind, defect \in {"none", "ttl", "fragment"} :
       /\ kind = "data" \/ defect = "none"
       /\ OnTheWire(Frame(Router, NewPacket(Router, h, kind, defect), h))
  /\ UNCHANGED <<build, cache, fromArp, fromIp, question, muxQueues, got, missed>>

RouterBroadcasts ==
  /\ CountSent
  /\ \E kind \in {"data", "echo"} :
       OnTheWire(Frame(Router, NewPacket(Router, Broadcast, kind, "none"), Broadcast))
  /\ UNCHANGED <<build, cache, fromArp, fromIp, question, muxQueues, got, missed>>

RouterReplies ==
  /\ toArp[Router] # <<>>
  /\ LET f    == Head(toArp[Router])
         repl == ARPPacket("Reply", Router, f.from, f.sender)
     IN  toArp' = [n \in Station |->
                     IF n = Router THEN Tail(toArp[n])
                     ELSE IF Hears(n, repl) THEN Append(toArp[n], repl) ELSE toArp[n]]
  /\ UNCHANGED <<build, cache, fromArp, ipQueues, question, muxQueues, got, missed, count>>

-----------------------------------------------------------------------------
arp_module(h) == ArpAnswers(h) \/ ArpHears(h)
ip_module(h)  == SendGoesOn(h) \/ IpReceives(h) \/ IpSends(h)

Module(h) == EthernetMux(h) \/ arp_module(h) \/ ip_module(h) \/ IcmpModule(h)
Runs      == RouterReplies \/ \E h \in Host : Module(h)

Next ==
  \/ Runs
  \/ \E h \in Host : TransportSends(h) \/ RouterSends(h) \/ DamagePacket(h)
  \/ \E n \in Station : Lose(n)
  \/ RouterBroadcasts

\* Some process that can run does; nothing need be sent, lost or damaged.
Fairness == WF_vars(Runs)

Spec == Init /\ [][Next]_vars /\ Fairness

-----------------------------------------------------------------------------
(* Every cached address is that of the host asked about, and every packet  *)
(* on its way is in a frame to the host it is for.  The two exceptions:    *)
(* nobody is asked where broadcasts go (they have the blank address), and  *)
(* the diffusion version sends its errors whatever arp_module answers.     *)
FramesOf(h) == Range(fromIp[h]) \cup Range(toIp[h])

AddressesRight ==
  \A h \in Host :
    /\ \A ip \in IP : cache[h][ip] \in {ip, Blank}
    /\ \A f \in FramesOf(h) :
         \/ f.to = f.packet.dest
         \/ f.to = Blank /\ \/ f.packet.dest = Broadcast
                            \/ f.packet.kind = "error" /\ build[f.from].ip = "diffusion"

(* MinetReceive(arp, resp) takes whatever comes next from arp_module: that *)
(* is the answer to the question just asked, because every question has    *)
(* one answer and it is read before the next is asked (SendPacket).        *)
AnswerIsForQuestion ==
  \A h \in Host :
    IF waiting[h] = Nothing THEN asks[h] = <<>> /\ answers[h] = <<>>
    ELSE \/ asks[h] = <<waiting[h].packet.dest>> /\ answers[h] = <<>>
         \/ asks[h] = <<>> /\ Len(answers[h]) = 1
            /\ answers[h][1].ip = waiting[h].packet.dest

(* Whatever the interface hears, a transport gets a packet at most once,   *)
(* at no other host than it is for, and in the order sent.                 *)
DeliveredInOrder ==
  \A h \in Host : \A j \in 1..Len(got[h]) :
    /\ got[h][j].dest \in {h, Broadcast}
    /\ \A i \in 1..(j - 1) :
         got[h][i].src = got[h][j].src /\ got[h][i].dest = got[h][j].dest
         => got[h][i].id < got[h][j].id

Strange == \E h \in Host : \E i \in 1..Len(toIcmp[h]) : toIcmp[h][i].kind = "strange"

(* A packet that was discarded for want of an ARP entry (ip_module.cc:74)  *)
(* has at least asked for one: if nothing is lost and the host is there,   *)
(* the entry comes, and a later packet can go.                             *)
NeighbourLearnt ==
  \/ <>[](\A h \in Host, n \in Station : <<h, n>> \in missed => cache[h][n] # Blank)
  \/ <>(count.lost > 0) \/ <>Strange

(* Answers are not answered: when traffic ends, the network becomes quiet. *)
(* Not so if an ICMP message of a type that respond does not know was      *)
(* there: an uninitialised requires_response may send it round for ever.   *)
Idle == \A q \in {toArp, fromArp, toIp, fromIp, asks, answers, down, toIcmp} :
          Range(q) = {<<>>}

BecomesQuiet == <>[]Idle \/ <>Strange
=============================================================================
