--------------------------- MODULE Network_proofs ---------------------------
(***************************************************************************)
(* Proofs about Network, for any number of hosts, any combination of       *)
(* programs on them and any number of packets, losses and damages.         *)
(***************************************************************************)
EXTENDS Network, TLAPS

-----------------------------------------------------------------------------
(* The FIFOs.                                                              *)

\* A FIFO that something is sent to still holds what it may hold.
LEMMA PutType ==
  ASSUME NEW S, NEW D, NEW queues \in [S -> Seq(D)], NEW h \in S, NEW x \in D
  PROVE  Put(queues, h, x) \in [S -> Seq(D)]
<1>1. Append(queues[h], x) \in Seq(D)
  OBVIOUS
<1> QED
  BY <1>1 DEF Put

\* What is received from a FIFO is what it may hold, and so is the rest.
LEMMA RestType ==
  ASSUME NEW S, NEW D, NEW queues \in [S -> Seq(D)], NEW h \in S, queues[h] # <<>>
  PROVE  Rest(queues, h) \in [S -> Seq(D)] /\ Head(queues[h]) \in D
<1>1. Tail(queues[h]) \in Seq(D) /\ Head(queues[h]) \in D
  OBVIOUS
<1> QED
  BY <1>1 DEF Rest

\* A sequence of some things is a sequence of more.
LEMMA SeqMonotone ==
  ASSUME NEW D, NEW E, D \subseteq E
  PROVE  Seq(D) \subseteq Seq(E) /\ \A S : [S -> Seq(D)] \subseteq [S -> Seq(E)]
OBVIOUS

-----------------------------------------------------------------------------
(* The inductive invariant.  The type of what is under way says what is    *)
(* right about it: an ARP frame names its sender, an answer has the        *)
(* address of the host asked about or none, an IP frame goes where its     *)
(* packet does.                                                            *)
RightArp == {f \in ArpFrame : f.from = f.sender}

RightAnswer == {r \in [ip : IP, hw : Station \cup {Blank}] : r.hw \in {r.ip, Blank}}

RightFrame(b) ==
  {f \in IpFrame :
     \/ f.to = f.packet.dest
     \/ f.to = Blank /\ \/ f.packet.dest = Broadcast
                        \/ /\ f.from \in Host
                           /\ f.packet.kind = "error" /\ b[f.from].ip = "diffusion"}

\* A packet is only sent unchecked by the errors of the diffusion version.
RightWait(b, h) ==
  {w \in Wait : w.checks \/ (w.packet.kind = "error" /\ b[h].ip = "diffusion")}

Counts == [sent : 0..MaxPackets, lost : 0..MaxEvents, damaged : 0..MaxEvents]

Types ==
  /\ build \in [Host -> Build]
  /\ down \in [Host -> Seq(Packet)] /\ toIcmp \in [Host -> Seq(Packet)]
  /\ got \in [Host -> Seq(Packet)]
  /\ missed \subseteq Host \X IP
  /\ count \in Counts

CacheRight ==
  /\ cache \in [Host -> [IP -> Station \cup {Blank}]]
  /\ \A h \in Host : \A ip \in IP : cache[h][ip] \in {ip, Blank}

ArpRight == toArp \in [Station -> Seq(RightArp)] /\ fromArp \in [Host -> Seq(RightArp)]

IpRight ==
  /\ toIp \in [Host -> Seq(RightFrame(build))]
  /\ fromIp \in [Host -> Seq(RightFrame(build))]

QuestionRight ==
  /\ asks \in [Host -> Seq(IP)] /\ answers \in [Host -> Seq(RightAnswer)]
  /\ waiting \in [Host -> Wait \cup {Nothing}]
  /\ \A h \in Host : waiting[h] \in RightWait(build, h) \cup {Nothing}
  /\ AnswerIsForQuestion

NetInv == Types /\ CacheRight /\ ArpRight /\ IpRight /\ QuestionRight

-----------------------------------------------------------------------------
\* The invariant says everything that the properties do.
LEMMA NetInvSuffices == NetInv => TypeOK /\ AnswerIsForQuestion /\ AddressesRight
<1> SUFFICES ASSUME NetInv PROVE TypeOK /\ AnswerIsForQuestion /\ AddressesRight
  OBVIOUS
<1>1. RightArp \subseteq ArpFrame /\ RightFrame(build) \subseteq IpFrame
      /\ RightAnswer \subseteq [ip : IP, hw : Station \cup {Blank}]
  BY DEF RightArp, RightFrame, RightAnswer
<1>3. TypeOK
  <2>1. toArp \in [Station -> Seq(ArpFrame)] /\ fromArp \in [Host -> Seq(ArpFrame)]
    BY <1>1, SeqMonotone DEF NetInv, ArpRight
  <2>2. {toIp, fromIp} \subseteq [Host -> Seq(IpFrame)]
    BY <1>1, SeqMonotone DEF NetInv, IpRight
  <2>3. answers \in [Host -> Seq([ip : IP, hw : Station \cup {Blank}])]
    <3> DEFINE Answer == [ip : IP, hw : Station \cup {Blank}]
    <3>1. RightAnswer \subseteq Answer
      BY <1>1
    <3> HIDE DEF Answer
    <3>2. [Host -> Seq(RightAnswer)] \subseteq [Host -> Seq(Answer)]
      BY <3>1, SeqMonotone
    <3> QED
      BY <3>2 DEF Answer, NetInv, QuestionRight
  <2> QED
    BY <2>1, <2>2, <2>3 DEF NetInv, Types, Counts, CacheRight, QuestionRight, TypeOK
<1>4. AddressesRight
  <2> SUFFICES ASSUME NEW h \in Host
               PROVE  /\ \A ip \in IP : cache[h][ip] \in {ip, Blank}
                      /\ \A f \in FramesOf(h) :
                           \/ f.to = f.packet.dest
                           \/ f.to = Blank
                              /\ \/ f.packet.dest = Broadcast
                                 \/ f.packet.kind = "error" /\ build[f.from].ip = "diffusion"
    BY DEF AddressesRight
  <2>1. \A f \in FramesOf(h) : f \in RightFrame(build)
    <3>1. toIp[h] \in Seq(RightFrame(build)) /\ fromIp[h] \in Seq(RightFrame(build))
      BY DEF NetInv, IpRight
    <3>2. \A D : \A s \in Seq(D) : Range(s) \subseteq D
      BY DEF Range
    <3> QED
      BY <3>1, <3>2 DEF FramesOf
  <2> QED
    BY <2>1 DEF NetInv, CacheRight, RightFrame
<1> QED
  BY <1>3, <1>4 DEF NetInv, QuestionRight

LEMMA NetInvInit == Init => NetInv
<1> SUFFICES ASSUME Init PROVE NetInv
  OBVIOUS
<1>1. \A S, D : [n \in S |-> <<>>] \in [S -> Seq(D)]
  OBVIOUS
<1>2. Types
  BY <1>1, BuildAssumption, BoundAssumption DEF Init, Types, Counts, Empty
<1>3. CacheRight
  BY DEF Init, CacheRight, IP, Station
<1>4. ArpRight /\ IpRight
  BY <1>1 DEF Init, ArpRight, IpRight, Empty
<1>5. QuestionRight
  BY <1>1 DEF Init, QuestionRight, AnswerIsForQuestion, Empty
<1> QED
  BY <1>2, <1>3, <1>4, <1>5 DEF NetInv

-----------------------------------------------------------------------------
(* What an action leaves alone stays right.                                *)
LEMMA Kept ==
  ASSUME NetInv, UNCHANGED build
  PROVE  /\ UNCHANGED <<muxQueues, got, missed, count>> => Types'
         /\ UNCHANGED cache => CacheRight'
         /\ UNCHANGED arpQueues => ArpRight'
         /\ UNCHANGED ipQueues => IpRight'
         /\ UNCHANGED question => QuestionRight'
<1>1. UNCHANGED <<muxQueues, got, missed, count>> => Types'
  BY DEF NetInv, Types, muxQueues
<1>2. UNCHANGED cache => CacheRight'
  BY DEF NetInv, CacheRight
<1>3. UNCHANGED arpQueues => ArpRight'
  BY DEF NetInv, ArpRight, arpQueues
<1>4. UNCHANGED ipQueues => IpRight'
  BY DEF NetInv, IpRight, ipQueues, RightFrame
<1>5. UNCHANGED question => QuestionRight'
  BY DEF NetInv, QuestionRight, question, AnswerIsForQuestion, RightWait
<1> QED
  BY <1>1, <1>2, <1>3, <1>4, <1>5

\* Whoever hears a frame, what the hosts have heard stays right.
LEMMA WireRight ==
  ASSUME NetInv, NEW f \in RightArp \cup RightFrame(build), OnTheWire(f)
  PROVE  /\ toArp' \in [Station -> Seq(RightArp)]
         /\ toIp' \in [Host -> Seq(RightFrame(build))]
<1>1. toArp \in [Station -> Seq(RightArp)] /\ toIp \in [Host -> Seq(RightFrame(build))]
  BY DEF NetInv, ArpRight, IpRight
<1>2. CASE f.type = "ARP"
  <2>1. f \in RightArp
    BY <1>2 DEF RightFrame, IpFrame
  <2>2. \A n \in Station : Append(toArp[n], f) \in Seq(RightArp)
    BY <1>1, <2>1
  <2>3. toArp' = [n \in Station |-> IF Hears(n, f) THEN Append(toArp[n], f) ELSE toArp[n]]
    BY <1>1, <1>2 DEF OnTheWire
  <2>4. toIp' = toIp
    BY <1>2 DEF OnTheWire
  <2> QED
    BY <1>1, <2>2, <2>3, <2>4
<1>3. CASE f.type # "ARP"
  <2>1. f \in RightFrame(build)
    BY <1>3 DEF RightArp, ArpFrame
  <2>2. \A n \in Host : Append(toIp[n], f) \in Seq(RightFrame(build))
    BY <1>1, <2>1
  <2>3. toIp' = [n \in Host |-> IF Hears(n, f) THEN Append(toIp[n], f) ELSE toIp[n]]
    BY <1>1, <1>3 DEF OnTheWire
  <2>4. toArp' = toArp
    BY <1>3 DEF OnTheWire
  <2> QED
    BY <1>1, <2>2, <2>3, <2>4
<1> QED
  BY <1>2, <1>3

\* An ARP packet that a station makes names the station.
LEMMA ARPPacketRight ==
  ASSUME NEW from \in Station, NEW to \in Station \cup {Broadcast}, NEW target \in IP,
         NEW opcode \in {"Request", "Reply"}
  PROVE  ARPPacket(opcode, from, to, target) \in RightArp
BY DEF ARPPacket, RightArp, ArpFrame

\* So does a frame for the host the packet is for.
LEMMA FrameRight ==
  ASSUME NEW from \in Station, NEW p \in Packet, NEW hw \in Station \cup {Broadcast, Blank},
         \/ hw = p.dest
         \/ hw = Blank /\ \/ p.dest = Broadcast
                          \/ from \in Host /\ p.kind = "error" /\ build[from].ip = "diffusion"
  PROVE  Frame(from, p, hw) \in RightFrame(build)
BY DEF Frame, RightFrame, IpFrame

-----------------------------------------------------------------------------
(* The Ethernet.                                                           *)
LEMMA EthernetMuxRight ==
  ASSUME NetInv, NEW h \in Host, EthernetMux(h)
  PROVE  NetInv'
<1>1. UNCHANGED <<build, cache, question, muxQueues, got, missed, count>>
  BY DEF EthernetMux
<1>2. toArp \in [Station -> Seq(RightArp)] /\ fromArp \in [Host -> Seq(RightArp)]
      /\ toIp \in [Host -> Seq(RightFrame(build))] /\ fromIp \in [Host -> Seq(RightFrame(build))]
  BY DEF NetInv, ArpRight, IpRight
<1>3. \A f \in RightArp \cup RightFrame(build) :
        ProcessOutgoing(h, f) => /\ toArp' \in [Station -> Seq(RightArp)]
                                 /\ toIp' \in [Host -> Seq(RightFrame(build))]
  BY <1>2, WireRight DEF ProcessOutgoing
<1>4. CASE fromArp[h] # <<>> /\ ProcessOutgoing(h, Head(fromArp[h]))
           /\ fromArp' = Rest(fromArp, h) /\ UNCHANGED fromIp
  <2>1. Rest(fromArp, h) \in [Host -> Seq(RightArp)] /\ Head(fromArp[h]) \in RightArp
    BY <1>2, <1>4, RestType
  <2> QED
    BY <1>1, <1>2, <1>3, <1>4, <2>1, Kept DEF NetInv, ArpRight, IpRight
<1>5. CASE fromIp[h] # <<>> /\ ProcessOutgoing(h, Head(fromIp[h]))
           /\ fromIp' = Rest(fromIp, h) /\ UNCHANGED fromArp
  <2>1. Rest(fromIp, h) \in [Host -> Seq(RightFrame(build))]
        /\ Head(fromIp[h]) \in RightFrame(build)
    BY <1>2, <1>5, RestType
  <2> QED
    BY <1>1, <1>2, <1>3, <1>5, <2>1, Kept DEF NetInv, ArpRight, IpRight
<1> QED
  BY <1>4, <1>5 DEF EthernetMux

\* One event more is not too many.
LEMMA OneEventMore ==
  ASSUME count \in Counts, MoreEvents
  PROVE  /\ [count EXCEPT !.lost = @ + 1] \in Counts
         /\ [count EXCEPT !.damaged = @ + 1] \in Counts
<1>1. count.sent \in Nat /\ count.lost \in Nat /\ count.damaged \in Nat
      /\ MaxEvents \in Nat /\ MaxPackets \in Nat
  BY BoundAssumption DEF Counts
<1>2. count.lost + 1 \in 0..MaxEvents /\ count.damaged + 1 \in 0..MaxEvents
  BY <1>1 DEF MoreEvents
<1> QED
  BY <1>2 DEF Counts

LEMMA LoseRight ==
  ASSUME NetInv, NEW n \in Station, Lose(n)
  PROVE  NetInv'
<1>1. UNCHANGED <<build, cache, fromArp, fromIp, question, muxQueues, got, missed>>
  BY DEF Lose
<1>2. count' \in Counts
  BY OneEventMore DEF Lose, NetInv, Types
<1>3. ArpRight' /\ IpRight'
  <2>1. CASE toArp[n] # <<>> /\ toArp' = Rest(toArp, n) /\ UNCHANGED toIp
    BY <1>1, <2>1, RestType, Kept DEF NetInv, ArpRight, ipQueues
  <2>2. CASE n \in Host /\ toIp[n] # <<>> /\ toIp' = Rest(toIp, n) /\ UNCHANGED toArp
    <3>1. Rest(toIp, n) \in [Host -> Seq(RightFrame(build))]
      BY <2>2, RestType DEF NetInv, IpRight
    <3> QED
      BY <1>1, <2>2, <3>1, Kept DEF NetInv, IpRight, arpQueues
  <2> QED
    BY <2>1, <2>2 DEF Lose
<1> QED
  BY <1>1, <1>2, <1>3, Kept DEF NetInv, Types, muxQueues

\* Damage changes neither what a packet is for nor where its frame goes.
LEMMA DamagedRight ==
  ASSUME NEW f \in RightFrame(build), NEW src \in IP
  PROVE  Damaged(f, src) \in RightFrame(build)
<1> DEFINE q == [f.packet EXCEPT !.defect = "checksum", !.src = src]
<1>1. f \in IpFrame /\ f.packet \in Packet
  BY DEF RightFrame, IpFrame
<1>2. q \in Packet /\ q.dest = f.packet.dest /\ q.kind = f.packet.kind
  BY <1>1 DEF Packet, Defect
<1>3. Damaged(f, src) = [f EXCEPT !.packet = q]
  BY DEF Damaged
<1> HIDE DEF q
<1> QED
  BY <1>1, <1>2, <1>3 DEF RightFrame, IpFrame

LEMMA DamagePacketRight ==
  ASSUME NetInv, NEW h \in Host, DamagePacket(h)
  PROVE  NetInv'
<1>1. UNCHANGED <<build, cache, arpQueues, fromIp, question, muxQueues, got, missed>>
  BY DEF DamagePacket
<1>2. count' \in Counts
  BY OneEventMore DEF DamagePacket, NetInv, Types
<1>3. toIp' \in [Host -> Seq(RightFrame(build))]
  <2>1. PICK src \in IP : toIp' = [toIp EXCEPT ![h][1] = Damaged(@, src)]
    BY DEF DamagePacket
  <2> DEFINE s == toIp[h]
             f == Damaged(s[1], src)
  <2>2. s \in Seq(RightFrame(build)) /\ 1 \in DOMAIN s /\ s[1] \in RightFrame(build)
    BY DEF DamagePacket, NetInv, IpRight
  <2>3. f \in RightFrame(build)
    BY <2>2, DamagedRight
  <2>4. [s EXCEPT ![1] = f] \in Seq(RightFrame(build))
    <3> HIDE DEF s, f
    <3> QED
      BY <2>2, <2>3
  <2>5. toIp' = [toIp EXCEPT ![h] = [s EXCEPT ![1] = f]]
    <3> HIDE DEF f
    <3> QED
      BY <2>1 DEF f
  <2> HIDE DEF s, f
  <2> QED
    BY <2>4, <2>5 DEF NetInv, IpRight
<1> QED
  BY <1>1, <1>2, <1>3, Kept DEF NetInv, Types, IpRight, muxQueues

-----------------------------------------------------------------------------
(* arp_module.                                                             *)
LEMMA ArpAnswersRight ==
  ASSUME NetInv, NEW h \in Host, ArpAnswers(h)
  PROVE  NetInv'
<1>1. UNCHANGED <<build, cache, toArp, ipQueues, waiting, muxQueues, got, missed, count>>
  BY DEF ArpAnswers
<1> DEFINE ip == Head(asks[h])
           r  == [ip |-> ip, hw |-> cache[h][ip]]
<1>2. asks[h] # <<>> /\ asks' = Rest(asks, h) /\ answers' = Put(answers, h, r)
  BY DEF ArpAnswers
<1>3. asks \in [Host -> Seq(IP)] /\ answers \in [Host -> Seq(RightAnswer)]
  BY DEF NetInv, QuestionRight
<1>4. ip \in IP /\ asks' \in [Host -> Seq(IP)]
  BY <1>2, <1>3, RestType
<1>5. r \in RightAnswer
  BY <1>4 DEF RightAnswer, NetInv, CacheRight
<1>6. ArpRight'
  <2>1. ARPPacket("Request", h, Broadcast, ip) \in RightArp
    BY <1>4, ARPPacketRight DEF Station
  <2>2. fromArp' = Put(fromArp, h, ARPPacket("Request", h, Broadcast, ip)) \/ UNCHANGED fromArp
    BY DEF ArpAnswers
  <2> QED
    BY <1>1, <2>1, <2>2, PutType DEF NetInv, ArpRight
<1>7. QuestionRight'
  <2>1. waiting[h] # Nothing /\ asks[h] = <<waiting[h].packet.dest>> /\ answers[h] = <<>>
    BY <1>2 DEF NetInv, QuestionRight, AnswerIsForQuestion
  <2>2. ip = waiting[h].packet.dest /\ asks'[h] = <<>> /\ answers'[h] = <<r>>
    BY <1>2, <1>3, <2>1 DEF Rest, Put
  <2>3. \A g \in Host \ {h} : asks'[g] = asks[g] /\ answers'[g] = answers[g]
    BY <1>2, <1>3 DEF Rest, Put
  <2>4. answers' \in [Host -> Seq(RightAnswer)]
    BY <1>2, <1>3, <1>5, PutType
  <2>5. AnswerIsForQuestion'
    <3>1. Len(answers'[h]) = 1 /\ answers'[h][1].ip = waiting'[h].packet.dest
      BY <1>1, <2>2
    <3> QED
      BY <1>1, <2>1, <2>2, <2>3, <3>1 DEF NetInv, QuestionRight, AnswerIsForQuestion
  <2> QED
    BY <1>1, <1>4, <2>4, <2>5 DEF NetInv, QuestionRight, RightWait
<1> QED
  BY <1>1, <1>6, <1>7, Kept DEF NetInv

LEMMA ArpHearsRight ==
  ASSUME NetInv, NEW h \in Host, ArpHears(h)
  PROVE  NetInv'
<1>1. UNCHANGED <<build, ipQueues, asks, waiting, muxQueues, got, missed, count>>
  BY DEF ArpHears
<1> DEFINE f == Head(toArp[h])
<1>2. toArp' = Rest(toArp, h) /\ Update(h, f) /\ UNCHANGED answers
  BY DEF ArpHears, KeepQuiet
<1>3. f \in RightArp /\ toArp' \in [Station -> Seq(RightArp)] /\ h \in Station
  <2>1. h \in Station /\ toArp \in [Station -> Seq(RightArp)] /\ toArp[h] # <<>>
    BY DEF ArpHears, NetInv, ArpRight, Station
  <2> QED
    BY <1>2, <2>1, RestType
<1>4. f.sender \in Station /\ f.sender \in IP /\ f.from = f.sender
  BY <1>3 DEF RightArp, ArpFrame, Station, IP
<1>5. CacheRight'
  BY <1>2, <1>4 DEF Update, NetInv, CacheRight
<1>6. ArpRight'
  <2>1. ARPPacket("Reply", h, f.from, f.sender) \in RightArp
    BY <1>3, <1>4, ARPPacketRight
  <2>2. \/ fromArp' = Put(fromArp, h, ARPPacket("Reply", h, f.from, f.sender))
        \/ UNCHANGED fromArp
    BY DEF ArpHears
  <2> HIDE DEF f
  <2>3. fromArp' \in [Host -> Seq(RightArp)]
    BY <2>1, <2>2, PutType DEF NetInv, ArpRight
  <2> QED
    BY <1>3, <2>3 DEF ArpRight
<1> QED
  BY <1>1, <1>2, <1>5, <1>6, Kept DEF NetInv, question

-----------------------------------------------------------------------------
(* ip_module.                                                              *)

\* A question is only asked when the last one has been answered and read.
LEMMA QuestionAsked ==
  ASSUME NetInv, UNCHANGED <<build, answers>>,
         NEW h \in Host, NEW w \in RightWait(build, h), waiting[h] = Nothing,
         waiting' = [waiting EXCEPT ![h] = w], asks' = Put(asks, h, w.packet.dest)
  PROVE  QuestionRight'
<1>1. w \in Wait /\ w # Nothing /\ w.packet.dest \in IP
  BY NothingAssumption DEF RightWait, Wait, Packet
<1>2. asks \in [Host -> Seq(IP)] /\ waiting \in [Host -> Wait \cup {Nothing}]
      /\ asks[h] = <<>> /\ answers[h] = <<>>
  BY DEF NetInv, QuestionRight, AnswerIsForQuestion
<1>3. asks' \in [Host -> Seq(IP)]
  BY <1>1, <1>2, PutType
<1>4. asks'[h] = <<w.packet.dest>> /\ waiting'[h] = w
  BY <1>2 DEF Put
<1>5. \A g \in Host \ {h} : asks'[g] = asks[g] /\ waiting'[g] = waiting[g]
  BY <1>2 DEF Put
<1>6. AnswerIsForQuestion'
  BY <1>1, <1>2, <1>4, <1>5 DEF NetInv, QuestionRight, AnswerIsForQuestion
<1>7. \A g \in Host : waiting'[g] \in RightWait(build, g) \cup {Nothing}
  BY <1>4, <1>5 DEF NetInv, QuestionRight
<1>8. waiting' \in [Host -> Wait \cup {Nothing}]
  BY <1>1, <1>2
<1> QED
  BY <1>3, <1>6, <1>7, <1>8 DEF NetInv, QuestionRight, RightWait

LEMMA SendGoesOnRight ==
  ASSUME NetInv, NEW h \in Host, SendGoesOn(h)
  PROVE  NetInv'
<1>1. UNCHANGED <<build, cache, arpQueues, toIp, asks, muxQueues, got, count>>
  BY DEF SendGoesOn
<1> DEFINE p  == waiting[h].packet
           hw == Head(answers[h]).hw
<1>2. waiting[h] # Nothing /\ answers' = Rest(answers, h)
      /\ waiting' = [waiting EXCEPT ![h] = Nothing]
  BY DEF SendGoesOn
<1>3. answers \in [Host -> Seq(RightAnswer)] /\ waiting \in [Host -> Wait \cup {Nothing}]
      /\ asks \in [Host -> Seq(IP)]
  BY DEF NetInv, QuestionRight
<1>4. waiting[h] \in RightWait(build, h) /\ p \in Packet
  BY <1>2 DEF NetInv, QuestionRight, RightWait, Wait
<1>5. asks[h] = <<>> /\ Len(answers[h]) = 1 /\ answers[h][1].ip = p.dest
  BY <1>2 DEF SendGoesOn, NetInv, QuestionRight, AnswerIsForQuestion
<1>6. answers' \in [Host -> Seq(RightAnswer)] /\ Head(answers[h]) \in RightAnswer
  <2>1. answers[h] # <<>>
    BY DEF SendGoesOn
  <2> QED
    BY <1>2, <1>3, <2>1, RestType
<1>7. Head(answers[h]) = answers[h][1] /\ answers'[h] = <<>>
  BY <1>2, <1>3, <1>5 DEF Rest
<1>8. hw \in {p.dest, Blank} /\ hw \in Station \cup {Blank}
  BY <1>5, <1>6, <1>7 DEF RightAnswer
<1>9. QuestionRight'
  <2>1. \A g \in Host \ {h} : answers'[g] = answers[g] /\ waiting'[g] = waiting[g]
    BY <1>2, <1>3 DEF Rest
  <2>2. waiting'[h] = Nothing
    BY <1>2, <1>3
  <2>3. AnswerIsForQuestion'
    BY <1>1, <1>5, <1>7, <2>1, <2>2 DEF NetInv, QuestionRight, AnswerIsForQuestion
  <2>4. \A g \in Host : waiting'[g] \in RightWait(build, g) \cup {Nothing}
    BY <2>1, <2>2 DEF NetInv, QuestionRight
  <2>5. waiting' \in [Host -> Wait \cup {Nothing}]
    BY <1>2, <1>3
  <2> QED
    BY <1>1, <1>3, <1>6, <2>3, <2>4, <2>5 DEF QuestionRight, RightWait
<1>10. IpRight' /\ missed' \subseteq Host \X IP
  <2>1. CASE \/ hw # Blank \/ ~waiting[h].checks
             \/ p.dest = Broadcast /\ build[h].ip # "routing"
    <3>1. fromIp' = Put(fromIp, h, Frame(h, p, hw)) /\ UNCHANGED missed
      BY <2>1 DEF SendGoesOn
    <3>2. \/ hw = p.dest
          \/ hw = Blank /\ \/ p.dest = Broadcast
                           \/ p.kind = "error" /\ build[h].ip = "diffusion"
      BY <1>4, <1>8, <2>1 DEF RightWait
    <3>3. h \in Station /\ hw \in Station \cup {Broadcast, Blank}
      BY <1>8 DEF Station
    <3> HIDE DEF p, hw
    <3>4. Frame(h, p, hw) \in RightFrame(build)
      BY <1>4, <3>2, <3>3, FrameRight
    <3>5. fromIp' \in [Host -> Seq(RightFrame(build))]
      BY <3>1, <3>4, PutType DEF NetInv, IpRight
    <3> QED
      BY <1>1, <3>1, <3>5 DEF NetInv, IpRight, Types
  <2>2. CASE ~(\/ hw # Blank \/ ~waiting[h].checks
               \/ p.dest = Broadcast /\ build[h].ip # "routing")
    <3>1. missed' = missed \cup {<<h, p.dest>>} /\ UNCHANGED fromIp
      BY <2>2 DEF SendGoesOn
    <3>2. p.dest \in IP
      BY <1>4 DEF Packet
    <3> QED
      BY <1>1, <3>1, <3>2 DEF NetInv, IpRight, Types
  <2> QED
    BY <2>1, <2>2
<1> QED
  BY <1>1, <1>9, <1>10, Kept DEF NetInv, Types, muxQueues

\* An error is a packet to the source of what it is about.
LEMMA ICMPErrorRight ==
  ASSUME NEW h \in Host, NEW p \in Packet
  PROVE  ICMPError(h, p) \in Packet /\ ICMPError(h, p).kind = "error"
BY DEF ICMPError, Packet, IP, Kind, Defect

\* What ip_mux sends on are packets.
LEMMA IpMuxRight ==
  ASSUME NetInv, NEW h \in Host, NEW p \in Packet, IpMux(h, p)
  PROVE  /\ got' \in [Host -> Seq(Packet)] /\ toIcmp' \in [Host -> Seq(Packet)]
         /\ down' \in [Host -> Seq(Packet)]
<1>1. down \in [Host -> Seq(Packet)] /\ toIcmp \in [Host -> Seq(Packet)]
      /\ got \in [Host -> Seq(Packet)]
  BY DEF NetInv, Types
<1>2. Put(got, h, p) \in [Host -> Seq(Packet)] /\ Put(toIcmp, h, p) \in [Host -> Seq(Packet)]
      /\ Put(down, h, ICMPError(h, p)) \in [Host -> Seq(Packet)]
  BY <1>1, PutType, ICMPErrorRight
<1> QED
  BY <1>1, <1>2 DEF IpMux

LEMMA IpReceivesRight ==
  ASSUME NetInv, NEW h \in Host, IpReceives(h)
  PROVE  NetInv'
<1>1. UNCHANGED <<build, cache, arpQueues, fromIp, answers, missed, count>>
      /\ waiting[h] = Nothing
  BY DEF IpReceives
<1> DEFINE p == Head(toIp[h]).packet
<1>2. toIp' \in [Host -> Seq(RightFrame(build))] /\ p \in Packet
  <2>1. toIp \in [Host -> Seq(RightFrame(build))] /\ toIp[h] # <<>>
    BY DEF IpReceives, NetInv, IpRight
  <2>2. toIp' = Rest(toIp, h)
    BY DEF IpReceives
  <2>3. toIp' \in [Host -> Seq(RightFrame(build))] /\ Head(toIp[h]) \in RightFrame(build)
    BY <2>1, <2>2, RestType
  <2> QED
    BY <2>3 DEF RightFrame, IpFrame
<1>3. IpRight' /\ CacheRight' /\ ArpRight'
  BY <1>1, <1>2, Kept DEF NetInv, IpRight
<1>4. \/ UNCHANGED <<asks, waiting, muxQueues, got>>
      \/ /\ p.defect \in Answered(build[h].ip)
         /\ SendPacket(h, ICMPError(h, p), build[h].ip = "plain") /\ UNCHANGED <<muxQueues, got>>
      \/ IpMux(h, p) /\ UNCHANGED <<asks, waiting>>
  BY DEF IpReceives
<1> HIDE DEF p
<1>5. CASE UNCHANGED <<asks, waiting, muxQueues, got>>
  BY <1>1, <1>3, <1>5, Kept DEF NetInv, question
<1>6. CASE /\ p.defect \in Answered(build[h].ip)
           /\ SendPacket(h, ICMPError(h, p), build[h].ip = "plain") /\ UNCHANGED <<muxQueues, got>>
  <2> DEFINE e == ICMPError(h, p)
             w == [packet |-> e, checks |-> build[h].ip = "plain"]
  <2>1. build[h].ip \in {"plain", "diffusion"}
    BY <1>6 DEF NetInv, Types, Build, Answered
  <2>2. e \in Packet /\ e.kind = "error"
    BY <1>2, ICMPErrorRight
  <2> HIDE DEF e
  <2>3. w \in RightWait(build, h) /\ w.packet = e
    <3>1. w \in Wait /\ w.packet = e
      BY <2>2 DEF Wait
    <3>2. w.checks = (build[h].ip = "plain")
      OBVIOUS
    <3> HIDE DEF w
    <3>3. w.checks \/ (w.packet.kind = "error" /\ build[h].ip = "diffusion")
      BY <2>1, <2>2, <3>1, <3>2
    <3> QED
      BY <3>1, <3>3, Zenon DEF RightWait
  <2>4. waiting' = [waiting EXCEPT ![h] = w] /\ asks' = Put(asks, h, e.dest)
    BY <1>6 DEF SendPacket, e
  <2> HIDE DEF w
  <2>5. QuestionRight'
    BY <1>1, <2>3, <2>4, QuestionAsked
  <2> QED
    BY <1>1, <1>3, <1>6, <2>5, Kept DEF NetInv
<1>7. CASE IpMux(h, p) /\ UNCHANGED <<asks, waiting>>
  <2>1. Types'
    BY <1>1, <1>2, <1>7, IpMuxRight DEF NetInv, Types
  <2> QED
    BY <1>1, <1>3, <1>7, <2>1, Kept DEF NetInv, question
<1> QED
  BY <1>4, <1>5, <1>6, <1>7

LEMMA IpSendsRight ==
  ASSUME NetInv, NEW h \in Host, IpSends(h)
  PROVE  NetInv'
<1>1. UNCHANGED <<build, cache, arpQueues, ipQueues, answers, missed, count>>
      /\ waiting[h] = Nothing /\ down[h] # <<>> /\ down' = Rest(down, h)
  BY DEF IpSends
<1> DEFINE p == Head(down[h])
<1>2. p \in Packet /\ down' \in [Host -> Seq(Packet)]
  BY <1>1, RestType DEF NetInv, Types
<1>3. RouteOut(h, p)
  BY DEF IpSends
<1> HIDE DEF p
<1>4. CASE TurnBack(h, p) /\ UNCHANGED <<asks, waiting>>
  <2>1. got' \in [Host -> Seq(Packet)] /\ toIcmp' \in [Host -> Seq(Packet)]
    BY <1>2, <1>4, PutType DEF TurnBack, NetInv, Types
  <2>2. Types'
    BY <1>1, <1>2, <2>1 DEF NetInv, Types
  <2> QED
    BY <1>1, <1>4, <2>2, Kept DEF NetInv, question
<1>5. CASE SendPacket(h, p, TRUE) /\ UNCHANGED <<got, toIcmp>>
  <2> DEFINE w == [packet |-> p, checks |-> TRUE]
  <2>1. w \in RightWait(build, h) /\ w.packet = p
    <3>1. w \in Wait /\ w.checks = TRUE /\ w.packet = p
      BY <1>2 DEF Wait
    <3> QED
      BY <3>1, Zenon DEF RightWait
  <2>2. waiting' = [waiting EXCEPT ![h] = w] /\ asks' = Put(asks, h, p.dest)
    BY <1>5 DEF SendPacket
  <2> HIDE DEF w
  <2>3. QuestionRight'
    BY <1>1, <2>1, <2>2, QuestionAsked
  <2>4. Types'
    BY <1>1, <1>2, <1>5 DEF NetInv, Types
  <2> QED
    BY <1>1, <2>3, <2>4, Kept DEF NetInv
<1> QED
  BY <1>3, <1>4, <1>5 DEF RouteOut

-----------------------------------------------------------------------------
(* icmp_module and the traffic.                                            *)
LEMMA IcmpModuleRight ==
  ASSUME NetInv, NEW h \in Host, IcmpModule(h)
  PROVE  NetInv'
<1>1. UNCHANGED <<build, cache, arpQueues, ipQueues, question, got, missed, count>>
      /\ toIcmp[h] # <<>> /\ toIcmp' = Rest(toIcmp, h)
  BY DEF IcmpModule
<1> DEFINE p == Head(toIcmp[h])
<1>2. p \in Packet /\ toIcmp' \in [Host -> Seq(Packet)]
  BY <1>1, RestType DEF NetInv, Types
<1>3. down' = Put(down, h, respond(p)) \/ down' = down
  BY DEF IcmpModule
<1> HIDE DEF p
<1>4. respond(p) \in Packet
  BY <1>2 DEF respond, Packet, Kind
<1>5. down' \in [Host -> Seq(Packet)]
  <2>1. down \in [Host -> Seq(Packet)]
    BY DEF NetInv, Types
  <2>2. Put(down, h, respond(p)) \in [Host -> Seq(Packet)]
    BY <1>4, <2>1, PutType
  <2> QED
    BY <1>3, <2>1, <2>2
<1>6. Types'
  BY <1>1, <1>2, <1>5 DEF NetInv, Types
<1> QED
  BY <1>1, <1>6, Kept DEF NetInv

\* What is counted has a number.
LEMMA CountSentRight ==
  ASSUME NetInv, CountSent
  PROVE  count' \in Counts /\ count.sent + 1 \in 1..MaxPackets
<1>1. count \in Counts
  BY DEF NetInv, Types
<1>2. count.sent \in Nat /\ MaxPackets \in Nat /\ count.sent < MaxPackets
  BY <1>1, BoundAssumption DEF Counts, CountSent
<1>3. count.sent + 1 \in 0..MaxPackets /\ count.sent + 1 \in 1..MaxPackets
  BY <1>2
<1> QED
  BY <1>1, <1>3 DEF Counts, CountSent

LEMMA NewPacketRight ==
  ASSUME NetInv, CountSent, NEW src \in IP, NEW dest \in IP, NEW kind \in Kind,
         NEW defect \in Defect
  PROVE  NewPacket(src, dest, kind, defect) \in Packet
BY CountSentRight DEF NewPacket, Packet

LEMMA TransportSendsRight ==
  ASSUME NetInv, NEW h \in Host, TransportSends(h)
  PROVE  NetInv'
<1>1. UNCHANGED <<build, cache, arpQueues, ipQueues, question, toIcmp, got, missed>> /\ CountSent
  BY DEF TransportSends
<1>2. PICK dest \in IP : down' = Put(down, h, NewPacket(h, dest, "data", "none"))
  BY DEF TransportSends
<1>3. h \in IP /\ "data" \in Kind /\ "none" \in Defect
  BY DEF IP, Kind, Defect
<1>4. NewPacket(h, dest, "data", "none") \in Packet
  BY <1>1, <1>3, NewPacketRight
<1>5. down' \in [Host -> Seq(Packet)]
  BY <1>2, <1>4, PutType DEF NetInv, Types
<1>6. Types'
  BY <1>1, <1>5, CountSentRight DEF NetInv, Types
<1> QED
  BY <1>1, <1>6, Kept DEF NetInv

LEMMA RouterSendsRight ==
  ASSUME NetInv, NEW h \in Host, RouterSends(h)
  PROVE  NetInv'
<1>1. UNCHANGED <<build, cache, fromArp, fromIp, question, muxQueues, got, missed>> /\ CountSent
  BY DEF RouterSends
<1>2. PICK kind \in Kind, defect \in {"none", "ttl", "fragment"} :
        OnTheWire(Frame(Router, NewPacket(Router, h, kind, defect), h))
  BY DEF RouterSends
<1> DEFINE p == NewPacket(Router, h, kind, defect)
<1>3. p \in Packet /\ p.dest = h
  <2>1. Router \in IP /\ h \in IP /\ defect \in Defect
    BY DEF IP, Defect
  <2> QED
    BY <1>1, <2>1, NewPacketRight DEF NewPacket
<1> HIDE DEF p
<1>4. Frame(Router, p, h) \in RightFrame(build)
  BY <1>3, FrameRight DEF Station
<1>5. ArpRight' /\ IpRight'
  BY <1>1, <1>2, <1>4, WireRight DEF p, NetInv, ArpRight, IpRight
<1>6. Types'
  BY <1>1, CountSentRight DEF NetInv, Types, muxQueues
<1> QED
  BY <1>1, <1>5, <1>6, Kept DEF NetInv

LEMMA RouterBroadcastsRight ==
  ASSUME NetInv, RouterBroadcasts
  PROVE  NetInv'
<1>1. UNCHANGED <<build, cache, fromArp, fromIp, question, muxQueues, got, missed>> /\ CountSent
  BY DEF RouterBroadcasts
<1>2. PICK kind \in {"data", "echo"} :
        OnTheWire(Frame(Router, NewPacket(Router, Broadcast, kind, "none"), Broadcast))
  BY DEF RouterBroadcasts
<1> DEFINE p == NewPacket(Router, Broadcast, kind, "none")
<1>3. p \in Packet /\ p.dest = Broadcast
  <2>1. Router \in IP /\ Broadcast \in IP /\ kind \in Kind /\ "none" \in Defect
    BY DEF IP, Kind, Defect
  <2> QED
    BY <1>1, <2>1, NewPacketRight DEF NewPacket
<1> HIDE DEF p
<1>4. Frame(Router, p, Broadcast) \in RightFrame(build)
  BY <1>3, FrameRight DEF Station
<1>5. ArpRight' /\ IpRight'
  BY <1>1, <1>2, <1>4, WireRight DEF p, NetInv, ArpRight, IpRight
<1>6. Types'
  BY <1>1, CountSentRight DEF NetInv, Types, muxQueues
<1> QED
  BY <1>1, <1>5, <1>6, Kept DEF NetInv

LEMMA RouterRepliesRight ==
  ASSUME NetInv, RouterReplies
  PROVE  NetInv'
<1>1. UNCHANGED <<build, cache, fromArp, ipQueues, question, muxQueues, got, missed, count>>
  BY DEF RouterReplies
<1> DEFINE f    == Head(toArp[Router])
           repl == ARPPacket("Reply", Router, f.from, f.sender)
<1>2. toArp \in [Station -> Seq(RightArp)] /\ Router \in Station /\ toArp[Router] # <<>>
  BY DEF RouterReplies, NetInv, ArpRight, Station
<1>3. f \in RightArp /\ Tail(toArp[Router]) \in Seq(RightArp)
  BY <1>2
<1>4. toArp' = [n \in Station |->
                  IF n = Router THEN Tail(toArp[n])
                  ELSE IF Hears(n, repl) THEN Append(toArp[n], repl) ELSE toArp[n]]
  BY DEF RouterReplies
<1> HIDE DEF f
<1>5. repl \in RightArp
  <2>1. f.from \in Station /\ f.sender \in IP
    BY <1>3 DEF RightArp, ArpFrame, Station, IP
  <2> QED
    BY <1>2, <2>1, ARPPacketRight
<1> HIDE DEF repl
<1>6. \A n \in Station : Append(toArp[n], repl) \in Seq(RightArp) /\ toArp[n] \in Seq(RightArp)
  BY <1>2, <1>5
<1>7. ArpRight'
  BY <1>1, <1>3, <1>4, <1>6 DEF NetInv, ArpRight
<1> QED
  BY <1>1, <1>7, Kept DEF NetInv

-----------------------------------------------------------------------------
LEMMA NetInvStep == NetInv /\ [Next]_vars => NetInv'
<1> SUFFICES ASSUME NetInv, [Next]_vars PROVE NetInv'
  OBVIOUS
<1>1. CASE UNCHANGED vars
  BY <1>1, Kept DEF vars, NetInv
<1>2. ASSUME NEW h \in Host, Module(h) PROVE NetInv'
  BY <1>2, EthernetMuxRight, ArpAnswersRight, ArpHearsRight, SendGoesOnRight,
     IpReceivesRight, IpSendsRight, IcmpModuleRight DEF Module, arp_module, ip_module
<1>3. ASSUME NEW h \in Host, TransportSends(h) \/ RouterSends(h) \/ DamagePacket(h)
      PROVE  NetInv'
  BY <1>3, TransportSendsRight, RouterSendsRight, DamagePacketRight
<1>4. ASSUME NEW n \in Station, Lose(n) PROVE NetInv'
  BY <1>4, LoseRight
<1> QED
  BY <1>1, <1>2, <1>3, <1>4, RouterBroadcastsRight, RouterRepliesRight DEF Next, Runs

THEOREM NetInvHolds == Spec => []NetInv
BY NetInvInit, NetInvStep, PTL DEF Spec

(* However many hosts there are and whatever programs they run, FIFOs,     *)
(* caches and counters hold what they are declared to hold (TypeOK).       *)
THEOREM NetworkTypeCorrect == Spec => []TypeOK
BY NetInvHolds, NetInvSuffices, PTL

(* SendPacket of ip_module takes whatever it receives next from arp_module *)
(* for the answer to the question it has just asked: it always is          *)
(* (AnswerIsForQuestion).                                                  *)
THEOREM AnswersMeetQuestions == Spec => []AnswerIsForQuestion
BY NetInvHolds, NetInvSuffices, PTL

(* arp_module believes every ARP frame that it hears, and ip_module what   *)
(* arp_module says; still no packet is ever in a frame to another host     *)
(* than the one it is for, but for the exceptions that AddressesRight      *)
(* names.                                                                  *)
THEOREM FramesGoWherePacketsDo == Spec => []AddressesRight
BY NetInvHolds, NetInvSuffices, PTL
-----------------------------------------------------------------------------
(* The order of delivery.  Between a transport of s and one of h a packet  *)
(* is in down[s], held by SendPacket, in fromIp[s], in toIp[h] and in      *)
(* got[h]; each of the five is in order, and everything in one of them is  *)
(* ahead of everything in those before.  A damaged packet cannot reach a   *)
(* transport and need not be in order: its source may be anything.         *)

IsData(p) == p.kind = "data" /\ p.defect # "checksum"
Before(p, q) ==
  IsData(p) /\ IsData(q) /\ p.src = q.src /\ p.dest = q.dest => p.id < q.id

Ordered(s)  == \A i, j \in DOMAIN s : i < j => Before(s[i], s[j])
Ahead(s, t) == \A i \in DOMAIN s, j \in DOMAIN t : Before(s[i], t[j])

\* Got, heard, sent, held, and given to ip_module.
Chain(g, n, f, w, d) ==
  /\ Ordered(g) /\ Ordered(n) /\ Ordered(f) /\ Ordered(w) /\ Ordered(d)
  /\ Ahead(g, n) /\ Ahead(g, f) /\ Ahead(g, w) /\ Ahead(g, d)
  /\ Ahead(n, f) /\ Ahead(n, w) /\ Ahead(n, d)
  /\ Ahead(f, w) /\ Ahead(f, d) /\ Ahead(w, d)

Packets(s) == [i \in DOMAIN s |-> s[i].packet]
In(h)   == Packets(toIp[h])
Out(h)  == Packets(fromIp[h])
Held(h) == IF waiting[h] = Nothing THEN <<>> ELSE <<waiting[h].packet>>

\* The routing version sends no packet to its own host.
Routes(h) == build[h].ip = "routing"

GotOf(h) ==
  {p \in Packet : IsData(p) /\ p.dest \in {h, Broadcast} /\ p.id <= count.sent}
HeardOf(h) ==
  {p \in Packet : IsData(p) => /\ p.id <= count.sent
                               /\ ~(Routes(h) /\ p.src = h /\ p.dest = h)}
SentOf(h) ==
  {p \in Packet : IsData(p) => /\ p.src = h /\ p.id <= count.sent
                               /\ ~(Routes(h) /\ p.dest = h)}
GivenTo(h) ==
  {p \in Packet : p.kind = "data" => p.defect = "none" /\ p.src = h /\ p.id <= count.sent}

ItemsRight ==
  \A h \in Host :
    /\ got[h] \in Seq(GotOf(h)) /\ In(h) \in Seq(HeardOf(h))
    /\ Out(h) \in Seq(SentOf(h)) /\ Held(h) \in Seq(SentOf(h)) /\ down[h] \in Seq(GivenTo(h))

LinesRight ==
  \A h, s \in Host : Chain(got[h], In(h), Out(s), Held(s), down[s])

OrderInv == NetInv /\ ItemsRight /\ LinesRight

LEMMA OrderInvSuffices == OrderInv => DeliveredInOrder
<1> SUFFICES ASSUME OrderInv, NEW h \in Host, NEW j \in 1..Len(got[h])
             PROVE  /\ got[h][j].dest \in {h, Broadcast}
                    /\ \A i \in 1..(j - 1) :
                         got[h][i].src = got[h][j].src /\ got[h][i].dest = got[h][j].dest
                         => got[h][i].id < got[h][j].id
  BY DEF DeliveredInOrder
<1>1. got[h] \in Seq(GotOf(h)) /\ Ordered(got[h])
  BY DEF OrderInv, ItemsRight, LinesRight, Chain
<1>2. \A i \in 1..Len(got[h]) : i \in DOMAIN got[h] /\ got[h][i] \in GotOf(h)
  BY <1>1
<1>3. \A i \in 1..(j - 1) : i \in 1..Len(got[h]) /\ i < j
  BY <1>1
<1> QED
  BY <1>1, <1>2, <1>3 DEF Ordered, Before, GotOf

-----------------------------------------------------------------------------
(* Sequences of packets in order.                                          *)
LEMMA SingleOrder ==
  ASSUME NEW x, NEW t
  PROVE  /\ Ordered(<<>>) /\ Ordered(<<x>>) /\ Ahead(<<>>, t) /\ Ahead(t, <<>>)
         /\ ~IsData(x) => Ahead(<<x>>, t) /\ Ahead(t, <<x>>)
<1>1. DOMAIN <<x>> = {1} /\ <<x>>[1] = x
  OBVIOUS
<1>2. DOMAIN <<>> = {}
  OBVIOUS
<1>3. ~IsData(x) => \A p : Before(x, p) /\ Before(p, x)
  BY DEF Before
<1> QED
  BY <1>1, <1>2, <1>3 DEF Ordered, Ahead

LEMMA AppendOrder ==
  ASSUME NEW s \in Seq(Packet), NEW x \in Packet, NEW t
  PROVE  /\ Append(s, x) \in Seq(Packet)
         /\ Ordered(s) /\ Ahead(s, <<x>>) => Ordered(Append(s, x))
         /\ Ahead(s, t) /\ Ahead(<<x>>, t) => Ahead(Append(s, x), t)
         /\ Ahead(t, s) /\ Ahead(t, <<x>>) => Ahead(t, Append(s, x))
<1> DEFINE r == Append(s, x)
<1>1. /\ r \in Seq(Packet) /\ DOMAIN r = 1..(Len(s) + 1) /\ Len(s) \in Nat
      /\ DOMAIN s = 1..Len(s) /\ r[Len(s) + 1] = x
      /\ \A i \in 1..Len(s) : r[i] = s[i]
  OBVIOUS
<1>2. DOMAIN <<x>> = {1} /\ <<x>>[1] = x
  OBVIOUS
<1> HIDE DEF r
<1>3. \A i \in DOMAIN r : (i \in DOMAIN s /\ r[i] = s[i]) \/ (i = Len(s) + 1 /\ r[i] = x)
  BY <1>1
<1>4. Ordered(s) /\ Ahead(s, <<x>>) => Ordered(r)
  <2> SUFFICES ASSUME Ordered(s), Ahead(s, <<x>>),
                      NEW i \in DOMAIN r, NEW j \in DOMAIN r, i < j
               PROVE  Before(r[i], r[j])
    BY DEF Ordered
  <2>1. i \in DOMAIN s /\ r[i] = s[i]
    BY <1>1, <1>3
  <2> QED
    BY <1>2, <1>3, <2>1 DEF Ordered, Ahead
<1>5. Ahead(s, t) /\ Ahead(<<x>>, t) => Ahead(r, t)
  BY <1>2, <1>3 DEF Ahead
<1>6. Ahead(t, s) /\ Ahead(t, <<x>>) => Ahead(t, r)
  BY <1>2, <1>3 DEF Ahead
<1> QED
  BY <1>1, <1>4, <1>5, <1>6 DEF r

LEMMA TailOrder ==
  ASSUME NEW s \in Seq(Packet), s # <<>>, NEW t
  PROVE  /\ Tail(s) \in Seq(Packet) /\ Head(s) \in Packet
         /\ Ordered(s) => Ordered(Tail(s)) /\ Ahead(<<Head(s)>>, Tail(s))
         /\ Ahead(s, t) => Ahead(Tail(s), t) /\ Ahead(<<Head(s)>>, t)
         /\ Ahead(t, s) => Ahead(t, Tail(s)) /\ Ahead(t, <<Head(s)>>)
<1> DEFINE r == Tail(s)
           x == Head(s)
<1>1. /\ r \in Seq(Packet) /\ x \in Packet /\ Len(s) \in Nat /\ DOMAIN s = 1..Len(s)
      /\ 1 \in DOMAIN s /\ s[1] = x /\ DOMAIN r = 1..(Len(s) - 1)
      /\ \A i \in 1..(Len(s) - 1) : r[i] = s[i + 1]
  OBVIOUS
<1>2. DOMAIN <<x>> = {1} /\ <<x>>[1] = x
  OBVIOUS
<1> HIDE DEF r, x
<1>3. \A i \in DOMAIN r : i + 1 \in DOMAIN s /\ r[i] = s[i + 1] /\ i \in Int /\ 1 < i + 1
  BY <1>1
<1>4. Ordered(s) => Ordered(r)
  <2> SUFFICES ASSUME Ordered(s), NEW i \in DOMAIN r, NEW j \in DOMAIN r, i < j
               PROVE  Before(r[i], r[j])
    BY DEF Ordered
  <2>1. i + 1 < j + 1
    BY <1>3
  <2> QED
    BY <1>3, <2>1 DEF Ordered
<1>5. Ordered(s) => Ahead(<<x>>, r)
  BY <1>1, <1>2, <1>3 DEF Ordered, Ahead
<1>6. Ahead(s, t) => Ahead(r, t) /\ Ahead(<<x>>, t)
  BY <1>1, <1>2, <1>3 DEF Ahead
<1>7. Ahead(t, s) => Ahead(t, r) /\ Ahead(t, <<x>>)
  BY <1>1, <1>2, <1>3 DEF Ahead
<1> QED
  BY <1>1, <1>4, <1>5, <1>6, <1>7 DEF r, x

\* The first packet is damaged.
LEMMA SpoilOrder ==
  ASSUME NEW s \in Seq(Packet), s # <<>>, NEW x \in Packet, ~IsData(x), NEW t
  PROVE  /\ Ordered(s) => Ordered([s EXCEPT ![1] = x])
         /\ Ahead(s, t) => Ahead([s EXCEPT ![1] = x], t)
         /\ Ahead(t, s) => Ahead(t, [s EXCEPT ![1] = x])
<1> DEFINE r == [s EXCEPT ![1] = x]
<1>1. DOMAIN r = DOMAIN s /\ \A i \in DOMAIN s : r[i] = s[i] \/ r[i] = x
  OBVIOUS
<1>2. \A p : Before(x, p) /\ Before(p, x)
  BY DEF Before
<1> HIDE DEF r
<1>3. \A i, j \in DOMAIN s : Before(s[i], s[j]) => Before(r[i], r[j])
  BY <1>1, <1>2
<1>4. Ordered(s) => Ordered(r)
  BY <1>1, <1>3 DEF Ordered
<1>5. (Ahead(s, t) => Ahead(r, t)) /\ (Ahead(t, s) => Ahead(t, r))
  BY <1>1, <1>2 DEF Ahead
<1> QED
  BY <1>4, <1>5 DEF r

-----------------------------------------------------------------------------
(* What may happen to the five.                                            *)

\* A packet is delivered, or lost or discarded on the other side.
LEMMA ChainDelivers ==
  ASSUME NEW g \in Seq(Packet), NEW n \in Seq(Packet), NEW f, NEW w, NEW d,
         n # <<>>, Chain(g, n, f, w, d)
  PROVE  Chain(Append(g, Head(n)), Tail(n), f, w, d) /\ Chain(g, Tail(n), f, w, d)
<1>1. /\ Tail(n) \in Seq(Packet) /\ Head(n) \in Packet
      /\ Ordered(Tail(n)) /\ Ahead(<<Head(n)>>, Tail(n))
      /\ Ahead(g, Tail(n)) /\ Ahead(g, <<Head(n)>>)
  BY TailOrder DEF Chain
<1>2. \A t \in {f, w, d} : Ahead(Tail(n), t) /\ Ahead(<<Head(n)>>, t)
  BY TailOrder DEF Chain
<1>3. Chain(g, Tail(n), f, w, d)
  BY <1>1, <1>2 DEF Chain
<1>4. Ordered(Append(g, Head(n)))
  BY <1>1, AppendOrder DEF Chain
<1>5. \A t \in {Tail(n), f, w, d} : Ahead(Append(g, Head(n)), t)
  BY <1>1, <1>2, AppendOrder DEF Chain
<1> QED
  BY <1>3, <1>4, <1>5 DEF Chain

\* A packet that is ahead of what the sender still has is heard.
LEMMA ChainHears ==
  ASSUME NEW g, NEW n \in Seq(Packet), NEW f, NEW w, NEW d, NEW x \in Packet,
         Chain(g, n, f, w, d), Ahead(g, <<x>>), Ahead(n, <<x>>),
         Ahead(<<x>>, f), Ahead(<<x>>, w), Ahead(<<x>>, d)
  PROVE  Chain(g, Append(n, x), f, w, d)
<1>1. Ordered(Append(n, x)) /\ Ahead(g, Append(n, x))
  BY AppendOrder DEF Chain
<1>2. \A t \in {f, w, d} : Ahead(Append(n, x), t)
  BY AppendOrder DEF Chain
<1> QED
  BY <1>1, <1>2 DEF Chain

\* One that has been turned back is delivered.
LEMMA ChainTurns ==
  ASSUME NEW g \in Seq(Packet), NEW n, NEW f, NEW w, NEW d, NEW x \in Packet,
         Chain(g, n, f, w, d), Ahead(g, <<x>>),
         Ahead(<<x>>, n), Ahead(<<x>>, f), Ahead(<<x>>, w), Ahead(<<x>>, d)
  PROVE  Chain(Append(g, x), n, f, w, d)
<1>1. Ordered(Append(g, x))
  BY AppendOrder DEF Chain
<1>2. \A t \in {n, f, w, d} : Ahead(Append(g, x), t)
  BY AppendOrder DEF Chain
<1> QED
  BY <1>1, <1>2 DEF Chain

\* The first packet sent is heard, or not.
LEMMA ChainSends ==
  ASSUME NEW g, NEW n \in Seq(Packet), NEW f \in Seq(Packet), NEW w, NEW d,
         f # <<>>, Chain(g, n, f, w, d)
  PROVE  Chain(g, Append(n, Head(f)), Tail(f), w, d) /\ Chain(g, n, Tail(f), w, d)
<1>1. /\ Head(f) \in Packet /\ Ordered(Tail(f)) /\ Ahead(<<Head(f)>>, Tail(f))
      /\ \A t \in {w, d} : Ahead(Tail(f), t) /\ Ahead(<<Head(f)>>, t)
      /\ \A t \in {g, n} : Ahead(t, Tail(f)) /\ Ahead(t, <<Head(f)>>)
  BY TailOrder DEF Chain
<1>2. Chain(g, n, Tail(f), w, d)
  BY <1>1 DEF Chain
<1> QED
  BY <1>1, <1>2, ChainHears

\* What is held goes out, or is discarded.
LEMMA ChainGoesOn ==
  ASSUME NEW g, NEW n, NEW f \in Seq(Packet), NEW p \in Packet, NEW d,
         Chain(g, n, f, <<p>>, d)
  PROVE  Chain(g, n, Append(f, p), <<>>, d) /\ Chain(g, n, f, <<>>, d)
<1>1. Ordered(<<>>) /\ Ahead(<<>>, d) /\ \A t : Ahead(t, <<>>)
  BY SingleOrder
<1>2. Ordered(Append(f, p)) /\ Ahead(Append(f, p), d)
  BY AppendOrder DEF Chain
<1>3. \A t \in {g, n} : Ahead(t, Append(f, p))
  BY AppendOrder DEF Chain
<1> QED
  BY <1>1, <1>2, <1>3 DEF Chain

\* The first packet given to ip_module is held, or turned back.
LEMMA ChainTakes ==
  ASSUME NEW g, NEW n, NEW f, NEW d \in Seq(Packet), d # <<>>, Chain(g, n, f, <<>>, d)
  PROVE  Chain(g, n, f, <<Head(d)>>, Tail(d)) /\ Chain(g, n, f, <<>>, Tail(d))
<1>1. /\ Ordered(Tail(d)) /\ Ahead(<<Head(d)>>, Tail(d))
      /\ \A t \in {g, n, f, <<>>} : Ahead(t, Tail(d)) /\ Ahead(t, <<Head(d)>>)
  BY TailOrder DEF Chain
<1>2. Ordered(<<Head(d)>>)
  BY SingleOrder
<1> QED
  BY <1>1, <1>2 DEF Chain

\* A message of ip_module itself is held.
LEMMA ChainHolds ==
  ASSUME NEW g, NEW n, NEW f, NEW e, NEW d, ~IsData(e), Chain(g, n, f, <<>>, d)
  PROVE  Chain(g, n, f, <<e>>, d)
BY SingleOrder DEF Chain

\* A packet that is behind all others is given to ip_module.
LEMMA ChainGrows ==
  ASSUME NEW g, NEW n, NEW f, NEW w, NEW d \in Seq(Packet), NEW x \in Packet,
         Chain(g, n, f, w, d), \A t \in {g, n, f, w, d} : Ahead(t, <<x>>)
  PROVE  Chain(g, n, f, w, Append(d, x))
<1>1. Ordered(Append(d, x))
  BY AppendOrder DEF Chain
<1>2. \A t \in {g, n, f, w} : Ahead(t, Append(d, x))
  BY AppendOrder DEF Chain
<1> QED
  BY <1>1, <1>2 DEF Chain

\* The first packet heard is damaged.
LEMMA ChainSpoils ==
  ASSUME NEW g, NEW n \in Seq(Packet), NEW f, NEW w, NEW d, n # <<>>,
         NEW x \in Packet, ~IsData(x), Chain(g, n, f, w, d)
  PROVE  Chain(g, [n EXCEPT ![1] = x], f, w, d)
<1> DEFINE r == [n EXCEPT ![1] = x]
<1>1. Ordered(r) /\ Ahead(g, r)
  BY SpoilOrder DEF Chain
<1>2. \A t \in {f, w, d} : Ahead(r, t)
  BY SpoilOrder DEF Chain
<1> HIDE DEF r
<1>3. Chain(g, r, f, w, d)
  BY <1>1, <1>2 DEF Chain
<1> QED
  BY <1>3 DEF r

-----------------------------------------------------------------------------
(* What the actions do to the five.                                        *)

\* The packets of frames.
LEMMA PacketsFacts ==
  ASSUME NEW s \in Seq(IpFrame)
  PROVE  /\ Packets(s) \in Seq(Packet) /\ Len(Packets(s)) = Len(s)
         /\ \A f \in IpFrame : Packets(Append(s, f)) = Append(Packets(s), f.packet)
         /\ s # <<>> => /\ Packets(s) # <<>> /\ Packets(Tail(s)) = Tail(Packets(s))
                        /\ Head(Packets(s)) = Head(s).packet
<1>1. /\ DOMAIN s = 1..Len(s) /\ Len(s) \in Nat
      /\ \A i \in 1..Len(s) : s[i] \in IpFrame /\ s[i].packet \in Packet
  <2>1. /\ DOMAIN s = 1..Len(s) /\ Len(s) \in Nat
        /\ \A i \in 1..Len(s) : s[i] \in IpFrame
    OBVIOUS
  <2>2. \A f \in IpFrame : f.packet \in Packet
    BY DEF IpFrame
  <2> QED
    BY <2>1, <2>2
<1>2. /\ Packets(s) \in Seq(Packet) /\ Len(Packets(s)) = Len(s)
      /\ \A i \in 1..Len(s) : Packets(s)[i] = s[i].packet
  BY <1>1 DEF Packets
<1>3. ASSUME NEW f \in IpFrame
      PROVE  Packets(Append(s, f)) = Append(Packets(s), f.packet)
  <2>1. f.packet \in Packet
    BY DEF IpFrame
  <2> DEFINE a == Append(s, f)
             b == Append(Packets(s), f.packet)
  <2>2. /\ DOMAIN a = 1..(Len(s) + 1) /\ a[Len(s) + 1] = f
        /\ \A i \in 1..Len(s) : a[i] = s[i]
    BY <1>1
  <2>3. /\ b \in Seq(Packet) /\ Len(b) = Len(s) + 1 /\ b[Len(s) + 1] = f.packet
        /\ \A i \in 1..Len(s) : b[i] = s[i].packet
    <3> HIDE DEF a
    <3> QED
      BY <1>2, <2>1
  <2> HIDE DEF a, b
  <2>4. b = [i \in 1..(Len(s) + 1) |-> b[i]]
    BY <2>3
  <2>5. Packets(a) = [i \in 1..(Len(s) + 1) |-> a[i].packet]
    BY <2>2 DEF Packets
  <2>6. \A i \in 1..(Len(s) + 1) : i \in 1..Len(s) \/ i = Len(s) + 1
    BY <1>1
  <2>7. \A i \in 1..(Len(s) + 1) : a[i].packet = b[i]
    BY <2>2, <2>3, <2>6
  <2> QED
    BY <2>4, <2>5, <2>7 DEF a, b
<1>4. ASSUME s # <<>>
      PROVE  /\ Packets(s) # <<>> /\ Packets(Tail(s)) = Tail(Packets(s))
             /\ Head(Packets(s)) = Head(s).packet
  <2>1. /\ DOMAIN Tail(s) = 1..(Len(s) - 1) /\ Len(s) \in Nat \ {0}
        /\ \A i \in 1..(Len(s) - 1) : Tail(s)[i] = s[i + 1] /\ i + 1 \in 1..Len(s)
    BY <1>1, <1>4
  <2> DEFINE q == Packets(s)
  <2> HIDE DEF q
  <2>2. q \in Seq(Packet) /\ Len(q) = Len(s) /\ q # <<>>
    BY <1>2, <1>4 DEF q
  <2>3. Tail(q) = [i \in 1..(Len(s) - 1) |-> q[i + 1]]
    <3> DEFINE r == Tail(q)
    <3>1. /\ r \in Seq(Packet) /\ Len(r) = Len(s) - 1
          /\ \A i \in 1..(Len(s) - 1) : r[i] = q[i + 1]
      BY <2>2
    <3> HIDE DEF r
    <3>2. r = [i \in 1..(Len(s) - 1) |-> r[i]]
      BY <3>1
    <3> QED
      BY <3>1, <3>2 DEF r
  <2>4. Packets(Tail(s)) = [i \in 1..(Len(s) - 1) |-> s[i + 1].packet]
    BY <2>1 DEF Packets
  <2>5. \A i \in 1..(Len(s) - 1) : q[i + 1] = s[i + 1].packet
    BY <1>2, <2>1 DEF q
  <2>6. Head(q) = Head(s).packet
    <3>1. Head(q) = q[1] /\ Head(s) = s[1] /\ 1 \in 1..Len(s)
      BY <1>4, <2>1, <2>2
    <3> QED
      BY <1>2, <3>1 DEF q
  <2> QED
    BY <2>2, <2>3, <2>4, <2>5, <2>6 DEF q
<1> QED
  BY <1>2, <1>3, <1>4

\* The five hold packets.
LEMMA Typed ==
  ASSUME NetInv, NEW h \in Host
  PROVE  /\ got[h] \in Seq(Packet) /\ In(h) \in Seq(Packet) /\ Out(h) \in Seq(Packet)
         /\ Held(h) \in Seq(Packet) /\ down[h] \in Seq(Packet)
         /\ toIp[h] \in Seq(IpFrame) /\ fromIp[h] \in Seq(IpFrame)
<1>1. RightFrame(build) \subseteq IpFrame
  BY DEF RightFrame
<1>2. toIp[h] \in Seq(IpFrame) /\ fromIp[h] \in Seq(IpFrame)
  BY <1>1, SeqMonotone DEF NetInv, IpRight
<1>3. In(h) \in Seq(Packet) /\ Out(h) \in Seq(Packet)
  BY <1>2, PacketsFacts DEF In, Out
<1>4. Held(h) \in Seq(Packet)
  <2>1. waiting[h] = Nothing \/ waiting[h].packet \in Packet
    BY DEF NetInv, QuestionRight, Wait
  <2>2. <<>> \in Seq(Packet) /\ \A p \in Packet : <<p>> \in Seq(Packet)
    OBVIOUS
  <2> QED
    BY <2>1, <2>2 DEF Held
<1> QED
  BY <1>2, <1>3, <1>4 DEF NetInv, Types

\* The numbers only grow.
LEMMA Later ==
  ASSUME OrderInv, UNCHANGED build, count.sent' \in Nat, count.sent <= count.sent', NEW h \in Host
  PROVE  /\ GotOf(h) \subseteq GotOf(h)' /\ HeardOf(h) \subseteq HeardOf(h)'
         /\ SentOf(h) \subseteq SentOf(h)' /\ GivenTo(h) \subseteq GivenTo(h)'
         /\ got[h] \in Seq(GotOf(h)') /\ In(h) \in Seq(HeardOf(h)') /\ Out(h) \in Seq(SentOf(h)')
         /\ Held(h) \in Seq(SentOf(h)') /\ down[h] \in Seq(GivenTo(h)')
<1>1. count.sent \in Nat
  BY DEF OrderInv, NetInv, Types, Counts
<1>2. \A p \in Packet : p.id \in Nat
  BY DEF Packet
<1>3. \A p \in Packet : p.id <= count.sent => p.id <= count'.sent
  BY <1>1, <1>2
<1>4. /\ GotOf(h) \subseteq GotOf(h)' /\ HeardOf(h) \subseteq HeardOf(h)'
      /\ SentOf(h) \subseteq SentOf(h)' /\ GivenTo(h) \subseteq GivenTo(h)'
  BY <1>3 DEF GotOf, HeardOf, SentOf, GivenTo, Routes
<1> QED
  BY <1>4, SeqMonotone DEF OrderInv, ItemsRight

\* What is not counted as sent.
LEMMA SameCount ==
  ASSUME NetInv, UNCHANGED <<build, count.sent>>
  PROVE  /\ count.sent' \in Nat /\ count.sent <= count.sent'
         /\ \A h \in Host : /\ GotOf(h)' = GotOf(h) /\ HeardOf(h)' = HeardOf(h)
                            /\ SentOf(h)' = SentOf(h) /\ GivenTo(h)' = GivenTo(h)
<1>1. count.sent \in Nat
  BY DEF NetInv, Types, Counts
<1> QED
  BY <1>1 DEF GotOf, HeardOf, SentOf, GivenTo, Routes

\* Where a queue of the five has not changed, it stays right.
LEMMA OrderKept ==
  ASSUME OrderInv, NetInv', UNCHANGED <<build, got, toIp, fromIp, waiting, down>>,
         count.sent' \in Nat, count.sent <= count.sent'
  PROVE  OrderInv'
<1>1. \A h : In(h)' = In(h) /\ Out(h)' = Out(h) /\ Held(h)' = Held(h)
  BY DEF In, Out, Held
<1>2. ItemsRight'
  BY <1>1, Later DEF ItemsRight
<1>3. LinesRight'
  BY <1>1 DEF OrderInv, LinesRight
<1> QED
  BY <1>2, <1>3 DEF OrderInv

\* A packet of one host is not in the way of another's.
LEMMA Foreign ==
  ASSUME NEW x, NEW s, IsData(x) => x.src # s,
         NEW t, t \in Seq(SentOf(s)) \/ t \in Seq(GivenTo(s))
  PROVE  Ahead(<<x>>, t)
<1>1. DOMAIN <<x>> = {1} /\ <<x>>[1] = x
  OBVIOUS
<1>2. \A j \in DOMAIN t : t[j] \in SentOf(s) \/ t[j] \in GivenTo(s)
  OBVIOUS
<1>3. \A j \in DOMAIN t : Before(x, t[j])
  BY <1>2 DEF Before, SentOf, GivenTo, IsData
<1> QED
  BY <1>1, <1>3 DEF Ahead

\* A new packet is behind all others.
LEMMA Newest ==
  ASSUME OrderInv, NEW x, x.id = count.sent + 1, NEW h \in Host
  PROVE  /\ Ahead(got[h], <<x>>) /\ Ahead(In(h), <<x>>) /\ Ahead(Out(h), <<x>>)
         /\ Ahead(Held(h), <<x>>) /\ Ahead(down[h], <<x>>)
<1>1. count.sent \in Nat
  BY DEF OrderInv, NetInv, Types, Counts
<1>2. ASSUME NEW t, \A i \in DOMAIN t : t[i] \in Packet /\ (IsData(t[i]) => t[i].id <= count.sent)
      PROVE  Ahead(t, <<x>>)
  <2>1. DOMAIN <<x>> = {1} /\ <<x>>[1] = x
    OBVIOUS
  <2>2. ASSUME NEW i \in DOMAIN t, IsData(t[i]) PROVE t[i].id < x.id
    <3>1. t[i].id \in Nat /\ t[i].id <= count.sent
      BY <1>2, <2>2 DEF Packet
    <3> QED
      BY <1>1, <3>1
  <2> QED
    BY <2>1, <2>2 DEF Ahead, Before
<1>3. /\ \A i \in DOMAIN got[h] : got[h][i] \in GotOf(h)
      /\ \A i \in DOMAIN In(h) : In(h)[i] \in HeardOf(h)
      /\ \A i \in DOMAIN Out(h) : Out(h)[i] \in SentOf(h)
      /\ \A i \in DOMAIN Held(h) : Held(h)[i] \in SentOf(h)
      /\ \A i \in DOMAIN down[h] : down[h][i] \in GivenTo(h)
  BY DEF OrderInv, ItemsRight
<1>4. \A p \in GotOf(h) \cup HeardOf(h) \cup SentOf(h) \cup GivenTo(h) :
        p \in Packet /\ (IsData(p) => p.id <= count.sent)
  BY DEF GotOf, HeardOf, SentOf, GivenTo, IsData
<1> QED
  BY <1>2, <1>3, <1>4

\* A frame is heard or not.
LEMMA Wired ==
  ASSUME NetInv, NEW f \in IpFrame, OnTheWire(f), NEW n \in Host
  PROVE  In(n)' = Append(In(n), f.packet) \/ In(n)' = In(n)
<1>1. toIp[n] \in Seq(IpFrame) /\ toIp \in [Host -> Seq(RightFrame(build))]
  BY Typed DEF NetInv, IpRight
<1>2. f.type # "ARP"
  BY DEF IpFrame
<1>3. toIp' = [m \in DOMAIN toIp |-> IF Hears(m, f) THEN Append(toIp[m], f) ELSE toIp[m]]
  BY <1>2 DEF OnTheWire
<1>4. toIp'[n] = Append(toIp[n], f) \/ toIp'[n] = toIp[n]
  BY <1>1, <1>3
<1> QED
  BY <1>1, <1>4, PacketsFacts DEF In

-----------------------------------------------------------------------------
(* The Ethernet keeps the order.                                           *)
LEMMA EthernetMuxOrder ==
  ASSUME OrderInv, NetInv', NEW h \in Host, EthernetMux(h)
  PROVE  OrderInv'
<1>1. UNCHANGED <<build, waiting, got, down, count>> /\ NetInv
  BY DEF EthernetMux, OrderInv, question, muxQueues
<1>2. CASE /\ fromArp[h] # <<>> /\ ProcessOutgoing(h, Head(fromArp[h]))
           /\ UNCHANGED fromIp
  <2>1. Head(fromArp[h]) \in RightArp
    BY <1>1, <1>2 DEF NetInv, ArpRight
  <2>2. Head(fromArp[h]).type = "ARP"
    BY <2>1 DEF RightArp, ArpFrame
  <2>3. UNCHANGED toIp
    BY <1>2, <2>2 DEF ProcessOutgoing, OnTheWire
  <2> QED
    BY <1>1, <1>2, <2>3, SameCount, OrderKept
<1>3. CASE /\ fromIp[h] # <<>> /\ ProcessOutgoing(h, Head(fromIp[h]))
           /\ fromIp' = Rest(fromIp, h)
  <2> DEFINE fr == Head(fromIp[h])
             x  == Head(Out(h))
  <2>1. /\ fromIp[h] \in Seq(IpFrame) /\ fr \in IpFrame
        /\ fromIp \in [Host -> Seq(RightFrame(build))]
    BY <1>1, <1>3, Typed DEF NetInv, IpRight
  <2>2. /\ x = fr.packet /\ Out(h) # <<>>
        /\ Out(h)' = Tail(Out(h)) /\ \A s \in Host \ {h} : Out(s)' = Out(s)
    <3>1. fromIp'[h] = Tail(fromIp[h]) /\ \A s \in Host \ {h} : fromIp'[s] = fromIp[s]
      BY <1>3, <2>1 DEF Rest
    <3> QED
      BY <1>3, <2>1, <3>1, PacketsFacts DEF Out
  <2>3. \A n \in Host : In(n)' = Append(In(n), x) \/ In(n)' = In(n)
    <3>1. CASE fr.from = h
      BY <1>1, <1>3, <2>1, <2>2, <3>1, Wired DEF ProcessOutgoing
    <3>2. CASE fr.from # h
      BY <1>3, <3>2 DEF ProcessOutgoing, In
    <3> QED
      BY <3>1, <3>2
  <2>4. \A n : Held(n)' = Held(n)
    BY <1>1 DEF Held
  <2>5. /\ \A n \in Host : /\ GotOf(n)' = GotOf(n) /\ HeardOf(n)' = HeardOf(n)
                           /\ SentOf(n)' = SentOf(n) /\ GivenTo(n)' = GivenTo(n)
    BY <1>1, SameCount
  <2>6. x \in SentOf(h) /\ x \in Packet /\ \A n \in Host : x \in HeardOf(n)
    <3>1. Out(h) \in Seq(SentOf(h))
      BY DEF OrderInv, ItemsRight
    <3>2. x \in SentOf(h)
      BY <2>2, <3>1
    <3> QED
      BY <3>2 DEF SentOf, HeardOf
  <2> HIDE DEF x, fr
  <2>7. ItemsRight'
    <3>1. ASSUME NEW n \in Host PROVE In(n)' \in Seq(HeardOf(n))
      <4>1. In(n) \in Seq(HeardOf(n)) /\ x \in HeardOf(n)
        BY <2>6 DEF OrderInv, ItemsRight
      <4>2. Append(In(n), x) \in Seq(HeardOf(n))
        BY <4>1
      <4> QED
        BY <2>3, <4>1, <4>2
    <3>2. \A n \in Host : Out(n)' \in Seq(SentOf(n))
      BY <2>2 DEF OrderInv, ItemsRight
    <3> QED
      BY <1>1, <2>4, <2>5, <3>1, <3>2 DEF OrderInv, ItemsRight
  <2>8. ASSUME NEW n \in Host, NEW s \in Host
        PROVE  Chain(got[n], In(n)', Out(s)', Held(s), down[s])
    <3>1. /\ Chain(got[n], In(n), Out(s), Held(s), down[s])
          /\ Chain(got[n], In(n), Out(h), Held(h), down[h])
      BY DEF OrderInv, LinesRight
    <3>2. In(n) \in Seq(Packet) /\ Out(h) \in Seq(Packet) /\ got[n] \in Seq(Packet)
      BY <1>1, Typed
    <3>3. CASE s = h
      BY <2>2, <2>3, <3>1, <3>2, <3>3, ChainSends DEF x
    <3>4. CASE s # h
      <4>1. Out(s)' = Out(s)
        BY <2>2, <3>4
      <4>2. Ahead(got[n], <<x>>) /\ Ahead(In(n), <<x>>)
        BY <2>2, <3>1, <3>2, TailOrder DEF Chain, x
      <4>3. IsData(x) => x.src # s
        BY <2>6, <3>4 DEF SentOf
      <4>4. Ahead(<<x>>, Out(s)) /\ Ahead(<<x>>, Held(s)) /\ Ahead(<<x>>, down[s])
        BY <4>3, Foreign DEF OrderInv, ItemsRight
      <4> QED
        BY <2>3, <2>6, <3>1, <3>2, <4>1, <4>2, <4>4, ChainHears
    <3> QED
      BY <3>3, <3>4
  <2>9. LinesRight'
    BY <1>1, <2>4, <2>8 DEF LinesRight
  <2> QED
    BY <2>7, <2>9 DEF OrderInv
<1> QED
  BY <1>2, <1>3 DEF EthernetMux

LEMMA LoseOrder ==
  ASSUME OrderInv, NetInv', NEW m \in Station, Lose(m)
  PROVE  OrderInv'
<1>1. /\ UNCHANGED <<build, waiting, got, down, fromIp>> /\ NetInv /\ UNCHANGED count.sent
  BY DEF Lose, OrderInv, question, muxQueues, NetInv, Types, Counts
<1>2. CASE UNCHANGED toIp
  BY <1>1, <1>2, SameCount, OrderKept
<1>3. CASE m \in Host /\ toIp[m] # <<>> /\ toIp' = Rest(toIp, m)
  <2>1. /\ toIp[m] \in Seq(IpFrame) /\ toIp \in [Host -> Seq(RightFrame(build))]
    BY <1>1, <1>3, Typed DEF NetInv, IpRight
  <2>2. In(m) # <<>> /\ In(m)' = Tail(In(m)) /\ \A n \in Host \ {m} : In(n)' = In(n)
    <3>1. toIp'[m] = Tail(toIp[m]) /\ \A n \in Host \ {m} : toIp'[n] = toIp[n]
      BY <1>3, <2>1 DEF Rest
    <3> QED
      BY <1>3, <2>1, <3>1, PacketsFacts DEF In
  <2>3. \A n : Held(n)' = Held(n) /\ Out(n)' = Out(n)
    BY <1>1 DEF Held, Out
  <2>4. ItemsRight'
    <3>1. In(m)' \in Seq(HeardOf(m))
      BY <1>3, <2>2 DEF OrderInv, ItemsRight
    <3>2. \A n \in Host : In(n)' \in Seq(HeardOf(n))
      BY <2>2, <3>1 DEF OrderInv, ItemsRight
    <3> QED
      BY <1>1, <2>3, <3>2, SameCount DEF OrderInv, ItemsRight
  <2>5. ASSUME NEW n \in Host, NEW s \in Host
        PROVE  Chain(got[n], In(n)', Out(s), Held(s), down[s])
    <3>1. Chain(got[n], In(n), Out(s), Held(s), down[s])
      BY DEF OrderInv, LinesRight
    <3>2. In(n) \in Seq(Packet) /\ got[n] \in Seq(Packet)
      BY <1>1, Typed
    <3> QED
      BY <2>2, <3>1, <3>2, ChainDelivers
  <2>6. LinesRight'
    BY <1>1, <2>3, <2>5 DEF LinesRight
  <2> QED
    BY <2>4, <2>6 DEF OrderInv
<1> QED
  BY <1>2, <1>3 DEF Lose

LEMMA DamagePacketOrder ==
  ASSUME OrderInv, NetInv', NEW h \in Host, DamagePacket(h)
  PROVE  OrderInv'
<1>1. /\ UNCHANGED <<build, waiting, got, down, fromIp>> /\ NetInv /\ UNCHANGED count.sent
      /\ toIp[h] # <<>>
  BY DEF DamagePacket, OrderInv, question, muxQueues, NetInv, Types, Counts
<1>2. PICK src \in IP : toIp' = [toIp EXCEPT ![h][1] = Damaged(@, src)]
  BY DEF DamagePacket
<1> DEFINE s == toIp[h]
           q == [s[1].packet EXCEPT !.defect = "checksum", !.src = src]
           f == [s[1] EXCEPT !.packet = q]
<1>3. /\ s \in Seq(IpFrame) /\ s[1] \in IpFrame /\ s[1].packet \in Packet
      /\ toIp \in [Host -> Seq(RightFrame(build))] /\ s # <<>>
  <2>1. s \in Seq(IpFrame) /\ toIp \in [Host -> Seq(RightFrame(build))]
    BY <1>1, Typed DEF NetInv, IpRight
  <2>2. s[1] \in IpFrame
    BY <1>1, <2>1
  <2> QED
    BY <1>1, <2>1, <2>2 DEF IpFrame
<1>4. q \in Packet /\ ~IsData(q) /\ f.packet = q
  BY <1>3 DEF Packet, IsData, Defect, IpFrame
<1>5. toIp'[h] = [s EXCEPT ![1] = f] /\ \A n \in Host \ {h} : toIp'[n] = toIp[n]
  <2>1. f = Damaged(s[1], src)
    BY DEF Damaged
  <2> HIDE DEF f
  <2> QED
    BY <1>2, <1>3, <2>1
<1>6. In(h)' = [In(h) EXCEPT ![1] = q] /\ In(h) # <<>>
  <2> HIDE DEF q, f, s
  <2>1. DOMAIN s = 1..Len(s) /\ Len(s) \in Nat
    BY <1>3
  <2>2. DOMAIN [s EXCEPT ![1] = f] = 1..Len(s)
        /\ \A i \in 1..Len(s) : [s EXCEPT ![1] = f][i] = IF i = 1 THEN f ELSE s[i]
    BY <2>1
  <2>3. Packets([s EXCEPT ![1] = f]) = [i \in 1..Len(s) |-> IF i = 1 THEN q ELSE s[i].packet]
    BY <1>4, <2>2 DEF Packets
  <2>4. [Packets(s) EXCEPT ![1] = q] = [i \in 1..Len(s) |-> IF i = 1 THEN q ELSE s[i].packet]
    BY <2>1 DEF Packets
  <2>5. Packets(s) # <<>>
    BY <1>3, PacketsFacts
  <2> QED
    BY <1>5, <2>3, <2>4, <2>5 DEF In, s
<1>7. \A n \in Host \ {h} : In(n)' = In(n)
  BY <1>5 DEF In
<1> HIDE DEF q, f, s
<1>8. \A n : Held(n)' = Held(n) /\ Out(n)' = Out(n)
  BY <1>1 DEF Held, Out
<1>9. ItemsRight'
  <2>1. q \in HeardOf(h)
    BY <1>4 DEF HeardOf
  <2>2. In(h) \in Seq(HeardOf(h))
    BY DEF OrderInv, ItemsRight
  <2>3. [In(h) EXCEPT ![1] = q] \in Seq(HeardOf(h))
    <3>1. \A D : \A r \in Seq(D) : \A x \in D : r # <<>> => [r EXCEPT ![1] = x] \in Seq(D)
      OBVIOUS
    <3> QED
      BY <1>6, <2>1, <2>2, <3>1
  <2>4. \A n \in Host : In(n)' \in Seq(HeardOf(n))
    BY <1>6, <1>7, <2>3 DEF OrderInv, ItemsRight
  <2> QED
    BY <1>1, <1>8, <2>4, SameCount DEF OrderInv, ItemsRight
<1>10. ASSUME NEW n \in Host, NEW r \in Host
       PROVE  Chain(got[n], In(n)', Out(r), Held(r), down[r])
  <2>1. Chain(got[n], In(n), Out(r), Held(r), down[r])
    BY DEF OrderInv, LinesRight
  <2>2. In(n) \in Seq(Packet)
    BY <1>1, Typed
  <2> QED
    BY <1>4, <1>6, <1>7, <2>1, <2>2, ChainSpoils
<1>11. LinesRight'
  BY <1>1, <1>8, <1>10 DEF LinesRight
<1> QED
  BY <1>9, <1>11 DEF OrderInv

-----------------------------------------------------------------------------
(* ip_module keeps the order.                                              *)
LEMMA SendGoesOnOrder ==
  ASSUME OrderInv, NetInv', NEW h \in Host, SendGoesOn(h)
  PROVE  OrderInv'
<1>1. /\ UNCHANGED <<build, toIp, got, down, count>> /\ NetInv /\ waiting[h] # Nothing
      /\ waiting' = [waiting EXCEPT ![h] = Nothing]
  BY DEF SendGoesOn, OrderInv, muxQueues
<1> DEFINE p  == waiting[h].packet
           hw == Head(answers[h]).hw
<1>2. /\ Held(h) = <<p>> /\ Held(h)' = <<>> /\ \A s \in Host \ {h} : Held(s)' = Held(s)
  BY <1>1 DEF Held, NetInv, QuestionRight
<1>3. p \in Packet /\ p \in SentOf(h)
  <2>1. Held(h) \in Seq(SentOf(h))
    BY DEF OrderInv, ItemsRight
  <2>2. Held(h)[1] = p /\ 1 \in DOMAIN Held(h)
    BY <1>2
  <2>3. p \in SentOf(h)
    BY <2>1, <2>2
  <2> QED
    BY <2>3 DEF SentOf
<1>4. /\ Out(h)' = Append(Out(h), p) \/ Out(h)' = Out(h)
      /\ \A s \in Host \ {h} : Out(s)' = Out(s)
  <2>1. UNCHANGED fromIp \/ fromIp' = Put(fromIp, h, Frame(h, p, hw))
    BY DEF SendGoesOn
  <2>2. fromIp \in [Host -> Seq(RightFrame(build))] /\ fromIp[h] \in Seq(IpFrame)
    BY <1>1, Typed DEF NetInv, IpRight
  <2> HIDE DEF p, hw
  <2>3. CASE UNCHANGED fromIp
    BY <2>3 DEF Out
  <2>4. CASE fromIp' = Put(fromIp, h, Frame(h, p, hw))
    <3> DEFINE f == Frame(h, p, hw)
    <3>1. f.packet = p
      BY DEF Frame
    <3> HIDE DEF f
    <3>2. fromIp'[h] = Append(fromIp[h], f) /\ \A s \in Host \ {h} : fromIp'[s] = fromIp[s]
      BY <2>2, <2>4 DEF Put, f
    <3>3. fromIp'[h] \in Seq(IpFrame)
      <4>1. RightFrame(build') \subseteq IpFrame
        BY DEF RightFrame
      <4> QED
        BY <4>1, SeqMonotone DEF NetInv, IpRight
    <3>4. f \in IpFrame
      <4>1. Len(fromIp[h]) + 1 \in DOMAIN fromIp'[h] /\ fromIp'[h][Len(fromIp[h]) + 1] = f
        BY <2>2, <3>2
      <4> QED
        BY <3>3, <4>1
    <3> QED
      BY <2>2, <3>1, <3>2, <3>4, PacketsFacts DEF Out
  <2> QED
    BY <2>1, <2>3, <2>4
<1> HIDE DEF p, hw
<1>5. \A n : In(n)' = In(n)
  BY <1>1 DEF In
<1>6. ItemsRight'
  <2>1. \A n \in Host : Held(n)' \in Seq(SentOf(n))
    <3>1. \A S : <<>> \in Seq(S)
      OBVIOUS
    <3> QED
      BY <1>2, <3>1 DEF OrderInv, ItemsRight
  <2>2. Append(Out(h), p) \in Seq(SentOf(h))
    <3>1. Out(h) \in Seq(SentOf(h))
      BY DEF OrderInv, ItemsRight
    <3> QED
      BY <1>3, <3>1
  <2>3. \A n \in Host : Out(n)' \in Seq(SentOf(n))
    BY <1>4, <2>2 DEF OrderInv, ItemsRight
  <2> QED
    BY <1>1, <1>5, <2>1, <2>3, SameCount DEF OrderInv, ItemsRight
<1>7. ASSUME NEW n \in Host, NEW s \in Host
      PROVE  Chain(got[n], In(n), Out(s)', Held(s)', down[s])
  <2>1. Chain(got[n], In(n), Out(s), Held(s), down[s])
    BY DEF OrderInv, LinesRight
  <2>2. Out(s) \in Seq(Packet)
    BY <1>1, Typed
  <2>3. CASE s = h
    BY <1>2, <1>3, <1>4, <2>1, <2>2, <2>3, ChainGoesOn
  <2>4. CASE s # h
    BY <1>2, <1>4, <2>1, <2>4
  <2> QED
    BY <2>3, <2>4
<1>8. LinesRight'
  BY <1>1, <1>5, <1>7 DEF LinesRight
<1> QED
  BY <1>6, <1>8 DEF OrderInv

\* An error is no data.
LEMMA ErrorIsNoData ==
  ASSUME NEW h \in Host, NEW p \in Packet
  PROVE  /\ ~IsData(ICMPError(h, p)) /\ ICMPError(h, p) \in Packet
         /\ \A s : ICMPError(h, p) \in SentOf(s) /\ ICMPError(h, p) \in GivenTo(s)
BY ICMPErrorRight DEF IsData, SentOf, GivenTo

\* ip_mux gives ip_module at most an error.
LEMMA GivesError ==
  ASSUME OrderInv, NEW h \in Host, NEW e \in Packet, ~IsData(e), e \in GivenTo(h),
         down' = Put(down, h, e) \/ down' = down
  PROVE  /\ \A s \in Host : down'[s] \in Seq(GivenTo(s))
         /\ \A s \in Host : \A g, n, f, w :
              Chain(g, n, f, w, down[s]) => Chain(g, n, f, w, down'[s])
<1>1. down \in [Host -> Seq(Packet)] /\ \A s \in Host : down[s] \in Seq(GivenTo(s))
  BY DEF OrderInv, NetInv, Types, ItemsRight
<1>2. \A s \in Host : (s = h /\ down'[s] = Append(down[s], e)) \/ down'[s] = down[s]
  BY <1>1 DEF Put
<1>3. Append(down[h], e) \in Seq(GivenTo(h))
  BY <1>1
<1>4. ASSUME NEW g, NEW n, NEW f, NEW w, Chain(g, n, f, w, down[h])
      PROVE  Chain(g, n, f, w, Append(down[h], e))
  <2>1. \A t : Ahead(t, <<e>>)
    BY SingleOrder
  <2> QED
    BY <1>1, <1>4, <2>1, ChainGrows
<1> QED
  BY <1>1, <1>2, <1>3, <1>4

LEMMA IpReceivesOrder ==
  ASSUME OrderInv, NetInv', NEW h \in Host, IpReceives(h)
  PROVE  OrderInv'
<1>1. /\ UNCHANGED <<build, fromIp, count>> /\ NetInv /\ waiting[h] = Nothing
      /\ toIp[h] # <<>> /\ toIp' = Rest(toIp, h)
  BY DEF IpReceives, OrderInv
<1> DEFINE x == Head(toIp[h]).packet
           e == ICMPError(h, x)
<1>2. /\ toIp[h] \in Seq(IpFrame) /\ toIp \in [Host -> Seq(RightFrame(build))]
      /\ got \in [Host -> Seq(Packet)] /\ waiting \in [Host -> Wait \cup {Nothing}]
  BY <1>1, Typed DEF NetInv, IpRight, Types, QuestionRight
<1>3. /\ In(h) # <<>> /\ In(h)' = Tail(In(h)) /\ x = Head(In(h))
      /\ \A n \in Host \ {h} : In(n)' = In(n)
  <2>1. toIp'[h] = Tail(toIp[h]) /\ \A n \in Host \ {h} : toIp'[n] = toIp[n]
    BY <1>1, <1>2 DEF Rest
  <2> QED
    BY <1>1, <1>2, <2>1, PacketsFacts DEF In
<1>4. x \in HeardOf(h) /\ x \in Packet /\ In(h)' \in Seq(HeardOf(h))
  <2>1. In(h) \in Seq(HeardOf(h))
    BY DEF OrderInv, ItemsRight
  <2>2. Head(In(h)) \in HeardOf(h) /\ Tail(In(h)) \in Seq(HeardOf(h))
    BY <1>3, <2>1
  <2> QED
    BY <1>3, <2>2 DEF HeardOf
<1>5. /\ ~IsData(e) /\ e \in Packet /\ e \in SentOf(h) /\ e \in GivenTo(h)
  BY <1>4, ErrorIsNoData
<1>6. \/ UNCHANGED <<waiting, down, got>>
      \/ /\ \E checks : SendPacket(h, e, checks)
         /\ UNCHANGED <<down, got>>
      \/ /\ x.dest \in {h, Broadcast}
         /\ x.defect \notin Answered(build[h].ip) /\ x.defect \notin Dropped(build[h].ip)
         /\ IpMux(h, x) /\ UNCHANGED waiting
  BY DEF IpReceives, muxQueues
<1>7. \A n : Out(n)' = Out(n)
  BY <1>1 DEF Out
<1> HIDE DEF x, e
<1>8. \A n \in Host : In(n)' \in Seq(HeardOf(n))
  BY <1>3, <1>4 DEF OrderInv, ItemsRight
\* What is delivered.
<1>9. \/ got' = got
      \/ /\ x \in GotOf(h) /\ got'[h] = Append(got[h], x)
         /\ \A n \in Host \ {h} : got'[n] = got[n]
  <2>1. CASE got' = got
    BY <2>1
  <2>2. CASE /\ x.dest \in {h, Broadcast} /\ x.kind = "data" /\ got' = Put(got, h, x)
             /\ x.defect \notin Answered(build[h].ip) /\ x.defect \notin Dropped(build[h].ip)
    <3>1. build[h].ip \in {"plain", "diffusion", "routing"}
      BY <1>1 DEF NetInv, Types, Build
    <3>2. x.defect # "checksum"
      BY <2>2, <3>1 DEF Answered, Dropped, Defect
    <3>3. x \in GotOf(h)
      BY <1>4, <2>2, <3>2 DEF GotOf, HeardOf, IsData
    <3> QED
      BY <1>2, <2>2, <3>3 DEF Put
  <2> QED
    BY <1>6, <2>1, <2>2 DEF IpMux
<1>10. \A n \in Host : got'[n] \in Seq(GotOf(n))
  <2>1. got[h] \in Seq(GotOf(h))
    BY DEF OrderInv, ItemsRight
  <2>2. x \in GotOf(h) => Append(got[h], x) \in Seq(GotOf(h))
    BY <2>1
  <2> QED
    BY <1>9, <2>2 DEF OrderInv, ItemsRight
\* What is held.
<1>11. /\ Held(h)' = Held(h) \/ (Held(h) = <<>> /\ Held(h)' = <<e>>)
       /\ \A s \in Host \ {h} : Held(s)' = Held(s)
  <2>1. CASE UNCHANGED waiting
    BY <2>1 DEF Held
  <2>2. CASE \E checks : SendPacket(h, e, checks)
    <3>1. PICK checks : waiting' = [waiting EXCEPT ![h] = [packet |-> e, checks |-> checks]]
      BY <2>2 DEF SendPacket
    <3> DEFINE w == [packet |-> e, checks |-> checks]
    <3>2. w.packet = e
      OBVIOUS
    <3>3. w # Nothing
      <4>1. w = waiting'[h] /\ waiting'[h] \in Wait \cup {Nothing}
        BY <1>2, <3>1 DEF NetInv, QuestionRight
      <4>2. asks'[h] # <<>>
        <5>1. asks' = Put(asks, h, e.dest) /\ asks \in [Host -> Seq(IP)]
          BY <1>1, <2>2 DEF SendPacket, NetInv, QuestionRight
        <5>2. e.dest \in IP
          BY <1>5 DEF Packet
        <5> QED
          BY <5>1, <5>2 DEF Put
      <4> QED
        BY <4>1, <4>2 DEF NetInv, QuestionRight, AnswerIsForQuestion
    <3> HIDE DEF w
    <3>4. waiting'[h] = w /\ \A s \in Host \ {h} : waiting'[s] = waiting[s]
      BY <1>2, <3>1 DEF w
    <3> QED
      BY <1>1, <3>2, <3>3, <3>4 DEF Held
  <2> QED
    BY <1>6, <2>1, <2>2
<1>12. \A s \in Host : Held(s)' \in Seq(SentOf(s))
  <2>1. <<e>> \in Seq(SentOf(h))
    BY <1>5
  <2> QED
    BY <1>11, <2>1 DEF OrderInv, ItemsRight
<1>13. down' = Put(down, h, e) \/ down' = down
  BY <1>6 DEF IpMux, e
<1>14. ItemsRight'
  BY <1>1, <1>5, <1>7, <1>8, <1>10, <1>12, <1>13, SameCount, GivesError
     DEF OrderInv, ItemsRight
<1>15. ASSUME NEW n \in Host, NEW s \in Host
       PROVE  Chain(got'[n], In(n)', Out(s), Held(s)', down'[s])
  <2>1. Chain(got[n], In(n), Out(s), Held(s), down[s])
    BY DEF OrderInv, LinesRight
  <2>2. got[n] \in Seq(Packet) /\ In(n) \in Seq(Packet)
    BY <1>1, Typed
  <2>3. Chain(got'[n], In(n)', Out(s), Held(s), down[s])
    <3>1. CASE n = h
      <4>1. /\ Chain(Append(got[n], x), In(n)', Out(s), Held(s), down[s])
            /\ Chain(got[n], In(n)', Out(s), Held(s), down[s])
        BY <1>3, <2>1, <2>2, <3>1, ChainDelivers
      <4> QED
        BY <1>9, <3>1, <4>1
    <3>2. CASE n # h
      BY <1>3, <1>9, <2>1, <3>2
    <3> QED
      BY <3>1, <3>2
  <2>4. Chain(got'[n], In(n)', Out(s), Held(s)', down[s])
    BY <1>5, <1>11, <2>3, ChainHolds
  <2> QED
    BY <1>5, <1>13, <2>4, GivesError
<1>16. LinesRight'
  BY <1>7, <1>15 DEF LinesRight
<1> QED
  BY <1>14, <1>16 DEF OrderInv

LEMMA IpSendsOrder ==
  ASSUME OrderInv, NetInv', NEW h \in Host, IpSends(h)
  PROVE  OrderInv'
<1>1. /\ UNCHANGED <<build, toIp, fromIp, count>> /\ NetInv /\ waiting[h] = Nothing
      /\ down[h] # <<>> /\ down' = Rest(down, h)
  BY DEF IpSends, OrderInv, ipQueues
<1> DEFINE x == Head(down[h])
<1>2. /\ down \in [Host -> Seq(Packet)] /\ got \in [Host -> Seq(Packet)]
      /\ waiting \in [Host -> Wait \cup {Nothing}] /\ asks \in [Host -> Seq(IP)]
      /\ \A s \in Host : got[s] \in Seq(GotOf(s)) /\ down[s] \in Seq(GivenTo(s))
  BY <1>1 DEF NetInv, Types, QuestionRight, OrderInv, ItemsRight
<1>3. /\ down'[h] = Tail(down[h]) /\ \A s \in Host \ {h} : down'[s] = down[s]
      /\ x \in GivenTo(h) /\ Tail(down[h]) \in Seq(GivenTo(h))
  BY <1>1, <1>2 DEF Rest
<1>4. x \in Packet /\ (x.kind = "data" => IsData(x) /\ x.src = h /\ x.id <= count.sent)
  BY <1>3 DEF GivenTo, IsData
<1>5. \A n : In(n)' = In(n) /\ Out(n)' = Out(n)
  BY <1>1 DEF In, Out
<1>6. Held(h) = <<>>
  BY <1>1 DEF Held
<1>7. RouteOut(h, x)
  BY DEF IpSends
<1>8. \A s \in Host : down'[s] \in Seq(GivenTo(s))
  BY <1>2, <1>3
<1> HIDE DEF x
<1>9. CASE IsLocal(h, x) /\ TurnBack(h, x) /\ UNCHANGED waiting
  <2>1. x.dest = h /\ Routes(h)
    BY <1>9 DEF IsLocal, Routes
  <2>2. \/ got' = got
        \/ /\ x \in GotOf(h) /\ got'[h] = Append(got[h], x)
           /\ \A n \in Host \ {h} : got'[n] = got[n]
    <3>1. CASE x.kind = "data"
      <4>1. x \in GotOf(h)
        BY <1>4, <2>1, <3>1 DEF GotOf
      <4> QED
        BY <1>2, <1>9, <3>1, <4>1 DEF TurnBack, Put
    <3>2. CASE x.kind # "data"
      BY <1>9, <3>2 DEF TurnBack
    <3> QED
      BY <3>1, <3>2
  <2>3. \A n \in Host : got'[n] \in Seq(GotOf(n))
    <3>1. x \in GotOf(h) => Append(got[h], x) \in Seq(GotOf(h))
      BY <1>2
    <3> QED
      BY <1>2, <2>2, <3>1
  <2>4. \A n : Held(n)' = Held(n)
    BY <1>9 DEF Held
  <2>5. ItemsRight'
    BY <1>1, <1>5, <1>8, <2>3, <2>4, SameCount DEF OrderInv, ItemsRight
  <2>6. ASSUME NEW n \in Host, NEW s \in Host
        PROVE  Chain(got'[n], In(n), Out(s), Held(s), down'[s])
    <3>1. /\ Chain(got[n], In(n), Out(s), Held(s), down[s])
          /\ Chain(got[h], In(h), Out(h), Held(h), down[h])
      BY DEF OrderInv, LinesRight
    <3>2. got[n] \in Seq(Packet) /\ down[h] \in Seq(Packet)
      BY <1>1, Typed
    <3>3. Chain(got[n], In(n), Out(s), Held(s), down'[s])
      BY <1>1, <1>3, <1>6, <3>1, <3>2, ChainTakes
    <3>4. ASSUME n = h, x \in GotOf(h)
          PROVE  Chain(Append(got[h], x), In(h), Out(s), Held(s), down'[s])
      <4>1. Ahead(got[h], <<x>>)
        BY <1>1, <3>1, <3>2, TailOrder DEF Chain, x
      <4>2. IsData(x) /\ x.src = h
        BY <1>4, <3>4 DEF GotOf, IsData
      <4>3. Ahead(<<x>>, In(h))
        <5>1. \A j \in DOMAIN In(h) : In(h)[j] \in HeardOf(h)
          BY DEF OrderInv, ItemsRight
        <5>2. \A j \in DOMAIN In(h) : Before(x, In(h)[j])
          BY <2>1, <4>2, <5>1 DEF Before, HeardOf
        <5>3. DOMAIN <<x>> = {1} /\ <<x>>[1] = x
          OBVIOUS
        <5> QED
          BY <5>2, <5>3 DEF Ahead
      <4>4. Ahead(<<x>>, Out(s)) /\ Ahead(<<x>>, Held(s)) /\ Ahead(<<x>>, down'[s])
        <5>1. CASE s # h
          BY <1>2, <1>3, <4>2, <5>1, Foreign DEF OrderInv, ItemsRight
        <5>2. CASE s = h
          <6>1. \A j \in DOMAIN Out(h) : Out(h)[j] \in SentOf(h)
            BY DEF OrderInv, ItemsRight
          <6>2. \A j \in DOMAIN Out(h) : Before(x, Out(h)[j])
            BY <2>1, <6>1 DEF Before, SentOf
          <6>3. DOMAIN <<x>> = {1} /\ <<x>>[1] = x
            OBVIOUS
          <6>4. Ahead(<<x>>, Out(h))
            BY <6>2, <6>3 DEF Ahead
          <6>5. Ahead(<<x>>, Tail(down[h]))
            BY <1>1, <3>1, <3>2, TailOrder DEF Chain, x
          <6> QED
            BY <1>3, <1>6, <5>2, <6>4, <6>5, SingleOrder
        <5> QED
          BY <5>1, <5>2
      <4> QED
        BY <1>4, <3>2, <3>3, <3>4, <4>1, <4>3, <4>4, ChainTurns
    <3> QED
      BY <2>2, <3>3, <3>4
  <2>7. LinesRight'
    BY <1>5, <2>4, <2>6 DEF LinesRight
  <2> QED
    BY <2>5, <2>7 DEF OrderInv
<1>10. CASE ~IsLocal(h, x) /\ SendPacket(h, x, TRUE) /\ UNCHANGED got
  <2> DEFINE w == [packet |-> x, checks |-> TRUE]
  <2>1. waiting' = [waiting EXCEPT ![h] = w] /\ w.packet = x
    BY <1>10 DEF SendPacket
  <2>2. w # Nothing
    <3>1. w \in Wait
      BY <1>4 DEF Wait
    <3> QED
      BY <3>1, NothingAssumption
  <2> HIDE DEF w
  <2>3. Held(h)' = <<x>> /\ \A s \in Host \ {h} : Held(s)' = Held(s)
    <3>1. waiting'[h] = w /\ \A s \in Host \ {h} : waiting'[s] = waiting[s]
      BY <1>2, <2>1
    <3> QED
      BY <2>1, <2>2, <3>1 DEF Held
  <2>4. x \in SentOf(h)
    BY <1>4, <1>10 DEF SentOf, IsLocal, Routes, IsData
  <2>5. \A s \in Host : Held(s)' \in Seq(SentOf(s))
    <3>1. <<x>> \in Seq(SentOf(h))
      BY <2>4
    <3> QED
      BY <2>3, <3>1 DEF OrderInv, ItemsRight
  <2>6. ItemsRight'
    BY <1>1, <1>5, <1>8, <1>10, <2>5, SameCount DEF OrderInv, ItemsRight
  <2>7. ASSUME NEW n \in Host, NEW s \in Host
        PROVE  Chain(got[n], In(n), Out(s), Held(s)', down'[s])
    <3>1. Chain(got[n], In(n), Out(s), Held(s), down[s])
      BY DEF OrderInv, LinesRight
    <3>2. down[h] \in Seq(Packet)
      BY <1>1, Typed
    <3>3. CASE s = h
      BY <1>1, <1>3, <1>6, <2>3, <3>1, <3>2, <3>3, ChainTakes DEF x
    <3>4. CASE s # h
      BY <1>3, <2>3, <3>1, <3>4
    <3> QED
      BY <3>3, <3>4
  <2>8. LinesRight'
    BY <1>5, <1>10, <2>7 DEF LinesRight
  <2> QED
    BY <2>6, <2>8 DEF OrderInv
<1> QED
  BY <1>7, <1>9, <1>10 DEF RouteOut

-----------------------------------------------------------------------------
(* arp_module, icmp_module and the traffic keep the order.                 *)
LEMMA ArpOrder ==
  ASSUME OrderInv, NetInv', RouterReplies \/ \E h \in Host : arp_module(h)
  PROVE  OrderInv'
<1>1. UNCHANGED <<build, got, toIp, fromIp, waiting, down, count>> /\ NetInv
  BY DEF arp_module, ArpAnswers, ArpHears, RouterReplies, ipQueues, question, muxQueues, OrderInv
<1> QED
  BY <1>1, SameCount, OrderKept

LEMMA IcmpModuleOrder ==
  ASSUME OrderInv, NetInv', NEW h \in Host, IcmpModule(h)
  PROVE  OrderInv'
<1>1. UNCHANGED <<build, got, toIp, fromIp, waiting, count>> /\ NetInv /\ toIcmp[h] # <<>>
  BY DEF IcmpModule, ipQueues, question, OrderInv
<1> DEFINE x == respond(Head(toIcmp[h]))
<1>2. Head(toIcmp[h]) \in Packet
  BY <1>1 DEF NetInv, Types
<1>3. x \in Packet /\ x.kind # "data"
  BY <1>2 DEF respond, Packet, Kind
<1>4. down' = Put(down, h, x) \/ down' = down
  BY DEF IcmpModule
<1> HIDE DEF x
<1>5. ~IsData(x) /\ x \in GivenTo(h)
  BY <1>3 DEF IsData, GivenTo
<1>6. \A n : In(n)' = In(n) /\ Out(n)' = Out(n) /\ Held(n)' = Held(n)
  BY <1>1 DEF In, Out, Held
<1>7. ItemsRight'
  BY <1>1, <1>3, <1>4, <1>5, <1>6, GivesError, SameCount DEF OrderInv, ItemsRight
<1>8. LinesRight'
  BY <1>1, <1>3, <1>4, <1>5, <1>6, GivesError DEF OrderInv, LinesRight
<1> QED
  BY <1>7, <1>8 DEF OrderInv

\* A packet that has just been numbered.
LEMMA Numbered ==
  ASSUME NetInv, CountSent, NEW src \in IP, NEW dest \in IP, NEW kind \in Kind,
         NEW defect \in Defect
  PROVE  LET x == NewPacket(src, dest, kind, defect) IN
           /\ x \in Packet /\ x.id = count.sent + 1 /\ x.id = count.sent'
           /\ x.src = src /\ x.kind = kind /\ x.defect = defect
           /\ count.sent' \in Nat /\ count.sent <= count.sent'
<1>1. count \in Counts /\ count' = [count EXCEPT !.sent = @ + 1]
  BY DEF NetInv, Types, CountSent
<1>2. count.sent \in Nat /\ count'.sent = count.sent + 1
  BY <1>1 DEF Counts
<1> QED
  BY <1>2, NewPacketRight DEF NewPacket

LEMMA TransportSendsOrder ==
  ASSUME OrderInv, NetInv', NEW h \in Host, TransportSends(h)
  PROVE  OrderInv'
<1>1. UNCHANGED <<build, got, toIp, fromIp, waiting>> /\ NetInv /\ CountSent
  BY DEF TransportSends, ipQueues, question, OrderInv
<1>2. PICK dest \in IP : down' = Put(down, h, NewPacket(h, dest, "data", "none"))
  BY DEF TransportSends
<1> DEFINE x == NewPacket(h, dest, "data", "none")
<1>3. /\ x \in Packet /\ x.id = count.sent + 1 /\ x.id = count.sent'
      /\ x.src = h /\ x.defect = "none"
      /\ count.sent' \in Nat /\ count.sent <= count.sent'
  <2>1. h \in IP /\ "data" \in Kind /\ "none" \in Defect
    BY DEF IP, Kind, Defect
  <2> QED
    BY <1>1, <2>1, Numbered
<1> HIDE DEF x
<1>4. x \in GivenTo(h)'
  BY <1>3 DEF GivenTo
<1>5. \A n : In(n)' = In(n) /\ Out(n)' = Out(n) /\ Held(n)' = Held(n)
  BY <1>1 DEF In, Out, Held
<1>6. down \in [Host -> Seq(Packet)]
  BY <1>1 DEF NetInv, Types
<1>7. \A s \in Host : (s = h /\ down'[s] = Append(down[s], x)) \/ down'[s] = down[s]
  BY <1>2, <1>6 DEF Put, x
<1>8. ItemsRight'
  <2>1. \A s \in Host : /\ got[s] \in Seq(GotOf(s)') /\ In(s) \in Seq(HeardOf(s)')
                        /\ Out(s) \in Seq(SentOf(s)') /\ Held(s) \in Seq(SentOf(s)')
                        /\ down[s] \in Seq(GivenTo(s)')
    BY <1>1, <1>3, Later
  <2>2. Append(down[h], x) \in Seq(GivenTo(h)')
    BY <1>4, <2>1
  <2>3. \A s \in Host : down'[s] \in Seq(GivenTo(s)')
    BY <1>7, <2>1, <2>2
  <2> QED
    BY <1>1, <1>5, <2>1, <2>3 DEF ItemsRight
<1>9. ASSUME NEW n \in Host, NEW s \in Host
      PROVE  Chain(got[n], In(n), Out(s), Held(s), down'[s])
  <2>1. Chain(got[n], In(n), Out(s), Held(s), down[s])
    BY DEF OrderInv, LinesRight
  <2>2. \A t \in {got[n], In(n), Out(s), Held(s), down[s]} : Ahead(t, <<x>>)
    BY <1>3, Newest
  <2>3. Chain(got[n], In(n), Out(s), Held(s), Append(down[s], x))
    BY <1>3, <1>6, <2>1, <2>2, ChainGrows
  <2> QED
    BY <1>7, <2>1, <2>3
<1>10. LinesRight'
  BY <1>1, <1>5, <1>9 DEF LinesRight
<1> QED
  BY <1>8, <1>10 DEF OrderInv

LEMMA RouterOrder ==
  ASSUME OrderInv, NetInv', RouterBroadcasts \/ \E h \in Host : RouterSends(h)
  PROVE  OrderInv'
<1>1. UNCHANGED <<build, got, fromIp, waiting, down>> /\ NetInv /\ CountSent
  BY DEF RouterBroadcasts, RouterSends, question, muxQueues, OrderInv
<1>2. PICK dest \in Host \cup {Broadcast}, kind \in Kind, defect \in Defect :
        OnTheWire(Frame(Router, NewPacket(Router, dest, kind, defect), dest))
  BY DEF RouterBroadcasts, RouterSends, Kind, Defect
<1> DEFINE x == NewPacket(Router, dest, kind, defect)
           f == Frame(Router, x, dest)
<1>3. /\ x \in Packet /\ x.id = count.sent + 1 /\ x.id = count.sent' /\ x.src = Router
      /\ count.sent' \in Nat /\ count.sent <= count.sent'
  <2>1. Router \in IP /\ dest \in IP
    BY DEF IP
  <2> QED
    BY <1>1, <2>1, Numbered
<1> HIDE DEF x
<1>4. f \in IpFrame /\ f.packet = x
  BY <1>3 DEF Frame, IpFrame, Station
<1> HIDE DEF f
<1>5. \A n \in Host : In(n)' = Append(In(n), x) \/ In(n)' = In(n)
  BY <1>1, <1>2, <1>4, Wired DEF f, x
<1>6. \A n \in Host : x \in HeardOf(n)' /\ x.src # n
  BY <1>3, NameAssumption DEF HeardOf
<1>7. \A n : Out(n)' = Out(n) /\ Held(n)' = Held(n)
  BY <1>1 DEF Out, Held
<1>8. ItemsRight'
  <2>1. \A s \in Host : /\ got[s] \in Seq(GotOf(s)') /\ In(s) \in Seq(HeardOf(s)')
                        /\ Out(s) \in Seq(SentOf(s)') /\ Held(s) \in Seq(SentOf(s)')
                        /\ down[s] \in Seq(GivenTo(s)')
    BY <1>1, <1>3, Later
  <2>2. ASSUME NEW n \in Host PROVE In(n)' \in Seq(HeardOf(n)')
    <3>1. Append(In(n), x) \in Seq(HeardOf(n)')
      BY <1>6, <2>1
    <3> QED
      BY <1>5, <2>1, <3>1
  <2> QED
    BY <1>1, <1>7, <2>1, <2>2 DEF ItemsRight
<1>9. ASSUME NEW n \in Host, NEW s \in Host
      PROVE  Chain(got[n], In(n)', Out(s), Held(s), down[s])
  <2>1. Chain(got[n], In(n), Out(s), Held(s), down[s])
    BY DEF OrderInv, LinesRight
  <2>2. Ahead(got[n], <<x>>) /\ Ahead(In(n), <<x>>)
    BY <1>3, Newest
  <2>3. Ahead(<<x>>, Out(s)) /\ Ahead(<<x>>, Held(s)) /\ Ahead(<<x>>, down[s])
    BY <1>6, Foreign DEF OrderInv, ItemsRight
  <2>4. In(n) \in Seq(Packet)
    BY <1>1, Typed
  <2>5. Chain(got[n], Append(In(n), x), Out(s), Held(s), down[s])
    BY <1>3, <2>1, <2>2, <2>3, <2>4, ChainHears
  <2> QED
    BY <1>5, <2>1, <2>5
<1>10. LinesRight'
  BY <1>1, <1>7, <1>9 DEF LinesRight
<1> QED
  BY <1>8, <1>10 DEF OrderInv

-----------------------------------------------------------------------------
LEMMA OrderInvInit == Init => OrderInv
<1> SUFFICES ASSUME Init PROVE OrderInv
  OBVIOUS
<1>1. \A S : <<>> \in Seq(S)
  OBVIOUS
<1>2. Packets(<<>>) = <<>>
  BY DEF Packets
<1>3. \A h \in Host : got[h] = <<>> /\ In(h) = <<>> /\ Out(h) = <<>> /\ Held(h) = <<>>
                      /\ down[h] = <<>>
  BY <1>2 DEF Init, Empty, In, Out, Held
<1>4. ItemsRight
  BY <1>1, <1>3 DEF ItemsRight
<1>5. Chain(<<>>, <<>>, <<>>, <<>>, <<>>)
  BY SingleOrder DEF Chain
<1> QED
  BY <1>3, <1>4, <1>5, NetInvInit DEF LinesRight, OrderInv

LEMMA OrderInvStep == OrderInv /\ [Next]_vars => OrderInv'
<1> SUFFICES ASSUME OrderInv, [Next]_vars PROVE OrderInv'
  OBVIOUS
<1>1. NetInv /\ NetInv'
  BY NetInvStep DEF OrderInv
<1>2. CASE UNCHANGED vars
  <2>1. UNCHANGED <<build, got, toIp, fromIp, waiting, down, count>>
    BY <1>2 DEF vars, ipQueues, question, muxQueues
  <2> QED
    BY <1>1, <2>1, SameCount, OrderKept
<1>3. ASSUME NEW h \in Host, Module(h) PROVE OrderInv'
  BY <1>1, <1>3, EthernetMuxOrder, ArpOrder, SendGoesOnOrder, IpReceivesOrder, IpSendsOrder,
     IcmpModuleOrder DEF Module, ip_module
<1>4. ASSUME NEW h \in Host, TransportSends(h) \/ RouterSends(h) \/ DamagePacket(h)
      PROVE  OrderInv'
  BY <1>1, <1>4, TransportSendsOrder, RouterOrder, DamagePacketOrder
<1>5. ASSUME NEW n \in Station, Lose(n) PROVE OrderInv'
  BY <1>1, <1>5, LoseOrder
<1> QED
  BY <1>1, <1>2, <1>3, <1>4, <1>5, RouterOrder, ArpOrder DEF Next, Runs

(* Between any two transports data arrive at most once, at the host they   *)
(* are for and in the order sent, whatever programs the hosts run, though  *)
(* interfaces hear their own and others' frames, packets are lost or       *)
(* damaged, and ip_module puts errors of its own between (DeliveredInOrder)*)
THEOREM PacketsKeepOrder == Spec => []DeliveredInOrder
<1>1. Spec => []OrderInv
  BY OrderInvInit, OrderInvStep, PTL DEF Spec
<1> QED
  BY <1>1, OrderInvSuffices, PTL
=============================================================================
