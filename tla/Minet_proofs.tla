---------------------------- MODULE Minet_proofs -----------------------------
(***************************************************************************)
(* Proofs about Minet, for any ways to start the stack (Configs) and FIFOs *)
(* of any length: the types, that the orders in which the modules open     *)
(* their FIFOs fit together, and what it takes for all to be stuck.        *)
(***************************************************************************)
EXTENDS Minet, FiniteSetTheorems, SequenceTheorems, WellFoundedInduction, TLAPS

-----------------------------------------------------------------------------
(* The modules and their calls.                                            *)

\* Of the two ends of a FIFO the one nearer to the network accepts.
Level ==
  [device_driver |-> 0, ethernet_mux |-> 1, other_module |-> 2, arp_module |-> 2,
   ip_module |-> 3, ip_mux |-> 4, udp_module |-> 5, tcp_module |-> 5,
   icmp_module |-> 5, ipother_module |-> 5, sock_module |-> 6, app |-> 7,
   monitor |-> 8]

LEMMA ModuleNames ==
  Module = {"device_driver", "ethernet_mux", "other_module", "arp_module",
            "ip_module", "ip_mux", "udp_module", "tcp_module", "icmp_module",
            "ipother_module", "sock_module", "app", "monitor"}
BY DEF Module, Connections

LEMMA CallLists ==
  /\ Connections["device_driver"] = DeviceDriverOpens
  /\ Connections["ethernet_mux"] = EthernetMuxOpens
  /\ Connections["other_module"] = OtherOpens
  /\ Connections["arp_module"] = ArpOpens
  /\ Connections["ip_module"] = IpOpens
  /\ Connections["ip_mux"] = IpMuxOpens
  /\ Connections["udp_module"] = UdpOpens
  /\ Connections["tcp_module"] = TcpOpens
  /\ Connections["icmp_module"] = IcmpOpens
  /\ Connections["ipother_module"] = IpOtherOpens
  /\ Connections["sock_module"] = SockOpens
  /\ Connections["app"] = AppOpens
  /\ Connections["monitor"] = MonitorOpens
BY DEF Connections

Call == [call : {"MinetConnect", "MinetAccept"}, module : Names]

LEMMA CallTypes ==
  ASSUME NEW p \in Module
  PROVE  /\ Connections[p] \in Seq(Call)
         /\ \A i \in DOMAIN Connections[p] : Connections[p][i].module \in Names
<1>1. CASE p = "monitor"
  BY <1>1, CallLists, ModuleNames DEF MonitorOpens, Accept, Call, Names
<1>2. CASE p = "ethernet_mux"
  BY <1>2, CallLists, ModuleNames DEF EthernetMuxOpens, Accept, Connect, Call, Names
<1>3. CASE p = "ip_mux"
  BY <1>3, CallLists, ModuleNames DEF IpMuxOpens, Accept, Connect, Call, Names
<1>4. CASE p = "sock_module"
  BY <1>4, CallLists, ModuleNames DEF SockOpens, Accept, Connect, Call, Names
<1>5. CASE p = "device_driver"
  BY <1>5, CallLists, ModuleNames DEF DeviceDriverOpens, Accept, Call, Names
<1>6. CASE p = "other_module"
  BY <1>6, CallLists, ModuleNames DEF OtherOpens, Connect, Call, Names
<1>7. CASE p = "app"
  BY <1>7, CallLists, ModuleNames DEF AppOpens, Connect, Call, Names
<1>8. CASE p = "arp_module"
  BY <1>8, CallLists, ModuleNames DEF ArpOpens, Accept, Connect, Call, Names
<1>9. CASE p = "ip_module"
  BY <1>9, CallLists, ModuleNames DEF IpOpens, Accept, Connect, Call, Names
<1>10. CASE p = "udp_module"
  BY <1>10, CallLists, ModuleNames DEF UdpOpens, Accept, Connect, Call, Names
<1>11. CASE p = "tcp_module"
  BY <1>11, CallLists, ModuleNames DEF TcpOpens, Accept, Connect, Call, Names
<1>12. CASE p = "icmp_module"
  BY <1>12, CallLists, ModuleNames DEF IcmpOpens, Accept, Connect, Call, Names
<1>13. CASE p = "ipother_module"
  BY <1>13, CallLists, ModuleNames DEF IpOtherOpens, Accept, Connect, Call, Names
<1> QED
  BY <1>1, <1>2, <1>3, <1>4, <1>5, <1>6, <1>7, <1>8, <1>9, <1>10, <1>11, <1>12, <1>13, ModuleNames

\* Nobody calls the monitor, itself, or a module of its own level, and every call
\* fits the levels; a module calls the others in an order that all agree on.
LinkRank ==
  [device_driver |-> [ethernet_mux |-> 1],
   ethernet_mux |-> [device_driver |-> 1, arp_module |-> 2, ip_module |-> 3,
                     other_module |-> 4],
   other_module |-> [ethernet_mux |-> 4],
   arp_module |-> [ethernet_mux |-> 2, ip_module |-> 5],
   ip_module |-> [ethernet_mux |-> 3, arp_module |-> 5, ip_mux |-> 6],
   ip_mux |-> [ip_module |-> 6, udp_module |-> 7, tcp_module |-> 8,
               icmp_module |-> 9, ipother_module |-> 10],
   udp_module |-> [ip_mux |-> 7, sock_module |-> 12],
   tcp_module |-> [ip_mux |-> 8, sock_module |-> 11],
   icmp_module |-> [ip_mux |-> 9, sock_module |-> 13],
   ipother_module |-> [ip_mux |-> 10, sock_module |-> 14],
   sock_module |-> [tcp_module |-> 11, udp_module |-> 12, icmp_module |-> 13,
                    ipother_module |-> 14, app |-> 15],
   app |-> [sock_module |-> 15]]

CallRight(p, i) ==
  LET x == Connections[p][i]  q == x.module IN
    /\ q \in Module \ {"monitor"}
    /\ IF x.call = "MinetConnect" THEN Level[q] < Level[p] ELSE Level[p] < Level[q]
    /\ LinkRank[p][q] \in 1..15 /\ LinkRank[q][p] = LinkRank[p][q]

LEMMA CallsRight ==
  ASSUME NEW p \in Module \ {"monitor"}
  PROVE  /\ \A i \in DOMAIN Connections[p] : CallRight(p, i)
         /\ \A i, j \in DOMAIN Connections[p] : i < j =>
              LinkRank[p][Connections[p][i].module] < LinkRank[p][Connections[p][j].module]
<1>1. CASE p = "ethernet_mux"
  BY <1>1, CallLists, ModuleNames
     DEF EthernetMuxOpens, Accept, Connect, CallRight, Level, LinkRank
<1>2. CASE p = "ip_mux"
  BY <1>2, CallLists, ModuleNames DEF IpMuxOpens, Accept, Connect, CallRight, Level, LinkRank
<1>3. CASE p = "sock_module"
  BY <1>3, CallLists, ModuleNames DEF SockOpens, Accept, Connect, CallRight, Level, LinkRank
<1>4. CASE p \in {"device_driver", "other_module", "app"}
  BY <1>4, CallLists, ModuleNames
     DEF DeviceDriverOpens, OtherOpens, AppOpens, Accept, Connect, CallRight, Level, LinkRank
<1>5. CASE p \in {"arp_module", "ip_module"}
  BY <1>5, CallLists, ModuleNames
     DEF ArpOpens, IpOpens, Accept, Connect, CallRight, Level, LinkRank
<1>6. CASE p \in {"udp_module", "tcp_module", "icmp_module", "ipother_module"}
  BY <1>6, CallLists, ModuleNames
     DEF UdpOpens, TcpOpens, IcmpOpens, IpOtherOpens, Accept, Connect, CallRight, Level, LinkRank
<1> QED
  BY <1>1, <1>2, <1>3, <1>4, <1>5, <1>6, ModuleNames

-----------------------------------------------------------------------------
(* The places in OpenOrder.                                                *)
LEMMA Halves ==
  /\ \A i \in Nat : /\ (2 * i) \div 2 = i /\ (2 * i) % 2 = 0
                    /\ (2 * i + 1) \div 2 = i /\ (2 * i + 1) % 2 = 1
  /\ \A k \in Nat : k = 2 * (k \div 2) \/ k = 2 * (k \div 2) + 1
  /\ \A k \in Nat : k \div 2 \in Nat /\ 2 * (k \div 2) <= k /\ k <= 2 * (k \div 2) + 1
OBVIOUS

\* The FIFO that both ends open first, and the other one.
Upward(p, q)   == IF Level[q] < Level[p] THEN <<q, p>> ELSE <<p, q>>
Downward(p, q) == IF Level[q] < Level[p] THEN <<p, q>> ELSE <<q, p>>

LEMMA PlaceFacts ==
  ASSUME NEW p \in Module \ {"monitor"}
  PROVE  /\ Len(Connections[p]) \in Nat /\ DOMAIN Connections[p] = 1..Len(Connections[p])
         /\ DOMAIN OpenOrder[p] = 1..(2 * Len(Connections[p]) + 1)
         /\ OpenOrder[p][1] = <<p, "monitor">>
         /\ \A i \in DOMAIN Connections[p] :
              /\ OpenOrder[p][2 * i] = Upward(p, Connections[p][i].module)
              /\ OpenOrder[p][2 * i + 1] = Downward(p, Connections[p][i].module)
<1> DEFINE n == Len(Connections[p])
<1>1. n \in Nat /\ DOMAIN Connections[p] = 1..n
  BY CallTypes
<1>2. OpenOrder[p] = [k \in 1..(2 * n + 1) |->
                        IF k = 1 THEN MinetInit(p)
                        ELSE EndsOf(p, Connections[p][k \div 2])[1 + (k % 2)]]
  BY DEF OpenOrder
<1>3. 1 \in 1..(2 * n + 1) /\ OpenOrder[p][1] = <<p, "monitor">>
  BY <1>1, <1>2 DEF MinetInit
<1>4. ASSUME NEW i \in DOMAIN Connections[p]
      PROVE  /\ OpenOrder[p][2 * i] = Upward(p, Connections[p][i].module)
             /\ OpenOrder[p][2 * i + 1] = Downward(p, Connections[p][i].module)
  <2> DEFINE x == Connections[p][i]
  <2>1. /\ i \in Nat /\ 2 * i \in 1..(2 * n + 1) /\ 2 * i + 1 \in 1..(2 * n + 1)
        /\ 2 * i # 1 /\ 2 * i + 1 # 1
    BY <1>1
  <2>2. /\ (2 * i) \div 2 = i /\ (2 * i) % 2 = 0
        /\ (2 * i + 1) \div 2 = i /\ (2 * i + 1) % 2 = 1
    BY <2>1, Halves
  <2>3. OpenOrder[p][2 * i] = EndsOf(p, x)[1] /\ OpenOrder[p][2 * i + 1] = EndsOf(p, x)[2]
    BY <1>2, <2>1, <2>2
  <2>4. x.call = "MinetConnect" <=> Level[x.module] < Level[p]
    <3>1. /\ x.module \in Module /\ \A q \in Module : Level[q] \in Nat
          /\ IF x.call = "MinetConnect" THEN Level[x.module] < Level[p]
             ELSE Level[p] < Level[x.module]
      BY CallsRight, ModuleNames DEF CallRight, Level
    <3> QED
      BY <3>1
  <2> HIDE DEF x
  <2>5. /\ EndsOf(p, x)[1] = Upward(p, x.module)
        /\ EndsOf(p, x)[2] = Downward(p, x.module)
    BY <2>4 DEF EndsOf, MinetConnect, MinetAccept, Upward, Downward
  <2> QED
    BY <2>3, <2>5 DEF x
<1> QED
  BY <1>1, <1>2, <1>3, <1>4

LEMMA MonitorPlaces ==
  /\ DOMAIN OpenOrder["monitor"] = 1..14 /\ DOMAIN Connections["monitor"] = 1..14
  /\ \A k \in 1..14 : OpenOrder["monitor"][k] = <<MonitorOpens[k].module, "monitor">>
<1>1. "monitor" \in Module
  BY ModuleNames
<1> QED
  BY <1>1, CallLists DEF OpenOrder, MonitorOpens

\* A number for every FIFO, such that everybody opens FIFOs with growing numbers.
MonitorRank ==
  [reader |-> 1, writer |-> 2, device_driver |-> 3, ethernet_mux |-> 4,
   ip_module |-> 5, arp_module |-> 6, other_module |-> 7, ip_mux |-> 8,
   ipother_module |-> 9, icmp_module |-> 10, udp_module |-> 11,
   tcp_module |-> 12, sock_module |-> 13, app |-> 14]

Rank(f) ==
  IF f[2] = "monitor" THEN MonitorRank[f[1]]
  ELSE 20 + 2 * LinkRank[f[1]][f[2]] + (IF Level[f[1]] < Level[f[2]] THEN 0 ELSE 1)

LEMMA RankGrows ==
  ASSUME NEW p \in Module
  PROVE  /\ DOMAIN OpenOrder[p] \subseteq Nat
         /\ \A k \in DOMAIN OpenOrder[p] : Rank(OpenOrder[p][k]) \in Nat
         /\ \A j, k \in DOMAIN OpenOrder[p] :
              j < k => Rank(OpenOrder[p][j]) < Rank(OpenOrder[p][k])
<1>1. CASE p = "monitor"
  <2>1. \A k \in 1..14 : Rank(OpenOrder[p][k]) = k
    BY <1>1, MonitorPlaces DEF MonitorOpens, Accept, Rank, MonitorRank
  <2> QED
    BY <1>1, <2>1, MonitorPlaces
<1>2. CASE p # "monitor"
  <2> DEFINE n == Len(Connections[p])
             R(i) == LinkRank[p][Connections[p][i].module]
  <2>1. /\ n \in Nat /\ DOMAIN Connections[p] = 1..n
        /\ DOMAIN OpenOrder[p] = 1..(2 * n + 1)
    BY <1>2, PlaceFacts
  <2>2. Rank(OpenOrder[p][1]) \in 1..14
    BY <1>2, PlaceFacts, ModuleNames DEF Rank, MonitorRank
  <2>3. \A i \in 1..n : /\ R(i) \in 1..15
                        /\ Rank(OpenOrder[p][2 * i]) = 20 + 2 * R(i)
                        /\ Rank(OpenOrder[p][2 * i + 1]) = 21 + 2 * R(i)
    <3> TAKE i \in 1..n
    <3> DEFINE q == Connections[p][i].module
    <3>1. /\ q \in Module /\ q # "monitor" /\ \A m \in Module : Level[m] \in Nat
          /\ Level[q] # Level[p]
          /\ LinkRank[p][q] \in 1..15 /\ LinkRank[q][p] = LinkRank[p][q]
      BY <1>2, <2>1, CallsRight, ModuleNames DEF CallRight, Level
    <3>2. /\ OpenOrder[p][2 * i] = Upward(p, q)
          /\ OpenOrder[p][2 * i + 1] = Downward(p, q)
      BY <1>2, <2>1, PlaceFacts
    <3> HIDE DEF q
    <3>3. /\ Rank(Upward(p, q)) = 20 + 2 * LinkRank[p][q]
          /\ Rank(Downward(p, q)) = 21 + 2 * LinkRank[p][q]
      <4>1. /\ Rank(<<p, q>>) = 20 + 2 * LinkRank[p][q]
                                 + (IF Level[p] < Level[q] THEN 0 ELSE 1)
            /\ Rank(<<q, p>>) = 20 + 2 * LinkRank[p][q]
                                 + (IF Level[q] < Level[p] THEN 0 ELSE 1)
        BY <1>2, <3>1 DEF Rank
      <4>2. PICK r \in 1..15, a \in Nat, b \in Nat :
              r = LinkRank[p][q] /\ a = Level[p] /\ b = Level[q] /\ a # b
        BY <3>1
      <4>3. CASE b < a
        BY <4>1, <4>2, <4>3 DEF Upward, Downward
      <4>4. CASE a < b
        BY <4>1, <4>2, <4>4 DEF Upward, Downward
      <4> QED
        BY <4>2, <4>3, <4>4
    <3> QED
      BY <3>1, <3>2, <3>3 DEF q
  <2>4. \A i, j \in 1..n : i < j => R(i) < R(j)
    BY <1>2, <2>1, CallsRight
  <2> HIDE DEF n, R
  <2>5. \A k \in 1..(2 * n + 1) :
          \/ k = 1
          \/ \E i \in 1..n : k = 2 * i \/ k = 2 * i + 1
    <3> TAKE k \in 1..(2 * n + 1)
    <3>1. k \in Nat /\ k >= 1 /\ k <= 2 * n + 1
      BY <2>1
    <3>2. k \div 2 \in Nat /\ (k = 2 * (k \div 2) \/ k = 2 * (k \div 2) + 1)
      BY <3>1, Halves
    <3>3. k # 1 => k \div 2 \in 1..n
      BY <2>1, <3>1, <3>2
    <3> QED
      BY <3>2, <3>3
  <2>6. \A k \in 1..(2 * n + 1) : Rank(OpenOrder[p][k]) \in Nat
    BY <2>2, <2>3, <2>5
  <2>7. ASSUME NEW j \in 1..(2 * n + 1), NEW k \in 1..(2 * n + 1), j < k
        PROVE  Rank(OpenOrder[p][j]) < Rank(OpenOrder[p][k])
    <3>1. PICK b \in 1..n : k = 2 * b \/ k = 2 * b + 1
      <4>1. j \in Nat /\ k \in Nat /\ j >= 1
        BY <2>1
      <4>2. k # 1
        BY <2>7, <4>1
      <4> QED
        BY <2>5, <4>2
    <3>2. CASE j = 1
      BY <2>2, <2>3, <3>1, <3>2
    <3>3. CASE j # 1
      <4>1. PICK a \in 1..n : j = 2 * a \/ j = 2 * a + 1
        BY <2>5, <3>3
      <4>2. a < b \/ (a = b /\ j = 2 * a /\ k = 2 * b + 1)
        BY <2>1, <2>7, <3>1, <4>1
      <4>3. a < b => R(a) < R(b)
        BY <2>4
      <4>4. CASE a < b
        <5>1. R(a) \in Nat /\ R(b) \in Nat /\ R(a) < R(b)
          BY <2>3, <4>3, <4>4
        <5>2. Rank(OpenOrder[p][j]) \in {20 + 2 * R(a), 21 + 2 * R(a)}
          BY <2>3, <4>1
        <5>3. Rank(OpenOrder[p][k]) \in {20 + 2 * R(b), 21 + 2 * R(b)}
          BY <2>3, <3>1
        <5> QED
          BY <5>1, <5>2, <5>3
      <4>5. CASE a = b /\ j = 2 * a /\ k = 2 * b + 1
        BY <2>3, <4>5
      <4> QED
        BY <4>2, <4>4, <4>5
    <3> QED
      BY <3>2, <3>3
  <2> QED
    BY <2>1, <2>6, <2>7
<1> QED
  BY <1>1, <1>2

-----------------------------------------------------------------------------
(* Places and calls of a stack.                                            *)
LEMMA ConfigFacts ==
  ASSUME config \in DOMAIN Configs
  PROVE  /\ Launched \subseteq Module /\ IsFiniteSet(Launched)
         /\ Configs[config].traffic \in Nat
         /\ \A p \in Module : /\ Places(p) \subseteq DOMAIN OpenOrder[p]
                              /\ Places(p) \subseteq Nat
                              /\ Calls(p) \subseteq DOMAIN Connections[p]
<1>1. Configs[config] \in Config
  BY ConfigAssumption
<1>2. Launched \subseteq Module /\ Configs[config].traffic \in Nat
  BY <1>1 DEF Config, Launched
<1>3. IsFiniteSet(Module)
  <2> DEFINE A == {"device_driver"} \cup {"ethernet_mux"}
             B == (A \cup {"other_module"}) \cup {"arp_module"}
             C == (B \cup {"ip_module"}) \cup {"ip_mux"}
             D == (C \cup {"udp_module"}) \cup {"tcp_module"}
             E == (D \cup {"icmp_module"}) \cup {"ipother_module"}
             F == (E \cup {"sock_module"}) \cup {"app"}
  <2>1. IsFiniteSet({"device_driver"})
    BY FS_Singleton
  <2>2. IsFiniteSet(A)
    BY <2>1, FS_AddElement
  <2> HIDE DEF A
  <2>3. IsFiniteSet(B)
    BY <2>2, FS_AddElement
  <2> HIDE DEF B
  <2>4. IsFiniteSet(C)
    BY <2>3, FS_AddElement
  <2> HIDE DEF C
  <2>5. IsFiniteSet(D)
    BY <2>4, FS_AddElement
  <2> HIDE DEF D
  <2>6. IsFiniteSet(E)
    BY <2>5, FS_AddElement
  <2> HIDE DEF E
  <2>7. IsFiniteSet(F)
    BY <2>6, FS_AddElement
  <2> HIDE DEF F
  <2>8. IsFiniteSet(F \cup {"monitor"})
    BY <2>7, FS_AddElement
  <2>9. Module = F \cup {"monitor"}
    BY ModuleNames DEF A, B, C, D, E, F
  <2> QED
    BY <2>8, <2>9
<1>4. IsFiniteSet(Launched)
  BY <1>2, <1>3, FS_Subset
<1>5. ASSUME NEW p \in Module
      PROVE  /\ Places(p) \subseteq DOMAIN OpenOrder[p] /\ Places(p) \subseteq Nat
             /\ Calls(p) \subseteq DOMAIN Connections[p]
  BY RankGrows DEF Places, Calls, OpensMade, CallsMade
<1> QED
  BY <1>1, <1>2, <1>4, <1>5

LEMMA Least ==
  ASSUME NEW S, S \subseteq Nat, S # {}
  PROVE  \E m \in S : \A k \in S : m <= k
<1>1. PICK m \in S : \A k \in S : ~ (<<k, m>> \in OpToRel(<, Nat))
  BY NatLessThanWellFounded, WFMin
<1>2. \A k \in S : ~ (k < m)
  BY <1>1 DEF OpToRel
<1> QED
  BY <1>2

LEMMA NextPlaceFacts ==
  ASSUME config \in DOMAIN Configs, NEW p \in Module, opened[p] \in Nat,
         \E k \in Places(p) : opened[p] < k
  PROVE  /\ NextPlace(p) \in Places(p) /\ NextPlace(p) \in Nat /\ opened[p] < NextPlace(p)
         /\ \A j \in Places(p) : opened[p] < j => NextPlace(p) <= j
<1> DEFINE S == {k \in Places(p) : opened[p] < k}
<1>1. S \subseteq Nat /\ S # {}
  BY ConfigFacts
<1>2. PICK m \in S : \A k \in S : m <= k
  BY <1>1, Least
<1>3. \E k \in Places(p) : opened[p] < k /\ \A j \in Places(p) : opened[p] < j => k <= j
  BY <1>2
<1>4. /\ NextPlace(p) \in Places(p) /\ opened[p] < NextPlace(p)
      /\ \A j \in Places(p) : opened[p] < j => NextPlace(p) <= j
  BY <1>3 DEF NextPlace
<1> QED
  BY <1>4, ConfigFacts

-----------------------------------------------------------------------------
(* What the handlers do.                                                   *)
IpTodos ==
  {<<>>, <<Data("ip_mux")>>, <<Data("ethernet_mux")>>, AskArp,
   <<Data("arp_module"), Await("arp_module"), Data("ethernet_mux")>>,
   <<Await("arp_module")>>, <<Await("arp_module"), Data("ethernet_mux")>>}

\* The steps that do not wait for an answer.
Sends == [do : {"send"}, module : Module, type : {"data", "answer"}]

LEMMA StepFacts ==
  /\ Sends \subseteq Step
  /\ \A q \in Module : /\ Data(q) \in Sends /\ Answer(q) \in Sends /\ Await(q) \in Step
                       /\ Data(q).module = q /\ Answer(q).module = q
                       /\ Await(q).module = q
                       /\ Data(q).do = "send" /\ Answer(q).do = "send"
                       /\ Await(q).do = "await"
BY DEF Sends, Step, Data, Answer, Await, Send

LEMMA ShortScripts ==
  ASSUME NEW S, NEW a \in S, NEW b \in S, NEW c \in S
  PROVE  <<>> \in Seq(S) /\ <<a>> \in Seq(S) /\ <<a, b>> \in Seq(S) /\ <<a, b, c>> \in Seq(S)
OBVIOUS

LEMMA SegmentsPlain == Segments \subseteq Seq(Sends)
<1>1. Data("ip_mux") \in Sends /\ MaxSegments \in Nat
  BY StepFacts, ModuleNames, SegmentAssumption
<1>2. ASSUME NEW n \in 0..MaxSegments, NEW x \in Sends
      PROVE  [i \in 1..n |-> x] \in Seq(Sends)
  BY <1>1
<1> QED
  BY <1>1, <1>2 DEF Segments

LEMMA PlainScripts ==
  ASSUME NEW q \in Module, NEW type
  PROVE  /\ EthernetMuxScripts(q) \subseteq Seq(Sends)
         /\ ArpScripts(q) \subseteq Seq(Sends)
         /\ IpMuxScripts(q) \subseteq Seq(Sends)
         /\ UdpScripts(q, type) \subseteq Seq(Sends)
         /\ TcpScripts(q, type) \subseteq Seq(Sends)
         /\ IcmpScripts(q, type) \subseteq Seq(Sends)
         /\ IpOtherScripts(q, type) \subseteq Seq(Sends)
<1>1. \A r \in Module : Data(r) \in Sends /\ Answer(r) \in Sends
  BY StepFacts
<1>2. <<>> \in Seq(Sends)
  OBVIOUS
<1>3. \A x \in Sends, y \in Sends : <<x>> \in Seq(Sends) /\ <<x, y>> \in Seq(Sends)
  OBVIOUS
<1>4. EthernetMuxScripts(q) \subseteq Seq(Sends)
  BY <1>1, <1>3, ModuleNames, Zenon DEF EthernetMuxScripts
<1>5. ArpScripts(q) \subseteq Seq(Sends)
  BY <1>1, <1>2, <1>3, ModuleNames, Zenon DEF ArpScripts
<1>6. IpMuxScripts(q) \subseteq Seq(Sends)
  BY <1>1, <1>3, ModuleNames, Zenon DEF IpMuxScripts
<1>7. UdpScripts(q, type) \subseteq Seq(Sends)
  BY <1>1, <1>2, <1>3, ModuleNames, Zenon DEF UdpScripts
<1>8. TcpScripts(q, type) \subseteq Seq(Sends)
  <2>1. /\ Data("ip_mux") \in Sends /\ Data("sock_module") \in Sends
        /\ Data(q) \in Sends /\ Answer(q) \in Sends
    BY <1>1, ModuleNames
  <2>2. \A t \in Seq(Sends), s \in Segments : t \o s \in Seq(Sends)
    <3>1. \A t \in Seq(Sends), s \in Seq(Sends) : t \o s \in Seq(Sends)
      OBVIOUS
    <3> QED
      BY SegmentsPlain, <3>1, Zenon
  <2>3. <<Data("sock_module")>> \in Seq(Sends) /\ <<Answer(q)>> \in Seq(Sends)
    BY <1>3, <2>1, Zenon
  <2>4. \A x \in Sends, y \in Sends, z \in Sends : <<x, y, z>> \in Seq(Sends)
    OBVIOUS
  <2>5. CASE q = "ip_mux"
    <3> SUFFICES ASSUME NEW t \in TcpScripts(q, type)
                 PROVE  t \in Seq(Sends)
      OBVIOUS
    <3>1. CASE t = <<Data(q), Data("sock_module")>>
      BY <1>3, <2>1, <3>1, Zenon
    <3>2. CASE t \in Segments
      BY SegmentsPlain, <3>2, Zenon
    <3>3. CASE \E s \in Segments : t = <<Data("sock_module")>> \o s
      BY <2>2, <2>3, <3>3, Zenon
    <3> QED
      BY <2>5, <3>1, <3>2, <3>3 DEF TcpScripts
  <2>6. CASE q # "ip_mux" /\ type = "answer"
    <3>1. TcpScripts(q, type) = {<<>>, <<Data(q)>>}
      BY <2>6 DEF TcpScripts
    <3> QED
      BY <1>2, <1>3, <2>1, <3>1, Zenon
  <2>7. CASE q # "ip_mux" /\ type # "answer"
    <3> SUFFICES ASSUME NEW t \in TcpScripts(q, type)
                 PROVE  t \in Seq(Sends)
      OBVIOUS
    <3>1. CASE t = <<Data("ip_mux"), Data("ip_mux"), Answer(q)>>
      BY <2>1, <2>4, <3>1, Zenon
    <3>2. CASE t = <<Data("ip_mux"), Answer(q)>> \/ t = <<>>
      BY <1>2, <1>3, <2>1, <3>2, Zenon
    <3>3. CASE \E s \in Segments : t = <<Answer(q)>> \o s
      BY <2>2, <2>3, <3>3, Zenon
    <3> QED
      BY <2>7, <3>1, <3>2, <3>3 DEF TcpScripts
  <2> QED
    BY <2>5, <2>6, <2>7
<1>9. IcmpScripts(q, type) \subseteq Seq(Sends)
  BY <1>1, <1>2, <1>3, ModuleNames, Zenon DEF IcmpScripts
<1>10. IpOtherScripts(q, type) \subseteq Seq(Sends)
  BY <1>1, <1>2, <1>3, ModuleNames, Zenon DEF IpOtherScripts
<1> QED
  BY <1>4, <1>5, <1>6, <1>7, <1>8, <1>9, <1>10

LEMMA TwoJoined ==
  ASSUME NEW S, NEW x \in S, NEW y \in S
  PROVE  <<x>> \o <<y>> = <<x, y>>
<1> DEFINE s == <<x>> \o <<y>>
           t == <<x, y>>
<1>1. <<x>> \in Seq(S) /\ <<y>> \in Seq(S) /\ s \in Seq(S) /\ t \in Seq(S)
  OBVIOUS
<1>2. Len(s) = 2 /\ Len(t) = 2
  BY <1>1
<1>3. s[1] = x /\ s[2] = y /\ t[1] = x /\ t[2] = y
  BY <1>1
<1> HIDE DEF s, t
<1>4. \A i \in 1..Len(s) : s[i] = t[i]
  BY <1>2, <1>3
<1>5. s = t
  BY <1>1, <1>2, <1>4, SeqEqual
<1> QED
  BY <1>5 DEF s, t

LEMMA ThreeJoined ==
  ASSUME NEW S, NEW x \in S, NEW y \in S, NEW z \in S
  PROVE  <<x, y>> \o <<z>> = <<x, y, z>>
<1> DEFINE s == <<x, y>> \o <<z>>
           t == <<x, y, z>>
<1>1. <<x, y>> \in Seq(S) /\ <<z>> \in Seq(S) /\ s \in Seq(S) /\ t \in Seq(S)
  OBVIOUS
<1>2. Len(s) = 3 /\ Len(t) = 3
  BY <1>1
<1>3. s[1] = x /\ s[2] = y /\ s[3] = z /\ t[1] = x /\ t[2] = y /\ t[3] = z
  BY <1>1
<1> HIDE DEF s, t
<1>4. \A i \in 1..Len(s) : s[i] = t[i]
  BY <1>2, <1>3
<1>5. s = t
  BY <1>1, <1>2, <1>4, SeqEqual
<1> QED
  BY <1>5 DEF s, t

\* Whom sock_module sends to when it handles a message from q.
SockSends(q) ==
  {x \in Sends : x.module \in {"app", "tcp_module", "udp_module", q}}

LEMMA SockScriptsPlain ==
  ASSUME NEW q \in Module, NEW type
  PROVE  /\ TellApp \subseteq {<<>>, <<Answer("app")>>}
         /\ SockScripts(q, type) \subseteq Seq(SockSends(q))
         /\ SockScripts(q, type) \subseteq Seq(Sends)
<1> DEFINE S == SockSends(q)
<1>1. /\ \A r \in {"tcp_module", "udp_module"} : Data(r) \in S
      /\ Answer(q) \in S /\ Answer("app") \in S /\ S \subseteq Sends
  BY StepFacts, ModuleNames DEF SockSends
<1> HIDE DEF S
<1>2. <<>> \in Seq(S)
  OBVIOUS
<1>3. \A x \in S, y \in S : <<x>> \in Seq(S) /\ <<x, y>> \in Seq(S)
  OBVIOUS
<1>4. TellApp \subseteq {<<>>, <<Answer("app")>>}
  BY DEF TellApp
<1>5. \A tell \in TellApp : tell \in Seq(S) /\ tell \o <<Answer(q)>> \in Seq(S)
  <2>1. \A x \in S : <<>> \o <<x>> = <<x>>
    OBVIOUS
  <2>2. \A x \in S, y \in S : <<y>> \o <<x>> = <<y, x>>
    BY TwoJoined, Zenon
  <2> QED
    BY <1>1, <1>2, <1>3, <1>4, <2>1, <2>2, Zenon
<1>6. SockScripts(q, type) \subseteq Seq(S)
  <2>1. CASE q = "app"
    <3>1. SockScripts(q, type) =
            {<<Answer(q)>>} \cup UNION
              {{<<Data(r)>>, <<Data(r), Answer(q)>>} :
                 r \in {"tcp_module", "udp_module"}}
      BY <2>1 DEF SockScripts
    <3>2. <<Answer(q)>> \in Seq(S)
      BY <1>1, <1>3
    <3>3. \A r \in {"tcp_module", "udp_module"} :
            <<Data(r)>> \in Seq(S) /\ <<Data(r), Answer(q)>> \in Seq(S)
      BY <1>1, <1>3, Zenon
    <3> QED
      BY <3>1, <3>2, <3>3
  <2>2. CASE q # "app" /\ type = "answer"
    <3>1. SockScripts(q, type) = TellApp
      BY <2>2 DEF SockScripts
    <3> QED
      BY <1>5, <3>1, Zenon
  <2>3. CASE q # "app" /\ type # "answer" /\ q = "icmp_module"
    BY <1>1, <1>3, <2>3, Zenon DEF SockScripts
  <2>4. CASE q # "app" /\ type # "answer" /\ q # "icmp_module"
    BY <1>5, <2>4, Zenon DEF SockScripts
  <2> QED
    BY <2>1, <2>2, <2>3, <2>4
<1>7. Seq(S) \subseteq Seq(Sends)
  BY <1>1
<1> QED
  BY <1>4, <1>6, <1>7 DEF S

LEMMA IpScriptsKnown ==
  ASSUME NEW q
  PROVE  IpScripts(q) \subseteq IpTodos
<1>1. AskArp \o <<Data("ethernet_mux")>> =
        <<Data("arp_module"), Await("arp_module"), Data("ethernet_mux")>>
  <2>1. /\ Data("arp_module") \in Step /\ Await("arp_module") \in Step
        /\ Data("ethernet_mux") \in Step
    BY StepFacts, ModuleNames
  <2> QED
    BY <2>1, ThreeJoined, Zenon DEF AskArp
<1> QED
  BY <1>1, Zenon DEF IpScripts, SendPacket, IpTodos

LEMMA IpTodosTyped == IpTodos \subseteq Seq(Step)
<1>1. /\ Data("ip_mux") \in Step /\ Data("ethernet_mux") \in Step
      /\ Data("arp_module") \in Step /\ Await("arp_module") \in Step
  BY StepFacts, ModuleNames
<1>2. <<>> \in Seq(Step)
  OBVIOUS
<1>3. \A x \in Step, y \in Step, z \in Step :
        <<x>> \in Seq(Step) /\ <<x, y>> \in Seq(Step) /\ <<x, y, z>> \in Seq(Step)
  OBVIOUS
<1>4. AskArp = <<Data("arp_module"), Await("arp_module")>>
  BY DEF AskArp
<1> QED
  BY <1>1, <1>2, <1>3, <1>4, Zenon DEF IpTodos

\* Every handler but that of ip_module only sends.
LEMMA ScriptsKnown ==
  ASSUME NEW p \in Module, NEW q \in Module, NEW type
  PROVE  /\ p = "ip_module" => Scripts(p, q, type) \subseteq IpTodos
         /\ p # "ip_module" => Scripts(p, q, type) \subseteq Seq(Sends)
         /\ Scripts(p, q, type) \subseteq Seq(Step)
<1>1. <<>> \in Seq(Sends)
  OBVIOUS
<1>2. p = "ip_module" => Scripts(p, q, type) \subseteq IpTodos
  BY IpScriptsKnown, Zenon DEF Scripts
<1>3. ASSUME p # "ip_module" PROVE Scripts(p, q, type) \subseteq Seq(Sends)
  BY <1>1, <1>3, PlainScripts, SockScriptsPlain, Zenon DEF Scripts
<1>4. Seq(Sends) \subseteq Seq(Step)
  BY StepFacts
<1> QED
  BY <1>2, <1>3, <1>4, IpTodosTyped

LEMMA OutsideKnown ==
  ASSUME NEW p \in DOMAIN Outside, NEW script \in Outside[p]
  PROVE  /\ p \in {"device_driver", "app"}
         /\ p # "app" => script \in Seq(Sends)
         /\ p = "app" => script = <<Data("sock_module"), Await("sock_module")>>
         /\ script \in Seq(Step)
<1>1. \A r \in Module : Data(r) \in Sends /\ Data(r) \in Step /\ Await(r) \in Step
  BY StepFacts
<1>2. /\ \A x \in Sends : <<x>> \in Seq(Sends)
      /\ \A x \in Step, y \in Step : <<x>> \in Seq(Step) /\ <<x, y>> \in Seq(Step)
  OBVIOUS
<1>3. /\ DOMAIN Outside = {"device_driver", "app"}
      /\ Outside["device_driver"] = {<<Data("ethernet_mux")>>}
      /\ Outside["app"] = {<<Data("sock_module"), Await("sock_module")>>}
  BY DEF Outside
<1>4. CASE p = "device_driver"
  BY <1>1, <1>2, <1>3, <1>4, ModuleNames, Zenon
<1>5. CASE p = "app"
  <2>1. script = <<Data("sock_module"), Await("sock_module")>>
    BY <1>3, <1>5
  <2>2. script \in Seq(Step)
    BY <1>1, <1>2, <2>1, ModuleNames, Zenon
  <2> QED
    BY <1>5, <2>1, <2>2, Zenon
<1> QED
  BY <1>3, <1>4, <1>5

-----------------------------------------------------------------------------
(* Types.                                                                  *)
LEMMA SameConfig ==
  ASSUME config' = config
  PROVE  /\ Launched' = Launched /\ Fifos' = Fifos
         /\ Configs[config]' = Configs[config]
         /\ \A p : Places(p)' = Places(p) /\ Calls(p)' = Calls(p) /\ Opens(p)' = Opens(p)
         /\ \A p, q : HasHandle(p, q)' = HasHandle(p, q)
<1>1. \A p : Places(p)' = Places(p) /\ Calls(p)' = Calls(p)
  BY DEF Places, Calls
<1>2. Launched' = Launched /\ Configs[config]' = Configs[config]
  BY DEF Launched
<1>3. \A p : Opens(p)' = Opens(p)
  BY <1>1 DEF Opens
<1>4. \A p, q : HasHandle(p, q)' = HasHandle(p, q)
  BY <1>1 DEF HasHandle
<1>5. Fifos' = Fifos
  BY <1>2, <1>3 DEF Fifos
<1> QED
  BY <1>1, <1>2, <1>3, <1>4, <1>5

LEMMA TypeStart == Init => TypeOK
<1> SUFFICES ASSUME Init PROVE TypeOK
  OBVIOUS
<1>1. Configs[config].traffic \in Nat /\ PipeCap \in Nat
  BY ConfigFacts, CapAssumption DEF Init
<1>2. <<>> \in Seq({"data", "answer"}) /\ <<>> \in Seq(Step) /\ Len(<<>>) = 0
  OBVIOUS
<1>3. /\ opened \in [Launched -> Nat] /\ phase \in [Launched -> Phase]
      /\ todo \in [Launched -> Seq(Step)]
  BY <1>2 DEF Init, Phase
<1>4. /\ pipe \in [Fifos -> Seq({"data", "answer"})]
      /\ \A f \in Fifos : pipe[f] = <<>>
  BY <1>2 DEF Init
<1>5. \A f \in Fifos : Len(pipe[f]) <= PipeCap
  BY <1>1, <1>2, <1>4
<1>6. traffic \in 0..Configs[config].traffic /\ config \in DOMAIN Configs
  BY <1>1 DEF Init
<1> QED
  BY <1>3, <1>4, <1>5, <1>6 DEF TypeOK

\* What a step may do to a FIFO and to what is left of a handler.
PipesTyped ==
  pipe \in [Fifos -> Seq({"data", "answer"})] /\ \A f \in Fifos : Len(pipe[f]) <= PipeCap

LEMMA TakenFrom ==
  ASSUME PipesTyped, NEW f, pipe[f] # <<>>, config' = config,
         pipe' = [pipe EXCEPT ![f] = Tail(@)]
  PROVE  PipesTyped'
<1> DEFINE V == Seq({"data", "answer"})
<1>1. pipe \in [Fifos -> V] /\ \A g \in Fifos : Len(pipe[g]) <= PipeCap
  BY DEF PipesTyped
<1>2. PipeCap \in Nat
  BY CapAssumption
<1>3. ASSUME f \in Fifos
      PROVE  Tail(pipe[f]) \in V /\ Len(Tail(pipe[f])) <= PipeCap
  <2>1. pipe[f] \in V /\ Len(pipe[f]) <= PipeCap
    BY <1>1, <1>3
  <2>2. Tail(pipe[f]) \in V /\ Len(Tail(pipe[f])) = Len(pipe[f]) - 1 /\ Len(pipe[f]) \in Nat
    BY <2>1
  <2> QED
    BY <1>2, <2>1, <2>2
<1> HIDE DEF V
<1>4. pipe' \in [Fifos -> V] /\ \A g \in Fifos : Len(pipe'[g]) <= PipeCap
  BY <1>1, <1>3
<1> QED
  BY <1>4, SameConfig DEF PipesTyped, V

LEMMA PutInto ==
  ASSUME PipesTyped, NEW f, Len(pipe[f]) < PipeCap, NEW type \in {"data", "answer"},
         config' = config, pipe' = [pipe EXCEPT ![f] = Append(@, type)]
  PROVE  PipesTyped'
<1> DEFINE V == Seq({"data", "answer"})
<1>1. pipe \in [Fifos -> V] /\ \A g \in Fifos : Len(pipe[g]) <= PipeCap
  BY DEF PipesTyped
<1>2. PipeCap \in Nat
  BY CapAssumption
<1>3. ASSUME f \in Fifos
      PROVE  Append(pipe[f], type) \in V /\ Len(Append(pipe[f], type)) <= PipeCap
  <2>1. pipe[f] \in V
    BY <1>1, <1>3
  <2>2. /\ Append(pipe[f], type) \in V /\ Len(pipe[f]) \in Nat
        /\ Len(Append(pipe[f], type)) = Len(pipe[f]) + 1
    BY <2>1
  <2> QED
    BY <1>2, <2>2
<1> HIDE DEF V
<1>4. pipe' \in [Fifos -> V] /\ \A g \in Fifos : Len(pipe'[g]) <= PipeCap
  BY <1>1, <1>3
<1> QED
  BY <1>4, SameConfig DEF PipesTyped, V

LEMMA WaitsFor ==
  ASSUME TypeOK, NEW p \in Launched, Waits(p)
  PROVE  /\ todo[p][1] \in Step /\ todo[p][1] = Head(todo[p]) /\ Tail(todo[p]) \in Seq(Step)
         /\ Peer(p) \in Module /\ todo[p][1].type \in {"data", "answer"}
         /\ Len(todo[p]) >= 1
<1>1. todo[p] \in Seq(Step) /\ todo[p] # <<>>
  BY DEF TypeOK, Waits
<1>2. /\ todo[p][1] \in Step /\ todo[p][1] = Head(todo[p]) /\ Tail(todo[p]) \in Seq(Step)
      /\ Len(todo[p]) >= 1
  BY <1>1
<1>3. todo[p][1].module \in Module /\ todo[p][1].type \in {"data", "answer"}
  BY <1>2 DEF Step
<1> QED
  BY <1>2, <1>3 DEF Peer

LEMMA TypeStep == TypeOK /\ [Next]_vars => TypeOK'
<1> SUFFICES ASSUME TypeOK, [Next]_vars PROVE TypeOK'
  OBVIOUS
<1> DEFINE M == Configs[config].traffic
<1>1. /\ config \in DOMAIN Configs /\ opened \in [Launched -> Nat]
      /\ phase \in [Launched -> Phase] /\ PipesTyped
      /\ todo \in [Launched -> Seq(Step)] /\ traffic \in 0..M
  BY DEF TypeOK, PipesTyped
<1>2. /\ Launched \subseteq Module /\ M \in Nat
      /\ \A p \in Module : Places(p) \subseteq Nat
  BY <1>1, ConfigFacts
<1> HIDE DEF M
<1>3. CASE UNCHANGED vars
  <2>1. /\ config' = config /\ opened' = opened /\ phase' = phase /\ pipe' = pipe
        /\ todo' = todo /\ traffic' = traffic
    BY <1>3 DEF vars
  <2> QED
    BY <2>1, SameConfig DEF TypeOK
<1>4. CASE Next
  <2>1. PICK p \in Launched : Runs(p) \/ Begin(p) \/ HitEnter(p) \/ Quit(p)
    BY <1>4 DEF Next
  <2>2. p \in Module
    BY <1>2
  <2> SUFFICES
        /\ config' = config /\ opened' \in [Launched -> Nat]
        /\ phase' \in [Launched -> Phase] /\ PipesTyped'
        /\ todo' \in [Launched -> Seq(Step)] /\ traffic' \in 0..M
    BY <1>1, SameConfig DEF TypeOK, PipesTyped, M
  <2>3. ASSUME UNCHANGED <<config, pipe>> PROVE PipesTyped'
    BY <1>1, <2>3, SameConfig DEF PipesTyped
  <2>4. CASE OpenNext(p)
    <3>1. NextPlace(p) \in Nat
      BY <1>1, <2>2, <2>4, NextPlaceFacts DEF OpenNext, CanOpen, IsOpening
    <3>2. phase' \in [Launched -> Phase]
      BY <1>1, <2>4 DEF OpenNext, Phase
    <3> QED
      BY <1>1, <2>3, <2>4, <3>1, <3>2 DEF OpenNext
  <2>5. CASE MinetSendToMonitor(p) \/ GiveUp(p) \/ AllOpen(p)
    BY <1>1, <2>3, <2>5 DEF MinetSendToMonitor, GiveUp, AllOpen, Phase
  <2>6. CASE Handle(p)
    <3>1. PICK q \in Launched :
            /\ pipe[<<q, p>>] # <<>> /\ pipe' = [pipe EXCEPT ![<<q, p>>] = Tail(@)]
            /\ \E script \in Scripts(p, q, Head(pipe[<<q, p>>])) :
                 LET cost == Resends(p, Head(pipe[<<q, p>>]), script)
                 IN  /\ cost <= traffic /\ todo' = [todo EXCEPT ![p] = script]
                     /\ traffic' = traffic - cost
            /\ UNCHANGED <<config, opened, phase>>
      BY <2>6 DEF Handle
    <3> PICK script \in Scripts(p, q, Head(pipe[<<q, p>>])) :
          /\ Resends(p, Head(pipe[<<q, p>>]), script) <= traffic
          /\ todo' = [todo EXCEPT ![p] = script]
          /\ traffic' = traffic - Resends(p, Head(pipe[<<q, p>>]), script)
      BY <3>1
    <3>2. script \in Seq(Step)
      BY <1>2, <2>2, <3>1, ScriptsKnown
    <3>3. PipesTyped'
      BY <1>1, <3>1, TakenFrom
    <3>4. traffic' \in 0..M
      <4>1. Resends(p, Head(pipe[<<q, p>>]), script) \in {0, 1}
        BY DEF Resends
      <4> QED
        BY <1>1, <1>2, <4>1
    <3> QED
      BY <1>1, <3>1, <3>2, <3>3, <3>4
  <2>7. CASE NoHandle(p)
    <3>1. Tail(todo[p]) \in Seq(Step)
      BY <2>7, WaitsFor DEF NoHandle
    <3> QED
      BY <1>1, <2>3, <2>7, <3>1 DEF NoHandle
  <2>8. CASE MinetSend(p)
    <3>1. Tail(todo[p]) \in Seq(Step) /\ todo[p][1].type \in {"data", "answer"}
      BY <2>8, WaitsFor DEF MinetSend, InStep
    <3>2. PipesTyped'
      BY <1>1, <2>8, <3>1, PutInto DEF MinetSend, HasRoom
    <3> QED
      BY <1>1, <2>8, <3>1, <3>2 DEF MinetSend
  <2>9. CASE MinetReceive(p)
    <3>1. Tail(todo[p]) \in Seq(Step)
      BY <2>9, WaitsFor DEF MinetReceive, InStep
    <3>2. PipesTyped'
      BY <1>1, <2>9, TakenFrom DEF MinetReceive
    <3> QED
      BY <1>1, <2>9, <3>1, <3>2 DEF MinetReceive
  <2>10. CASE Die(p)
    BY <1>1, <2>3, <2>10 DEF Die, death, Phase
  <2>11. CASE Begin(p)
    <3>1. PICK script \in Outside[p] : todo' = [todo EXCEPT ![p] = script]
      BY <2>11 DEF Begin
    <3>2. script \in Seq(Step)
      BY <2>11, <3>1, OutsideKnown DEF Begin
    <3>3. traffic - 1 \in 0..M
      BY <1>1, <1>2, <2>11 DEF Begin
    <3> QED
      BY <1>1, <2>3, <2>11, <3>1, <3>2, <3>3 DEF Begin
  <2>12. CASE HitEnter(p)
    BY <1>1, <2>3, <2>12 DEF HitEnter, Phase
  <2>13. CASE Quit(p)
    BY <1>1, <2>3, <2>13 DEF Quit, Phase
  <2> QED
    BY <2>1, <2>4, <2>5, <2>6, <2>7, <2>8, <2>9, <2>10, <2>11, <2>12, <2>13 DEF Runs
<1> QED
  BY <1>3, <1>4

\* However the stack is started, a FIFO never holds more messages than fit, and
\* what is left of a handler are steps between modules (Minet.cc:1066).
THEOREM StackTypeCorrect == Spec => []TypeOK
<1>1. Init => TypeOK
  BY TypeStart
<1>2. TypeOK /\ [Next]_vars => TypeOK'
  BY TypeStep
<1> QED
  BY <1>1, <1>2, PTL DEF Spec

-----------------------------------------------------------------------------
(* Opening.                                                                *)
OpenedAll ==
  \A p \in Launched : phase[p] = "running" => \A k \in Places(p) : k <= opened[p]

LEMMA OpenedAllStep == TypeOK /\ OpenedAll /\ [Next]_vars => OpenedAll'
<1> SUFFICES ASSUME TypeOK, OpenedAll, [Next]_vars PROVE OpenedAll'
  OBVIOUS
<1>1. /\ config \in DOMAIN Configs /\ opened \in [Launched -> Nat]
      /\ phase \in [Launched -> Phase]
  BY DEF TypeOK
<1>2. \A p \in Launched : p \in Module /\ opened[p] \in Nat /\ Places(p) \subseteq Nat
  BY <1>1, ConfigFacts
<1>3. config' = config
  BY DEF vars, Next, Runs, OpenNext, MinetSendToMonitor, GiveUp, AllOpen, Handle, NoHandle,
         MinetSend, MinetReceive, Die, Begin, HitEnter, Quit
<1>4. ASSUME NEW r \in Launched
      PROVE  /\ opened'[r] \in Nat /\ opened[r] <= opened'[r]
             /\ phase'[r] = "running" => phase[r] = "running" \/ AllOpened(r)
  <2>1. CASE UNCHANGED vars
    BY <1>2, <2>1 DEF vars
  <2>2. CASE Next
    <3>1. PICK p \in Launched : Runs(p) \/ Begin(p) \/ HitEnter(p) \/ Quit(p)
      BY <2>2 DEF Next
    <3>2. CASE OpenNext(p)
      <4>1. NextPlace(p) \in Nat /\ opened[p] < NextPlace(p)
        BY <1>1, <1>2, <3>2, NextPlaceFacts DEF OpenNext, CanOpen, IsOpening
      <4>2. phase'[r] = "running" => phase[r] = "running"
        BY <1>1, <3>2 DEF OpenNext
      <4> QED
        BY <1>1, <1>2, <3>2, <4>1, <4>2 DEF OpenNext
    <3>3. CASE AllOpen(p)
      BY <1>1, <1>2, <3>3 DEF AllOpen, AllOpened
    <3>4. CASE Handle(p) \/ NoHandle(p) \/ MinetSend(p) \/ MinetReceive(p) \/ Begin(p)
      <4>1. opened' = opened /\ phase' = phase
        BY <3>4 DEF Handle, NoHandle, MinetSend, MinetReceive, Begin
      <4> QED
        BY <1>2, <4>1
    <3>5. CASE MinetSendToMonitor(p) \/ GiveUp(p) \/ Die(p) \/ HitEnter(p) \/ Quit(p)
      <4>1. opened' = opened /\ \E x \in Phase \ {"running"} : phase' = [phase EXCEPT ![p] = x]
        BY <3>5 DEF MinetSendToMonitor, GiveUp, Die, death, HitEnter, Quit, Phase
      <4> QED
        BY <1>1, <1>2, <4>1
    <3> QED
      BY <3>1, <3>2, <3>3, <3>4, <3>5 DEF Runs
  <2> QED
    BY <2>1, <2>2
<1>5. ASSUME NEW r \in Launched, phase'[r] = "running", NEW k \in Places(r)
      PROVE  k <= opened'[r]
  <2>1. k <= opened[r]
    BY <1>4, <1>5 DEF OpenedAll, AllOpened
  <2> QED
    BY <1>2, <1>4, <2>1
<1> QED
  BY <1>3, <1>5, SameConfig DEF OpenedAll

\* Of the processes that wait for each other in their opens, the one at the FIFO
\* with the least number cannot be waiting: its other end would be at a FIFO with a
\* lesser number.
LEMMA FirstCanOpen ==
  ASSUME TypeOK
  PROVE  OpensMeet
<1> SUFFICES ASSUME NEW S \in SUBSET {p \in Launched : IsOpening(p) /\ ~CanOpen(p)},
                    \A p \in S : \E q \in S : /\ q = OtherEnd(p, NextFifo(p))
                                              /\ NextFifo(p) \in Opens(q),
                    S # {}
             PROVE  FALSE
  BY DEF OpensMeet
<1>1. config \in DOMAIN Configs /\ opened \in [Launched -> Nat]
  BY DEF TypeOK
<1>2. \A p \in S : /\ p \in Launched /\ p \in Module /\ IsOpening(p) /\ ~CanOpen(p)
                   /\ opened[p] \in Nat /\ Places(p) \subseteq Nat
                   /\ Places(p) \subseteq DOMAIN OpenOrder[p]
  BY <1>1, ConfigFacts
<1>3. ASSUME NEW p \in S
      PROVE  /\ NextPlace(p) \in Places(p)
             /\ \A j \in Places(p) : opened[p] < j => NextPlace(p) <= j
             /\ Rank(NextFifo(p)) \in Nat
  <2>1. /\ NextPlace(p) \in Places(p)
        /\ \A j \in Places(p) : opened[p] < j => NextPlace(p) <= j
    BY <1>1, <1>2, NextPlaceFacts DEF IsOpening
  <2> QED
    BY <1>2, <2>1, RankGrows DEF NextFifo
<1> DEFINE R == {Rank(NextFifo(p)) : p \in S}
<1>4. R \subseteq Nat /\ R # {}
  BY <1>3
<1>5. PICK m \in R : \A n \in R : m <= n
  BY <1>4, Least
<1>6. PICK p \in S : m = Rank(NextFifo(p))
  OBVIOUS
<1> DEFINE f == NextFifo(p)
<1>7. PICK q \in S : q = OtherEnd(p, f) /\ f \in Opens(q)
  OBVIOUS
<1>8. PICK k \in Places(q) : OpenOrder[q][k] = f
  BY <1>7 DEF Opens
<1>9. ~HasReached(q, f) /\ q \in Launched
  BY <1>2, <1>7 DEF CanOpen
<1>10. m = Rank(f) /\ m \in Nat
  BY <1>4, <1>6
<1> HIDE DEF f
<1>11. ~(k <= opened[q]) /\ k # NextPlace(q)
  BY <1>2, <1>8, <1>9 DEF HasReached
<1>12. /\ k \in Nat /\ opened[q] \in Nat /\ q \in Module
       /\ NextPlace(q) \in Places(q) /\ NextPlace(q) \in Nat
  BY <1>2, <1>3
<1>13. NextPlace(q) < k
  <2>1. opened[q] < k
    BY <1>11, <1>12
  <2>2. NextPlace(q) <= k
    BY <1>3, <2>1
  <2> QED
    BY <1>11, <1>12, <2>2
<1>14. Rank(NextFifo(q)) < Rank(f)
  <2>1. Rank(OpenOrder[q][NextPlace(q)]) < Rank(OpenOrder[q][k])
    BY <1>2, <1>12, <1>13, RankGrows
  <2> QED
    BY <1>8, <2>1 DEF NextFifo
<1>15. m <= Rank(NextFifo(q)) /\ Rank(NextFifo(q)) \in Nat
  BY <1>3, <1>5
<1> QED
  BY <1>10, <1>14, <1>15

\* Whatever modules a stack consists of, whichever of them the monitor watches and
\* whoever ends while the others still open their FIFOs: there are never processes
\* that wait in their opens for each other.  The orders of the calls in the main()
\* of the modules fit together (Minet.cc:729), so who stays in an open waits in the
\* end for a module that is not there, does not open the FIFO, or is gone.
THEOREM OpensAlwaysMeet == Spec => []OpensMeet
<1>1. TypeOK => OpensMeet
  BY FirstCanOpen
<1> QED
  BY <1>1, StackTypeCorrect, PTL

-----------------------------------------------------------------------------
(* Links.                                                                  *)
LEMMA HandleFifos ==
  ASSUME config \in DOMAIN Configs, NEW p \in Launched, p # "monitor",
         NEW q, HasHandle(p, q)
  PROVE  /\ q \in Module /\ q # "monitor" /\ q # p
         /\ \E k \in Places(p) : OpenOrder[p][k] = <<p, q>>
         /\ \E k \in Places(p) : OpenOrder[p][k] = <<q, p>>
         /\ <<p, q>> \in Fifos /\ <<q, p>> \in Fifos
<1>1. p \in Module
  BY ConfigFacts
<1>2. PICK i \in Calls(p) : Connections[p][i].module = q
  BY DEF HasHandle
<1>3. i \in DOMAIN Connections[p] /\ i \in Nat
  BY <1>1, <1>2, ConfigFacts, PlaceFacts
<1>4. q \in Module /\ q # "monitor" /\ Level[q] # Level[p]
  <2>1. CallRight(p, i) /\ \A m \in Module : Level[m] \in Nat
    BY <1>1, <1>3, CallsRight, ModuleNames DEF Level
  <2> QED
    BY <1>1, <1>2, <2>1 DEF CallRight
<1>5. 2 * i \in Places(p) /\ 2 * i + 1 \in Places(p)
  <2>1. 2 * i \in DOMAIN OpenOrder[p] /\ 2 * i + 1 \in DOMAIN OpenOrder[p]
    BY <1>1, <1>3, PlaceFacts
  <2>2. (2 * i) \div 2 = i /\ (2 * i + 1) \div 2 = i /\ 2 * i # 1 /\ 2 * i + 1 # 1
    <3>1. i >= 1
      BY <1>1, <1>3, PlaceFacts
    <3> QED
      BY <1>3, <3>1, Halves
  <2>3. Places(p) = {k \in DOMAIN OpenOrder[p] :
                       IF k = 1 THEN MinetIsModuleMonitored(Configs[config], p)
                       ELSE k \div 2 \in Calls(p)}
    BY <1>1 DEF Places, OpensMade, Calls
  <2> QED
    BY <1>2, <2>1, <2>2, <2>3
<1>6. /\ OpenOrder[p][2 * i] = Upward(p, q) /\ OpenOrder[p][2 * i + 1] = Downward(p, q)
  BY <1>1, <1>2, <1>3, PlaceFacts
<1>7. \/ Upward(p, q) = <<p, q>> /\ Downward(p, q) = <<q, p>>
      \/ Upward(p, q) = <<q, p>> /\ Downward(p, q) = <<p, q>>
  BY DEF Upward, Downward
<1>8. /\ \E k \in Places(p) : OpenOrder[p][k] = <<p, q>>
      /\ \E k \in Places(p) : OpenOrder[p][k] = <<q, p>>
  BY <1>5, <1>6, <1>7
<1> QED
  BY <1>4, <1>8 DEF Fifos, Opens

\* What p has opened has another end.
Met(p, k) ==
  LET q == OtherEnd(p, OpenOrder[p][k]) IN q \in Launched /\ OpenOrder[p][k] \in Opens(q)

OpenedMet == \A p \in Launched : \A k \in Places(p) : k <= opened[p] => Met(p, k)

LEMMA OpenedMetStep == TypeOK /\ OpenedMet /\ [Next]_vars => OpenedMet'
<1> SUFFICES ASSUME TypeOK, OpenedMet, [Next]_vars PROVE OpenedMet'
  OBVIOUS
<1>1. config \in DOMAIN Configs /\ opened \in [Launched -> Nat]
  BY DEF TypeOK
<1>2. \A p \in Launched : p \in Module /\ opened[p] \in Nat /\ Places(p) \subseteq Nat
  BY <1>1, ConfigFacts
<1>3. config' = config
  BY DEF vars, Next, Runs, OpenNext, MinetSendToMonitor, GiveUp, AllOpen, Handle, NoHandle, MinetSend, MinetReceive,
         Die, Begin, HitEnter, Quit
<1>4. \A p, k : Met(p, k)' = Met(p, k)
  BY <1>3, SameConfig DEF Met
<1>5. CASE opened' = opened
  BY <1>3, <1>4, <1>5, SameConfig DEF OpenedMet
<1>6. ASSUME NEW p \in Launched, OpenNext(p)
      PROVE  OpenedMet'
  <2> DEFINE n == NextPlace(p)
  <2>1. /\ n \in Places(p) /\ n \in Nat /\ opened[p] < n
        /\ \A j \in Places(p) : opened[p] < j => n <= j
    BY <1>1, <1>2, <1>6, NextPlaceFacts DEF OpenNext, CanOpen, IsOpening
  <2>2. Met(p, n)
    BY <1>6 DEF OpenNext, CanOpen, HasReached, NextFifo, Met, Opens
  <2>3. opened' = [opened EXCEPT ![p] = n]
    BY <1>6 DEF OpenNext
  <2> HIDE DEF n
  <2>4. ASSUME NEW r \in Launched, NEW k \in Places(r), k <= opened'[r]
        PROVE  Met(r, k)
    <3>1. CASE r # p
      BY <1>1, <2>3, <2>4, <3>1 DEF OpenedMet
    <3>2. CASE r = p /\ k <= opened[p]
      BY <3>2 DEF OpenedMet
    <3>3. CASE r = p /\ ~(k <= opened[p])
      <4>1. k \in Nat /\ k <= n
        BY <1>1, <1>2, <2>3, <2>4, <3>3
      <4>2. n <= k
        BY <1>2, <2>1, <3>3, <4>1
      <4> QED
        BY <2>1, <2>2, <3>3, <4>1, <4>2
    <3> QED
      BY <3>1, <3>2, <3>3
  <2> QED
    BY <1>3, <1>4, <2>4, SameConfig DEF OpenedMet
<1>7. (\E p \in Launched : OpenNext(p)) \/ opened' = opened
  BY DEF vars, Next, Runs, MinetSendToMonitor, GiveUp, AllOpen, Handle, NoHandle, MinetSend, MinetReceive,
         Die, Begin, HitEnter, Quit
<1> QED
  BY <1>5, <1>6, <1>7

\* A module that has opened all its FIFOs is connected to modules that are
\* connected to it.
LEMMA Linked ==
  ASSUME config \in DOMAIN Configs, OpenedMet, NEW p \in Launched, p # "monitor",
         \A k \in Places(p) : k <= opened[p], NEW q, HasHandle(p, q)
  PROVE  q \in Launched /\ HasHandle(q, p)
<1>1. /\ q \in Module /\ q # "monitor" /\ q # p
      /\ \E k \in Places(p) : OpenOrder[p][k] = <<p, q>>
  BY HandleFifos
<1>2. PICK k \in Places(p) : OpenOrder[p][k] = <<p, q>>
  BY <1>1
<1>3. Met(p, k) /\ OtherEnd(p, <<p, q>>) = q
  BY <1>1 DEF OpenedMet, OtherEnd
<1>4. q \in Launched /\ <<p, q>> \in Opens(q)
  BY <1>2, <1>3 DEF Met
<1>5. PICK j \in Places(q) : OpenOrder[q][j] = <<p, q>>
  BY <1>4 DEF Opens
<1> DEFINE i == j \div 2
<1>6. j # 1
  BY <1>1, <1>5, PlaceFacts
<1>7. i \in Calls(q) /\ j \in Nat
  <2>1. Places(q) = {m \in DOMAIN OpenOrder[q] :
                       IF m = 1 THEN MinetIsModuleMonitored(Configs[config], q)
                       ELSE m \div 2 \in Calls(q)}
    BY <1>1 DEF Places, OpensMade, Calls
  <2> QED
    BY <1>1, <1>6, <2>1, ConfigFacts
<1>8. j = 2 * i \/ j = 2 * i + 1
  BY <1>7, Halves
<1>9. i \in DOMAIN Connections[q]
  BY <1>1, <1>7, ConfigFacts
<1> HIDE DEF i
<1> DEFINE m == Connections[q][i].module
<1>10. OpenOrder[q][j] \in {Upward(q, m), Downward(q, m)}
  BY <1>1, <1>8, <1>9, PlaceFacts
<1>11. m = p
  <2>1. OpenOrder[q][j] \in {<<q, m>>, <<m, q>>}
    BY <1>10 DEF Upward, Downward
  <2> QED
    BY <1>1, <1>5, <2>1
<1> QED
  BY <1>4, <1>7, <1>11 DEF HasHandle

-----------------------------------------------------------------------------
(* What is left of a handler, and whom sock_module never talks to.         *)
AppCall  == <<Data("sock_module"), Await("sock_module")>>
AppTodos == {<<>>, AppCall, <<Await("sock_module")>>}
ToOthers == {x \in Sends : x.module # "ipother_module"}

TodosOf(p) == IF p = "ip_module" THEN IpTodos
              ELSE IF p = "app" THEN AppTodos
              ELSE IF p = "sock_module" THEN Seq(ToOthers)
              ELSE IF p \in {"ipother_module", "monitor"} THEN {<<>>}
              ELSE Seq(Sends)

\* sock_module connects to ipother_module and never sends it anything.
Silent(f) == \/ f = <<"ipother_module", "sock_module">>
             \/ f = <<"sock_module", "ipother_module">>

TodosKnown == /\ \A p \in Launched : todo[p] \in TodosOf(p)
              /\ \A f \in Fifos : Silent(f) => pipe[f] = <<>>

LEMMA Kinds ==
  ASSUME [Next]_vars
  PROVE  /\ config' = config
         /\ \/ UNCHANGED <<pipe, todo>>
            \/ \E p \in Launched : Handle(p) \/ NoHandle(p) \/ MinetSend(p)
                                     \/ MinetReceive(p) \/ Begin(p)
BY DEF vars, Next, Runs, OpenNext, MinetSendToMonitor, GiveUp, AllOpen, Handle, NoHandle, MinetSend, MinetReceive,
       Die, Begin, HitEnter, Quit

LEMMA TailsKnown ==
  ASSUME NEW p, NEW t \in TodosOf(p), t # <<>>
  PROVE  Tail(t) \in TodosOf(p)
<1>1. \A x, y, z : /\ Tail(<<x>>) = <<>> /\ Tail(<<x, y>>) = <<y>>
                   /\ Tail(<<x, y, z>>) = <<y, z>>
  OBVIOUS
<1>2. CASE p = "ip_module"
  <2> DEFINE a == Data("arp_module")
             w == Await("arp_module")
             e == Data("ethernet_mux")
  <2>1. t \in {<<Data("ip_mux")>>, <<e>>, <<a, w>>, <<a, w, e>>, <<w>>, <<w, e>>}
    BY <1>2, Zenon DEF TodosOf, IpTodos, AskArp
  <2>2. /\ Tail(<<Data("ip_mux")>>) = <<>> /\ Tail(<<e>>) = <<>> /\ Tail(<<a, w>>) = <<w>>
        /\ Tail(<<a, w, e>>) = <<w, e>> /\ Tail(<<w>>) = <<>> /\ Tail(<<w, e>>) = <<e>>
    BY <1>1, Zenon
  <2>3. Tail(t) \in {<<>>, <<w>>, <<w, e>>, <<e>>}
    BY <2>1, <2>2, Zenon
  <2> QED
    BY <1>2, <2>3, Zenon DEF TodosOf, IpTodos
<1>3. CASE p = "app"
  BY <1>1, <1>3, Zenon DEF TodosOf, AppTodos, AppCall
<1>4. CASE p = "sock_module"
  <2>1. t \in Seq(ToOthers)
    BY <1>4 DEF TodosOf
  <2>2. Tail(t) \in Seq(ToOthers)
    BY <2>1
  <2> QED
    BY <1>4, <2>2 DEF TodosOf
<1>5. CASE p \notin {"ip_module", "app", "sock_module", "ipother_module", "monitor"}
  <2>1. t \in Seq(Sends)
    BY <1>5 DEF TodosOf
  <2>2. Tail(t) \in Seq(Sends)
    BY <2>1
  <2> QED
    BY <1>5, <2>2 DEF TodosOf
<1> QED
  BY <1>2, <1>3, <1>4, <1>5 DEF TodosOf

LEMMA HandledScripts ==
  ASSUME NEW p \in Module, p # "app", NEW q \in Module, NEW type,
         p = "sock_module" => q # "ipother_module",
         p = "ipother_module" => q = "ip_mux"
  PROVE  Scripts(p, q, type) \subseteq TodosOf(p)
<1>1. CASE p = "ip_module"
  BY <1>1, ScriptsKnown DEF TodosOf
<1>2. CASE p = "sock_module"
  <2>1. Scripts(p, q, type) = SockScripts(q, type)
    BY <1>2 DEF Scripts
  <2>2. SockSends(q) \subseteq ToOthers
    BY <1>2 DEF SockSends, ToOthers
  <2>3. Seq(SockSends(q)) \subseteq Seq(ToOthers)
    BY <2>2
  <2>4. SockScripts(q, type) \subseteq Seq(SockSends(q))
    BY SockScriptsPlain
  <2> QED
    BY <1>2, <2>1, <2>3, <2>4 DEF TodosOf
<1>3. CASE p \in {"ipother_module", "monitor"}
  BY <1>3 DEF Scripts, IpOtherScripts, TodosOf
<1>4. CASE p \notin {"ip_module", "sock_module", "ipother_module", "monitor"}
  BY <1>4, ScriptsKnown DEF TodosOf
<1> QED
  BY <1>1, <1>2, <1>3, <1>4

LEMMA TodosStep == TypeOK /\ TodosKnown /\ [Next]_vars => TodosKnown'
<1> SUFFICES ASSUME TypeOK, TodosKnown, [Next]_vars PROVE TodosKnown'
  OBVIOUS
<1>1. /\ config \in DOMAIN Configs /\ Launched \subseteq Module
      /\ todo \in [Launched -> Seq(Step)] /\ DOMAIN pipe = Fifos
  BY ConfigFacts DEF TypeOK
<1>2. /\ \A r \in Launched : todo[r] \in TodosOf(r)
      /\ \A g \in Fifos : Silent(g) => pipe[g] = <<>>
  BY DEF TodosKnown
<1> SUFFICES /\ \A r \in Launched : todo'[r] \in TodosOf(r)
             /\ \A g \in Fifos : Silent(g) => pipe'[g] = <<>>
  BY Kinds, SameConfig DEF TodosKnown
<1>3. CASE UNCHANGED <<pipe, todo>>
  BY <1>2, <1>3
<1>4. ASSUME NEW p \in Launched, Handle(p)
      PROVE  /\ \A r \in Launched : todo'[r] \in TodosOf(r)
             /\ \A g \in Fifos : Silent(g) => pipe'[g] = <<>>
  <2>1. PICK q \in Launched :
          /\ MinetGetNextEvent(p, q) /\ Serves(p, q) /\ pipe[<<q, p>>] # <<>>
          /\ pipe' = [pipe EXCEPT ![<<q, p>>] = Tail(@)]
          /\ \E script \in Scripts(p, q, Head(pipe[<<q, p>>])) :
               todo' = [todo EXCEPT ![p] = script]
    BY <1>4 DEF Handle
  <2>2. PICK script \in Scripts(p, q, Head(pipe[<<q, p>>])) :
          todo' = [todo EXCEPT ![p] = script]
    BY <2>1
  <2>3. p # "app" /\ p \in Module /\ q \in Module /\ HasHandle(p, q)
    BY <1>1, <2>1 DEF MinetGetNextEvent, HasHandle
  <2>4. \A g \in Fifos : Silent(g) => pipe'[g] = <<>>
    BY <1>1, <1>2, <2>1
  <2>5. p = "sock_module" => q # "ipother_module"
    BY <2>1 DEF Serves
  <2>6. ASSUME p = "ipother_module" PROVE q = "ip_mux"
    <3>1. q \in {"ip_mux", "sock_module"}
      <4>1. PICK i \in DOMAIN Connections[p] : q = Connections[p][i].module
        BY <2>3, ConfigFacts, <1>1 DEF HasHandle
      <4> QED
        BY <2>6, <4>1, CallLists DEF IpOtherOpens, Accept, Connect
    <3>2. <<q, p>> \in Fifos
      BY <1>1, <2>3, <2>6, HandleFifos
    <3> QED
      BY <1>2, <2>1, <2>6, <3>1, <3>2 DEF Silent
  <2>7. script \in TodosOf(p)
    BY <2>3, <2>5, <2>6, HandledScripts
  <2> QED
    BY <1>1, <1>2, <2>2, <2>4, <2>7
<1>5. ASSUME NEW p \in Launched, NoHandle(p) \/ MinetSend(p) \/ MinetReceive(p)
      PROVE  \A r \in Launched : todo'[r] \in TodosOf(r)
  <2>1. todo' = [todo EXCEPT ![p] = Tail(@)] /\ todo[p] # <<>>
    BY <1>5 DEF NoHandle, MinetSend, MinetReceive, InStep, Waits
  <2>2. Tail(todo[p]) \in TodosOf(p)
    BY <1>2, <2>1, TailsKnown
  <2> QED
    BY <1>1, <1>2, <2>1, <2>2
<1>6. ASSUME NEW p \in Launched, MinetSend(p)
      PROVE  \A g \in Fifos : Silent(g) => pipe'[g] = <<>>
  <2>1. /\ todo[p] # <<>> /\ todo[p] \in TodosOf(p)
        /\ pipe' = [pipe EXCEPT ![<<p, Peer(p)>>] = Append(@, todo[p][1].type)]
    BY <1>2, <1>6 DEF MinetSend, InStep, Waits
  <2>2. ~Silent(<<p, Peer(p)>>)
    <3>1. p # "ipother_module"
      BY <2>1 DEF TodosOf
    <3>2. ASSUME p = "sock_module" PROVE Peer(p) # "ipother_module"
      <4>1. todo[p] \in Seq(ToOthers)
        BY <2>1, <3>2 DEF TodosOf
      <4>2. todo[p][1] \in ToOthers
        BY <2>1, <4>1
      <4> QED
        BY <4>2 DEF ToOthers, Peer
    <3> QED
      BY <3>1, <3>2 DEF Silent
  <2> QED
    BY <1>1, <1>2, <2>1, <2>2
<1>7. ASSUME NEW p \in Launched, NoHandle(p) \/ MinetReceive(p)
      PROVE  \A g \in Fifos : Silent(g) => pipe'[g] = <<>>
  <2>1. \/ pipe' = pipe
        \/ /\ pipe[<<Peer(p), p>>] # <<>>
           /\ pipe' = [pipe EXCEPT ![<<Peer(p), p>>] = Tail(@)]
    BY <1>7 DEF NoHandle, MinetReceive
  <2> QED
    BY <1>1, <1>2, <2>1
<1>8. ASSUME NEW p \in Launched, Begin(p)
      PROVE  /\ \A r \in Launched : todo'[r] \in TodosOf(r)
             /\ \A g \in Fifos : Silent(g) => pipe'[g] = <<>>
  <2>1. p \in DOMAIN Outside /\ pipe' = pipe
    BY <1>8 DEF Begin
  <2>2. PICK script \in Outside[p] : todo' = [todo EXCEPT ![p] = script]
    BY <1>8 DEF Begin
  <2>3. script \in TodosOf(p)
    BY <2>1, <2>2, OutsideKnown, Zenon DEF TodosOf, AppTodos, AppCall
  <2> QED
    BY <1>1, <1>2, <2>1, <2>2, <2>3
<1> QED
  BY <1>3, <1>4, <1>5, <1>6, <1>7, <1>8, Kinds

-----------------------------------------------------------------------------
(* The question of ip_module.                                              *)
ArpLinked == /\ "ip_module" \in Launched /\ "arp_module" \in Launched
             /\ HasHandle("ip_module", "arp_module")
             /\ HasHandle("arp_module", "ip_module")

AwaitsArp == todo["ip_module"] # <<>> /\ todo["ip_module"][1] = Await("arp_module")

\* While ip_module waits, its question, the handler that answers it, or the answer
\* is under way.
ArpAnswers ==
  ArpLinked /\ AwaitsArp =>
    \/ pipe[<<"ip_module", "arp_module">>] # <<>>
    \/ todo["arp_module"] # <<>> /\ todo["arp_module"][1] = Answer("ip_module")
    \/ pipe[<<"arp_module", "ip_module">>] # <<>>

LEMMA IpSteps ==
  /\ \A q : \A t \in IpScripts(q) : t # <<>> => t[1].do = "send"
  /\ \A t \in IpTodos : t # <<>> /\ t[1].do = "await" => t[1] = Await("arp_module")
  /\ \A t \in IpTodos :
       t # <<>> /\ Tail(t) # <<>> /\ Tail(t)[1] = Await("arp_module")
         => t[1] = Data("arp_module")
<1> DEFINE a == Data("arp_module")
           w == Await("arp_module")
           e == Data("ethernet_mux")
           m == Data("ip_mux")
<1>1. /\ a.do = "send" /\ e.do = "send" /\ m.do = "send" /\ w.do = "await"
      /\ a.module = "arp_module" /\ w.module = "arp_module"
  BY StepFacts, ModuleNames
<1>2. IpTodos = {<<>>, <<m>>, <<e>>, <<a, w>>, <<a, w, e>>, <<w>>, <<w, e>>}
  BY DEF IpTodos, AskArp
<1>3. \A q : IpScripts(q) \subseteq {<<>>, <<m>>, <<a, w>>, <<a, w, e>>}
  <2>1. AskArp \o <<e>> = <<a, w, e>>
    <3>1. a \in Step /\ w \in Step /\ e \in Step
      BY StepFacts, ModuleNames
    <3> QED
      BY <3>1, ThreeJoined, Zenon DEF AskArp
  <2> QED
    BY <2>1, Zenon DEF IpScripts, SendPacket, AskArp
<1> HIDE DEF a, w, e, m
<1>4. /\ <<m>>[1] = m /\ <<e>>[1] = e /\ <<a, w>>[1] = a /\ <<a, w, e>>[1] = a
      /\ <<w>>[1] = w /\ <<w, e>>[1] = w
  OBVIOUS
<1>5. /\ Tail(<<m>>) = <<>> /\ Tail(<<e>>) = <<>> /\ Tail(<<w>>) = <<>>
      /\ Tail(<<w, e>>) = <<e>> /\ <<e>>[1] # w
  BY <1>1
<1>6. \A q : \A t \in IpScripts(q) : t # <<>> => t[1].do = "send"
  BY <1>1, <1>3, <1>4
<1>7. \A t \in IpTodos : t # <<>> /\ t[1].do = "await" => t[1] = w
  <2> TAKE t \in IpTodos
  <2>1. t \in {<<>>, <<m>>, <<e>>, <<a, w>>, <<a, w, e>>, <<w>>, <<w, e>>}
    BY <1>2
  <2>2. t = <<>> \/ t[1] \in {m, e, a} \/ t[1] = w
    BY <1>4, <2>1, Zenon
  <2> QED
    BY <1>1, <2>2
<1>8. \A t \in IpTodos : t # <<>> /\ Tail(t) # <<>> /\ Tail(t)[1] = w => t[1] = a
  <2> TAKE t \in IpTodos
  <2>1. t \in {<<>>, <<m>>, <<e>>, <<a, w>>, <<a, w, e>>, <<w>>, <<w, e>>}
    BY <1>2
  <2>2. \/ t = <<>> \/ Tail(t) = <<>> \/ Tail(t)[1] # w
        \/ t[1] = a
    BY <1>4, <1>5, <2>1, Zenon
  <2> QED
    BY <2>2
<1> QED
  BY <1>6, <1>7, <1>8 DEF a, w

LEMMA ArpStep == TypeOK /\ TodosKnown /\ ArpAnswers /\ [Next]_vars => ArpAnswers'
<1> SUFFICES ASSUME TypeOK, TodosKnown, ArpAnswers, [Next]_vars, ArpLinked, AwaitsArp'
             PROVE  \/ pipe'[<<"ip_module", "arp_module">>] # <<>>
                    \/ todo'["arp_module"] # <<>> /\ todo'["arp_module"][1] = Answer("ip_module")
                    \/ pipe'[<<"arp_module", "ip_module">>] # <<>>
  BY Kinds, SameConfig DEF ArpAnswers, ArpLinked
<1> DEFINE I == "ip_module"
           A == "arp_module"
           Goal == \/ pipe'[<<I, A>>] # <<>>
                   \/ todo'[A] # <<>> /\ todo'[A][1] = Answer(I)
                   \/ pipe'[<<A, I>>] # <<>>
<1>1. /\ config \in DOMAIN Configs /\ Launched \subseteq Module
      /\ todo \in [Launched -> Seq(Step)] /\ DOMAIN pipe = Fifos
      /\ pipe \in [Fifos -> Seq({"data", "answer"})]
  BY ConfigFacts DEF TypeOK
<1>2. /\ I \in Launched /\ A \in Launched /\ HasHandle(I, A) /\ HasHandle(A, I)
      /\ <<I, A>> \in Fifos /\ <<A, I>> \in Fifos
  <2>1. I \in Launched /\ A \in Launched /\ HasHandle(I, A) /\ HasHandle(A, I)
    BY DEF ArpLinked
  <2> QED
    BY <1>1, <2>1, HandleFifos
<1>3. todo[I] \in IpTodos /\ todo[A] \in Seq(Sends)
  BY <1>2 DEF TodosKnown, TodosOf
<1>4. todo'[I] # <<>> /\ todo'[I][1] = Await(A)
  BY DEF AwaitsArp
<1>5. AwaitsArp => \/ pipe[<<I, A>>] # <<>>
                   \/ todo[A] # <<>> /\ todo[A][1] = Answer(I)
                   \/ pipe[<<A, I>>] # <<>>
  BY DEF ArpAnswers
<1>6. /\ Data(A).module = A /\ Data(A).do = "send" /\ Await(A).do = "await"
      /\ Await(A).module = A /\ Answer(I).module = I /\ Answer(I).do = "send"
  BY StepFacts, ModuleNames
<1>7. \A f \in Fifos, x \in {"data", "answer"} : Append(pipe[f], x) # <<>>
  <2>1. \A t \in Seq({"data", "answer"}), x \in {"data", "answer"} : Append(t, x) # <<>>
    OBVIOUS
  <2> QED
    BY <1>1, <2>1
<1>8. CASE UNCHANGED <<pipe, todo>>
  BY <1>4, <1>5, <1>8 DEF AwaitsArp
<1>9. ASSUME NEW p \in Launched, Handle(p)
      PROVE  Goal
  <2>1. PICK q \in Launched :
          /\ MinetGetNextEvent(p, q) /\ pipe[<<q, p>>] # <<>>
          /\ pipe' = [pipe EXCEPT ![<<q, p>>] = Tail(@)]
          /\ \E script \in Scripts(p, q, Head(pipe[<<q, p>>])) :
               todo' = [todo EXCEPT ![p] = script]
    BY <1>9 DEF Handle
  <2>2. PICK script \in Scripts(p, q, Head(pipe[<<q, p>>])) :
          todo' = [todo EXCEPT ![p] = script]
    BY <2>1
  <2>3. p # I
    <3> SUFFICES ASSUME p = I PROVE FALSE
      OBVIOUS
    <3>1. script \in IpScripts(q)
      BY <2>2 DEF Scripts
    <3>2. todo'[I] = script
      BY <1>1, <1>2, <2>2
    <3> QED
      BY <1>4, <1>6, <3>1, <3>2, IpSteps
  <2>4. AwaitsArp
    BY <1>1, <1>2, <1>4, <2>2, <2>3 DEF AwaitsArp
  <2>5. CASE p # A
    BY <1>1, <1>2, <1>5, <2>1, <2>2, <2>3, <2>4, <2>5
  <2>6. CASE p = A /\ q # I
    <3>1. todo[A] = <<>>
      BY <2>1, <2>6 DEF MinetGetNextEvent, IsIdle
    <3>2. pipe'[<<I, A>>] = pipe[<<I, A>>] /\ pipe'[<<A, I>>] = pipe[<<A, I>>]
      BY <1>1, <1>2, <2>1, <2>6
    <3> QED
      BY <1>5, <2>4, <3>1, <3>2
  <2>7. CASE p = A /\ q = I
    <3>1. script \in ArpScripts(I)
      BY <2>2, <2>7 DEF Scripts
    <3>2. script \in {<<Answer(I)>>, <<Answer(I), Data("ethernet_mux")>>}
      BY <3>1 DEF ArpScripts
    <3>3. script # <<>> /\ script[1] = Answer(I)
      BY <3>2
    <3> QED
      BY <1>1, <1>2, <2>2, <2>7, <3>3
  <2> QED
    BY <2>5, <2>6, <2>7
<1>10. ASSUME NEW p \in Launched, MinetSend(p)
       PROVE  Goal
  <2>1. /\ todo[p] # <<>> /\ todo[p][1].do = "send"
        /\ pipe' = [pipe EXCEPT ![<<p, Peer(p)>>] = Append(@, todo[p][1].type)]
        /\ todo' = [todo EXCEPT ![p] = Tail(@)]
        /\ todo[p][1].type \in {"data", "answer"}
    BY <1>10, WaitsFor DEF MinetSend, InStep, Waits
  <2>2. CASE p = I
    <3>1. Tail(todo[I]) # <<>> /\ Tail(todo[I])[1] = Await(A)
      BY <1>1, <1>2, <1>4, <2>1, <2>2
    <3>2. todo[I][1] = Data(A)
      BY <1>3, <2>1, <2>2, <3>1, IpSteps
    <3>3. Peer(I) = A
      BY <1>6, <3>2 DEF Peer
    <3>4. pipe'[<<I, A>>] # <<>>
      BY <1>1, <1>2, <1>7, <2>1, <2>2, <3>3
    <3> QED
      BY <3>4
  <2>3. CASE p # I
    <3>1. AwaitsArp
      BY <1>1, <1>2, <1>4, <2>1, <2>3 DEF AwaitsArp
    <3>2. \A f \in Fifos : pipe[f] # <<>> => pipe'[f] # <<>>
      BY <1>1, <1>7, <2>1
    <3>3. CASE p = A /\ todo[A][1] = Answer(I)
      <4>1. Peer(A) = I
        BY <1>6, <3>3 DEF Peer
      <4>2. pipe'[<<A, I>>] # <<>>
        BY <1>1, <1>2, <1>7, <2>1, <3>3, <4>1
      <4> QED
        BY <4>2
    <3>4. CASE p = A /\ todo[A][1] # Answer(I)
      BY <1>2, <1>5, <3>1, <3>2, <3>4
    <3>5. CASE p # A
      BY <1>1, <1>2, <1>5, <2>1, <3>1, <3>2, <3>5
    <3> QED
      BY <3>3, <3>4, <3>5
  <2> QED
    BY <2>2, <2>3
<1>11. ASSUME NEW p \in Launched, MinetReceive(p)
       PROVE  Goal
  <2>1. /\ todo[p] # <<>> /\ todo[p][1].do = "await"
        /\ pipe' = [pipe EXCEPT ![<<Peer(p), p>>] = Tail(@)]
        /\ todo' = [todo EXCEPT ![p] = Tail(@)]
    BY <1>11 DEF MinetReceive, InStep, Waits
  <2>2. p # A
    <3>1. todo[A] # <<>> => todo[A][1].do = "send"
      <4>1. todo[A] # <<>> => todo[A][1] \in Sends
        BY <1>3
      <4> QED
        BY <4>1 DEF Sends
    <3> QED
      BY <2>1, <3>1
  <2>3. p # I
    <3> SUFFICES ASSUME p = I PROVE FALSE
      OBVIOUS
    <3>1. Tail(todo[I]) # <<>> /\ Tail(todo[I])[1] = Await(A)
      BY <1>1, <1>2, <1>4, <2>1
    <3>2. todo[I][1] = Data(A)
      BY <1>3, <2>1, <3>1, IpSteps
    <3> QED
      BY <1>6, <2>1, <3>2
  <2>4. AwaitsArp
    BY <1>1, <1>2, <1>4, <2>1, <2>3 DEF AwaitsArp
  <2> QED
    BY <1>1, <1>2, <1>5, <2>1, <2>2, <2>3, <2>4
<1>12. ASSUME NEW p \in Launched, NoHandle(p)
       PROVE  Goal
  <2>1. /\ todo[p] # <<>> /\ ~HasHandle(p, Peer(p)) /\ pipe' = pipe
        /\ todo' = [todo EXCEPT ![p] = Tail(@)]
    BY <1>12 DEF NoHandle, Waits
  <2>2. p # I
    <3> SUFFICES ASSUME p = I PROVE FALSE
      OBVIOUS
    <3>1. Tail(todo[I]) # <<>> /\ Tail(todo[I])[1] = Await(A)
      BY <1>1, <1>2, <1>4, <2>1
    <3>2. todo[I][1] = Data(A)
      BY <1>3, <2>1, <3>1, IpSteps
    <3> QED
      BY <1>2, <1>6, <2>1, <3>2 DEF Peer
  <2>3. AwaitsArp
    BY <1>1, <1>2, <1>4, <2>1, <2>2 DEF AwaitsArp
  <2>4. p = A => todo[A][1] # Answer(I)
    BY <1>2, <1>6, <2>1 DEF Peer
  <2> QED
    BY <1>1, <1>2, <1>5, <2>1, <2>2, <2>3, <2>4
<1>13. ASSUME NEW p \in Launched, Begin(p)
       PROVE  Goal
  <2>1. p # I /\ p # A /\ pipe' = pipe /\ \E s : todo' = [todo EXCEPT ![p] = s]
    BY <1>13, OutsideKnown DEF Begin
  <2>2. AwaitsArp
    BY <1>1, <1>2, <1>4, <2>1 DEF AwaitsArp
  <2> QED
    BY <1>1, <1>2, <1>5, <2>1, <2>2
<1> QED
  BY <1>8, <1>9, <1>10, <1>11, <1>12, <1>13, Kinds

-----------------------------------------------------------------------------
(* The calls of the application.                                           *)
AppLinked == /\ "app" \in Launched /\ "sock_module" \in Launched
             /\ HasHandle("app", "sock_module") /\ HasHandle("sock_module", "app")

\* How often the steps s tell the application something: never, or at most once.
NeverTells(s) == \A i \in 1..Len(s) : s[i].module # "app"
TellsOnce(s)  == \A i, j \in 1..Len(s) :
                   s[i].module = "app" /\ s[j].module = "app" => i = j

\* The application makes one call at a time: a is what is left of its handler, up
\* and down are the FIFOs to and from sock_module, s what sock_module still does.
NotAsking(a, up, down, s) ==
  a \in AppTodos /\ up = <<>> /\ down = <<>> /\ NeverTells(s)
Asked(a, up, down, s) ==
  a = <<Await("sock_module")>> /\ Len(up) = 1 /\ down = <<>> /\ NeverTells(s)
Asking(a, up, down, s) ==
  a = <<Await("sock_module")>> /\ up = <<>> /\ down = <<>> /\ TellsOnce(s)
Told(a, up, down, s) ==
  a = <<Await("sock_module")>> /\ up = <<>> /\ Len(down) = 1 /\ NeverTells(s)

OneCall(a, up, down, s) == \/ NotAsking(a, up, down, s) \/ Asked(a, up, down, s)
                           \/ Asking(a, up, down, s) \/ Told(a, up, down, s)

CallsInTurn ==
  AppLinked => OneCall(todo["app"], pipe[<<"app", "sock_module">>],
                       pipe[<<"sock_module", "app">>], todo["sock_module"])

LEMMA TellTails ==
  ASSUME NEW S, NEW s \in Seq(S), s # <<>>
  PROVE  /\ NeverTells(s) => NeverTells(Tail(s)) /\ s[1].module # "app"
         /\ TellsOnce(s) => TellsOnce(Tail(s))
         /\ TellsOnce(s) /\ s[1].module = "app" => NeverTells(Tail(s))
<1> DEFINE t == Tail(s)
           n == Len(s)
<1>1. /\ n \in Nat /\ n >= 1 /\ Len(t) = n - 1 /\ \A i \in 1..(n - 1) : t[i] = s[i + 1]
  OBVIOUS
<1> HIDE DEF t, n
<1>2. ASSUME NEW i \in 1..Len(t)
      PROVE  i + 1 \in 1..n /\ i + 1 # 1 /\ t[i] = s[i + 1] /\ 1 \in 1..n
  BY <1>1
<1>3. ASSUME NeverTells(s) PROVE NeverTells(t) /\ s[1].module # "app"
  BY <1>1, <1>2, <1>3 DEF NeverTells, n
<1>4. ASSUME TellsOnce(s) PROVE TellsOnce(t)
  <2>1. ASSUME NEW i \in 1..Len(t), NEW j \in 1..Len(t),
               t[i].module = "app", t[j].module = "app"
        PROVE  i = j
    <3>1. i + 1 = j + 1
      BY <1>2, <1>4, <2>1 DEF TellsOnce, n
    <3> QED
      BY <1>1, <3>1
  <2> QED
    BY <2>1 DEF TellsOnce
<1>5. ASSUME TellsOnce(s), s[1].module = "app" PROVE NeverTells(t)
  BY <1>2, <1>5 DEF TellsOnce, NeverTells, n
<1> QED
  BY <1>3, <1>4, <1>5 DEF t

LEMMA FewTells ==
  ASSUME NEW x, NEW y
  PROVE  /\ NeverTells(<<>>) /\ TellsOnce(<<>>) /\ TellsOnce(<<x>>)
         /\ x.module # "app" => NeverTells(<<x>>)
         /\ x.module # "app" \/ y.module # "app" => TellsOnce(<<x, y>>)
<1>1. NeverTells(<<>>) /\ TellsOnce(<<>>)
  BY DEF NeverTells, TellsOnce
<1>2. TellsOnce(<<x>>) /\ (x.module # "app" => NeverTells(<<x>>))
  BY DEF NeverTells, TellsOnce
<1>3. x.module # "app" \/ y.module # "app" => TellsOnce(<<x, y>>)
  <2>1. Len(<<x, y>>) = 2 /\ <<x, y>>[1] = x /\ <<x, y>>[2] = y /\ 1..2 = {1, 2}
    OBVIOUS
  <2> QED
    BY <2>1 DEF TellsOnce
<1> QED
  BY <1>1, <1>2, <1>3

LEMMA SockTells ==
  ASSUME NEW q \in Module, NEW type, NEW s \in SockScripts(q, type)
  PROVE  TellsOnce(s) /\ (q # "app" /\ ~AppWaits => NeverTells(s))
<1>1. /\ \A r \in Module : Data(r).module = r /\ Answer(r).module = r
      /\ Answer("app") \in Sends /\ Answer(q) \in Sends
  BY StepFacts, ModuleNames
<1>2. CASE q = "app"
  <2>1. \/ s = <<Answer(q)>>
        \/ \E r \in {"tcp_module", "udp_module"} :
             s = <<Data(r)>> \/ s = <<Data(r), Answer(q)>>
    BY <1>2, Zenon DEF SockScripts
  <2>2. CASE s = <<Answer(q)>>
    BY <1>2, <2>2, FewTells
  <2>3. ASSUME NEW r \in {"tcp_module", "udp_module"},
               s = <<Data(r)>> \/ s = <<Data(r), Answer(q)>>
        PROVE  TellsOnce(s)
    <3>1. Data(r).module # "app"
      BY <1>1, ModuleNames
    <3> QED
      BY <2>3, <3>1, FewTells, Zenon
  <2> QED
    BY <1>2, <2>1, <2>2, <2>3
<1>3. CASE q # "app"
  <2> DEFINE tells == <<Answer("app")>>
  <2>1. s = <<Answer(q)>> \/ s = <<>> \/ (AppWaits /\ (s = tells \/ s = tells \o <<Answer(q)>>))
    <3>1. \A tell \in TellApp : tell = <<>> \/ (AppWaits /\ tell = tells)
      BY DEF TellApp
    <3>2. <<>> \o <<Answer(q)>> = <<Answer(q)>>
      OBVIOUS
    <3>3. \/ s \in TellApp \/ s = <<Answer(q)>>
          \/ \E tell \in TellApp : s = tell \o <<Answer(q)>>
      BY <1>3, Zenon DEF SockScripts
    <3> QED
      BY <3>1, <3>2, <3>3, Zenon
  <2>2. tells \o <<Answer(q)>> = <<Answer("app"), Answer(q)>>
    BY <1>1, TwoJoined, Zenon
  <2>3. Answer(q).module # "app"
    BY <1>1, <1>3
  <2>4. TellsOnce(s)
    BY <2>1, <2>2, <2>3, FewTells, Zenon
  <2>5. ~AppWaits => NeverTells(s)
    BY <2>1, <2>3, FewTells, Zenon
  <2> QED
    BY <2>4, <2>5
<1> QED
  BY <1>2, <1>3

LEMMA CallsStep == TypeOK /\ TodosKnown /\ CallsInTurn /\ [Next]_vars => CallsInTurn'
<1> SUFFICES ASSUME TypeOK, TodosKnown, CallsInTurn, [Next]_vars
             PROVE  CallsInTurn'
  OBVIOUS
<1> SUFFICES ASSUME AppLinked
             PROVE  OneCall(todo'["app"], pipe'[<<"app", "sock_module">>],
                            pipe'[<<"sock_module", "app">>], todo'["sock_module"])
  <2>1. config' = config
    BY Kinds
  <2>2. AppLinked' <=> AppLinked
    BY <2>1 DEF AppLinked, HasHandle, Calls, Launched
  <2> QED
    BY <2>2 DEF CallsInTurn
<1> DEFINE P == "app"
           K == "sock_module"
           Aw == <<Await(K)>>
           a == todo[P]
           s == todo[K]
           up == pipe[<<P, K>>]
           down == pipe[<<K, P>>]
           a2 == todo'[P]
           s2 == todo'[K]
           up2 == pipe'[<<P, K>>]
           down2 == pipe'[<<K, P>>]
           Goal == OneCall(a2, up2, down2, s2)
<1>1. /\ config \in DOMAIN Configs /\ Launched \subseteq Module
      /\ todo \in [Launched -> Seq(Step)] /\ DOMAIN pipe = Fifos
      /\ pipe \in [Fifos -> Seq({"data", "answer"})]
  BY ConfigFacts DEF TypeOK
<1>2. /\ P \in Launched /\ K \in Launched /\ HasHandle(P, K) /\ HasHandle(K, P)
      /\ <<P, K>> \in Fifos /\ <<K, P>> \in Fifos
  <2>1. P \in Launched /\ K \in Launched /\ HasHandle(P, K) /\ HasHandle(K, P)
    BY DEF AppLinked
  <2> QED
    BY <1>1, <2>1, HandleFifos
<1>3. a \in AppTodos /\ s \in Seq(ToOthers)
  BY <1>2 DEF TodosKnown, TodosOf
<1>4. OneCall(a, up, down, s)
  BY DEF CallsInTurn
<1>5. /\ Data(K).do = "send" /\ Await(K).do = "await" /\ Data(K).module = K
      /\ Await(K).module = K
  BY StepFacts, ModuleNames
<1>6. /\ AppCall # <<>> /\ AppCall[1] = Data(K) /\ Tail(AppCall) = Aw
      /\ Aw # <<>> /\ Aw[1] = Await(K) /\ Tail(Aw) = <<>> /\ AppCall # Aw
      /\ Head(AppCall) = Data(K)
  <2>1. /\ AppCall # <<>> /\ AppCall[1] = Data(K) /\ Tail(AppCall) = Aw
        /\ Aw # <<>> /\ Aw[1] = Await(K) /\ Tail(Aw) = <<>> /\ Head(AppCall) = Data(K)
    BY DEF AppCall
  <2> QED
    BY <1>5, <2>1
<1>7. /\ up \in Seq({"data", "answer"}) /\ down \in Seq({"data", "answer"})
      /\ \A x : Len(x) = 1 => x # <<>>
      /\ \A x \in Seq({"data", "answer"}) : Len(x) = 1 => Tail(x) = <<>>
      /\ \A x \in {"data", "answer"} : Len(Append(<<>>, x)) = 1
  <2>1. up \in Seq({"data", "answer"}) /\ down \in Seq({"data", "answer"})
    BY <1>1, <1>2
  <2>2. /\ \A x : Len(x) = 1 => x # <<>>
        /\ \A x \in {"data", "answer"} : Len(Append(<<>>, x)) = 1
    OBVIOUS
  <2>3. ASSUME NEW x \in Seq({"data", "answer"}), Len(x) = 1
        PROVE  Tail(x) = <<>>
    <3>1. Tail(x) \in Seq({"data", "answer"}) /\ Len(Tail(x)) = 0
      BY <2>3
    <3> QED
      BY <3>1, EmptySeq
  <2> QED
    BY <2>1, <2>2, <2>3
<1> SUFFICES Goal
  OBVIOUS
<1> HIDE DEF P, K, Aw, a, s, up, down, a2, s2, up2, down2
<1>8. <<>> \in AppTodos /\ AppCall \in AppTodos /\ Aw \in AppTodos
      /\ \A x \in AppTodos : x = <<>> \/ x = AppCall \/ x = Aw
  BY Zenon DEF AppTodos, Aw, K
<1>9. CASE a2 = a /\ s2 = s /\ up2 = up /\ down2 = down
  BY <1>4, <1>9
<1>10. CASE UNCHANGED <<pipe, todo>>
  <2>1. a2 = a /\ s2 = s /\ up2 = up /\ down2 = down
    BY <1>10 DEF a, s, up, down, a2, s2, up2, down2
  <2> QED
    BY <1>9, <2>1
\* A step of anybody else.
<1>11. ASSUME NEW p \in Launched, p # P, p # K,
              Handle(p) \/ NoHandle(p) \/ MinetSend(p) \/ MinetReceive(p) \/ Begin(p)
       PROVE  Goal
  <2>1. a2 = a /\ s2 = s
    <3>1. \E x : todo' = [todo EXCEPT ![p] = x]
      BY <1>11 DEF Handle, NoHandle, MinetSend, MinetReceive, Begin
    <3> QED
      BY <1>1, <1>2, <1>11, <3>1 DEF a, s, a2, s2
  <2>2. up2 = up /\ down2 = down
    <3>1. \/ pipe' = pipe \/ \E q, x : pipe' = [pipe EXCEPT ![<<q, p>>] = x]
          \/ \E q, x : pipe' = [pipe EXCEPT ![<<p, q>>] = x]
      BY <1>11 DEF Handle, NoHandle, MinetSend, MinetReceive, Begin
    <3> QED
      BY <1>1, <1>2, <1>11, <3>1 DEF up, down, up2, down2
  <2> QED
    BY <1>9, <2>1, <2>2
\* A step of the application.
<1>12. ASSUME Handle(P) \/ NoHandle(P) \/ MinetSend(P) \/ MinetReceive(P) \/ Begin(P)
       PROVE  Goal
  <2>1. P # K
    BY DEF P, K
  <2>2. CASE Handle(P)
    BY <2>2 DEF Handle, MinetGetNextEvent, P
  <2>3. CASE NoHandle(P)
    <3>1. a = AppCall \/ a = Aw
      BY <1>3, <1>8, <2>3 DEF NoHandle, Waits, a
    <3>2. Peer(P) = K
      BY <1>5, <1>6, <3>1 DEF Peer, a
    <3> QED
      BY <1>2, <2>3, <3>2 DEF NoHandle
  <2>4. CASE MinetSend(P)
    <3>1. /\ a # <<>> /\ a[1].do = "send" /\ todo' = [todo EXCEPT ![P] = Tail(@)]
          /\ pipe' = [pipe EXCEPT ![<<P, Peer(P)>>] = Append(@, todo[P][1].type)]
      BY <2>4 DEF MinetSend, InStep, Waits, a
    <3>2. a = AppCall
      BY <1>3, <1>5, <1>6, <1>8, <3>1
    <3>3. Peer(P) = K
      BY <1>5, <1>6, <3>2 DEF Peer, a
    <3>4. NotAsking(a, up, down, s)
      BY <1>4, <1>6, <3>2 DEF OneCall, Asked, Asking, Told, Aw, K
    <3>5. PICK x \in {"data", "answer"} : x = todo[P][1].type
      BY <1>2, <2>4, WaitsFor DEF MinetSend, InStep
    <3>6. up2 = Append(up, x) /\ down2 = down
      BY <1>1, <1>2, <2>1, <3>1, <3>3, <3>5 DEF up, up2, down, down2
    <3>7. a2 = Aw /\ s2 = s
      BY <1>1, <1>2, <1>6, <2>1, <3>1, <3>2 DEF a, a2, s, s2
    <3>8. Len(up2) = 1
      BY <1>7, <3>4, <3>6 DEF NotAsking
    <3> QED
      BY <3>4, <3>6, <3>7, <3>8 DEF OneCall, NotAsking, Asked, Aw, K
  <2>5. CASE MinetReceive(P)
    <3>1. /\ a # <<>> /\ a[1].do = "await" /\ todo' = [todo EXCEPT ![P] = Tail(@)]
          /\ pipe' = [pipe EXCEPT ![<<Peer(P), P>>] = Tail(@)]
          /\ pipe[<<Peer(P), P>>] # <<>>
      BY <2>5 DEF MinetReceive, InStep, Waits, a
    <3>2. a = Aw
      BY <1>3, <1>5, <1>6, <1>8, <3>1
    <3>3. Peer(P) = K
      BY <1>5, <1>6, <3>2 DEF Peer, a
    <3>4. down # <<>>
      BY <3>1, <3>3 DEF down
    <3>5. Told(a, up, down, s)
      BY <1>4, <3>4 DEF OneCall, NotAsking, Asked, Asking
    <3>6. up2 = up /\ down2 = Tail(down)
      BY <1>1, <1>2, <2>1, <3>1, <3>3 DEF up, up2, down, down2
    <3>7. a2 = <<>> /\ s2 = s
      BY <1>1, <1>2, <1>6, <2>1, <3>1, <3>2 DEF a, a2, s, s2
    <3>8. down2 = <<>>
      BY <1>7, <3>5, <3>6 DEF Told
    <3> QED
      BY <1>8, <3>5, <3>6, <3>7, <3>8 DEF OneCall, Told, NotAsking
  <2>6. CASE Begin(P)
    <3>1. /\ a = <<>> /\ pipe' = pipe
          /\ \E x \in Outside[P] : todo' = [todo EXCEPT ![P] = x]
      BY <2>6 DEF Begin, IsIdle, a
    <3>2. PICK x \in Outside[P] : todo' = [todo EXCEPT ![P] = x]
      BY <3>1
    <3>3. x = AppCall
      BY <2>6, <3>2, OutsideKnown DEF Begin, P, AppCall
    <3>4. a2 = AppCall /\ s2 = s /\ up2 = up /\ down2 = down
      BY <1>1, <1>2, <2>1, <3>1, <3>2, <3>3 DEF a, a2, s, s2, up, up2, down, down2
    <3>5. NotAsking(a, up, down, s)
      BY <1>4, <1>6, <3>1 DEF OneCall, Asked, Asking, Told, Aw, K
    <3> QED
      BY <1>8, <3>4, <3>5 DEF OneCall, NotAsking
  <2> QED
    BY <1>12, <2>2, <2>3, <2>4, <2>5, <2>6
\* A step of sock_module.
<1>13. ASSUME Handle(K) \/ NoHandle(K) \/ MinetSend(K) \/ MinetReceive(K) \/ Begin(K)
       PROVE  Goal
  <2>1. P # K /\ K \in Module /\ ToOthers \subseteq Sends
    BY <1>1, <1>2 DEF P, K, ToOthers
  <2>2. ASSUME s # <<>>
        PROVE  /\ s[1].do = "send"
               /\ NeverTells(s) => NeverTells(Tail(s)) /\ s[1].module # "app"
               /\ TellsOnce(s) => TellsOnce(Tail(s))
               /\ TellsOnce(s) /\ s[1].module = "app" => NeverTells(Tail(s))
    <3>1. s[1] \in ToOthers
      BY <1>3, <2>2
    <3>2. s[1].do = "send"
      BY <2>1, <3>1 DEF Sends
    <3> QED
      BY <1>3, <2>2, <3>2, TellTails
  <2>3. CASE Handle(K)
    <3>1. PICK q \in Launched :
            /\ MinetGetNextEvent(K, q) /\ pipe[<<q, K>>] # <<>>
            /\ pipe' = [pipe EXCEPT ![<<q, K>>] = Tail(@)]
            /\ \E x \in Scripts(K, q, Head(pipe[<<q, K>>])) :
                 todo' = [todo EXCEPT ![K] = x]
      BY <2>3 DEF Handle
    <3>2. PICK x \in Scripts(K, q, Head(pipe[<<q, K>>])) : todo' = [todo EXCEPT ![K] = x]
      BY <3>1
    <3>3. x \in SockScripts(q, Head(pipe[<<q, K>>])) /\ q \in Module
      BY <1>1, <3>2 DEF Scripts, K
    <3>4. a2 = a /\ s2 = x /\ down2 = down
      BY <1>1, <1>2, <2>1, <3>1, <3>2 DEF a, a2, s, s2, down, down2
    <3>5. TellsOnce(x) /\ (q # "app" /\ ~AppWaits => NeverTells(x))
      BY <3>3, SockTells
    <3>6. CASE q = P
      <4>1. up # <<>> /\ up2 = Tail(up)
        BY <1>1, <1>2, <3>1, <3>6 DEF up, up2
      <4>2. Asked(a, up, down, s)
        BY <1>4, <4>1 DEF OneCall, NotAsking, Asking, Told
      <4>3. up2 = <<>>
        BY <1>7, <4>1, <4>2 DEF Asked
      <4> QED
        BY <3>4, <3>5, <4>2, <4>3 DEF OneCall, Asked, Asking
    <3>7. CASE q # P /\ ~AppWaits
      <4>1. up2 = up
        BY <1>1, <1>2, <2>1, <3>1, <3>7 DEF up, up2
      <4>2. NeverTells(x)
        BY <3>5, <3>7 DEF P
      <4>3. Asking(a, up, down, x) \/ NotAsking(a, up, down, x)
              \/ Asked(a, up, down, x) \/ Told(a, up, down, x)
        BY <1>4, <3>5, <4>2 DEF OneCall, NotAsking, Asked, Asking, Told
      <4> QED
        BY <3>4, <4>1, <4>3 DEF OneCall
    <3>8. CASE q # P /\ AppWaits
      <4>1. up2 = up
        BY <1>1, <1>2, <2>1, <3>1, <3>8 DEF up, up2
      <4>2. up = <<>> /\ down = <<>> /\ a # <<>> /\ Head(a).do = "await"
        BY <3>8 DEF AppWaits, up, down, a, P, K
      <4>3. a = Aw
        BY <1>3, <1>5, <1>6, <1>8, <4>2
      <4> QED
        BY <3>4, <3>5, <4>1, <4>2, <4>3 DEF OneCall, Asking, Aw, K
    <3> QED
      BY <3>6, <3>7, <3>8
  <2>4. CASE NoHandle(K)
    <3>1. /\ s # <<>> /\ pipe' = pipe /\ todo' = [todo EXCEPT ![K] = Tail(@)]
      BY <2>4 DEF NoHandle, Waits, s
    <3>2. a2 = a /\ s2 = Tail(s) /\ up2 = up /\ down2 = down
      BY <1>1, <1>2, <2>1, <3>1 DEF a, a2, s, s2, up, up2, down, down2
    <3> QED
      BY <1>4, <2>2, <3>1, <3>2 DEF OneCall, NotAsking, Asked, Asking, Told
  <2>5. CASE MinetSend(K)
    <3>1. /\ s # <<>> /\ todo' = [todo EXCEPT ![K] = Tail(@)]
          /\ pipe' = [pipe EXCEPT ![<<K, Peer(K)>>] = Append(@, todo[K][1].type)]
      BY <2>5 DEF MinetSend, InStep, Waits, s
    <3>2. a2 = a /\ s2 = Tail(s) /\ up2 = up
      BY <1>1, <1>2, <2>1, <3>1 DEF a, a2, s, s2, up, up2
    <3>3. CASE Peer(K) # P
      <4>1. down2 = down
        BY <1>1, <1>2, <2>1, <3>1, <3>3 DEF down, down2
      <4> QED
        BY <1>4, <2>2, <3>1, <3>2, <4>1 DEF OneCall, NotAsking, Asked, Asking, Told
    <3>4. CASE Peer(K) = P
      <4>1. s[1].module = "app"
        BY <3>4 DEF Peer, s, P
      <4>2. Asking(a, up, down, s)
        BY <1>4, <2>2, <3>1, <4>1 DEF OneCall, NotAsking, Asked, Told
      <4>3. PICK x \in {"data", "answer"} : x = todo[K][1].type
        BY <1>2, <2>5, WaitsFor DEF MinetSend, InStep
      <4>4. down2 = Append(down, x)
        BY <1>1, <1>2, <3>1, <3>4, <4>3 DEF down, down2
      <4>5. Len(down2) = 1
        BY <1>7, <4>2, <4>4 DEF Asking
      <4>6. NeverTells(Tail(s))
        BY <2>2, <3>1, <4>1, <4>2 DEF Asking
      <4> QED
        BY <3>2, <4>2, <4>5, <4>6 DEF OneCall, Asking, Told
    <3> QED
      BY <3>3, <3>4
  <2>6. CASE MinetReceive(K)
    <3>1. s # <<>> /\ s[1].do = "await"
      BY <2>6 DEF MinetReceive, InStep, Waits, s
    <3> QED
      BY <2>2, <3>1
  <2>7. CASE Begin(K)
    BY <2>7, OutsideKnown DEF Begin, K
  <2> QED
    BY <1>13, <2>3, <2>4, <2>5, <2>6, <2>7
<1> QED
  BY <1>10, <1>11, <1>12, <1>13, Kinds

-----------------------------------------------------------------------------
(* Being stuck.                                                            *)
StackInv == TypeOK /\ OpenedAll /\ OpenedMet /\ TodosKnown /\ ArpAnswers /\ CallsInTurn

LEMMA StuckFacts ==
  ASSUME StackInv, Stuck
  PROVE  /\ config \in DOMAIN Configs /\ Launched \subseteq Module
         /\ \A p \in Launched : /\ phase[p] = "running" /\ ~CanRun(p)
                                /\ todo[p] \in Seq(Step) /\ todo[p] \in TodosOf(p)
                                /\ Waits(p) <=> todo[p] # <<>>
                                /\ Waits(p) => FullAndWaiting(p) \/ EmptyAndWaiting(p)
         /\ \A q : ~HasEnded(q)
         /\ \A f \in Fifos : pipe[f] \in Seq({"data", "answer"})
         /\ \A p \in Launched : \A q : p # "monitor" /\ HasHandle(p, q) =>
              /\ q \in Launched /\ HasHandle(q, p) /\ q # p /\ q # "monitor"
              /\ <<p, q>> \in Fifos /\ <<q, p>> \in Fifos
<1>1. TypeOK /\ OpenedAll /\ OpenedMet /\ TodosKnown
  BY DEF StackInv
<1>2. /\ config \in DOMAIN Configs /\ Launched \subseteq Module
      /\ todo \in [Launched -> Seq(Step)] /\ pipe \in [Fifos -> Seq({"data", "answer"})]
  BY <1>1, ConfigFacts DEF TypeOK
<1>3. \A p \in Launched : phase[p] = "running" /\ ~CanRun(p)
  BY DEF Stuck
<1>4. ASSUME NEW p \in Launched
      PROVE  /\ todo[p] \in Seq(Step) /\ todo[p] \in TodosOf(p)
             /\ Waits(p) <=> todo[p] # <<>>
             /\ Waits(p) => FullAndWaiting(p) \/ EmptyAndWaiting(p)
  BY <1>1, <1>2, <1>3 DEF TodosKnown, Waits, CanRun
<1>5. \A q : ~HasEnded(q)
  BY <1>3 DEF HasEnded
<1>6. ASSUME NEW p \in Launched, NEW q, p # "monitor", HasHandle(p, q)
      PROVE  /\ q \in Launched /\ HasHandle(q, p) /\ q # p /\ q # "monitor"
             /\ <<p, q>> \in Fifos /\ <<q, p>> \in Fifos
  <2>1. \A k \in Places(p) : k <= opened[p]
    BY <1>1, <1>3 DEF OpenedAll
  <2> QED
    BY <1>1, <1>2, <1>6, <2>1, Linked, HandleFifos
<1> QED
  BY <1>2, <1>3, <1>4, <1>5, <1>6

\* Whom a message waits for, and who can still read, waits itself.
LEMMA ReaderWaits ==
  ASSUME StackInv, Stuck, NEW r \in Launched, r # "app", r # "monitor",
         NEW w, HasHandle(r, w), pipe[<<w, r>>] # <<>>
  PROVE  Waits(r)
<1> SUFFICES ASSUME todo[r] = <<>> PROVE FALSE
  BY StuckFacts
<1>1. config \in DOMAIN Configs /\ r \in Module /\ phase[r] = "running" /\ ~CanRun(r)
  BY StuckFacts
<1> DEFINE S == {i \in Calls(r) : HasEvent(r, i)}
<1>2. S # {}
  BY DEF HasHandle, HasEvent, Readable
<1>3. S \subseteq Nat
  BY <1>1, ConfigFacts, PlaceFacts
<1>4. PICK i \in S : \A j \in S : i <= j
  BY <1>2, <1>3, Least
<1> DEFINE q == Connections[r][i].module
<1>5. MinetGetNextEvent(r, q)
  <2>1. \A j \in Calls(r) : j < i => ~HasEvent(r, j)
    <3>1. \A j \in S : ~(j < i)
      BY <1>3, <1>4
    <3> QED
      BY <3>1
  <2> QED
    BY <1>1, <2>1 DEF MinetGetNextEvent, IsIdle
<1>6. HasHandle(r, q) /\ Readable(r, q)
  BY DEF HasHandle, HasEvent
<1> HIDE DEF q, S
<1>7. q \in Launched /\ <<q, r>> \in Fifos /\ pipe[<<q, r>>] # <<>>
  BY <1>6, StuckFacts DEF Readable
<1>8. Serves(r, q)
  BY <1>7 DEF Serves, StackInv, TodosKnown, Silent
<1> QED
  BY <1>1, <1>5, <1>7, <1>8 DEF CanRun

LEMMA OnlyIpWaitsEmpty ==
  ASSUME StackInv, Stuck, NEW p \in Launched, p # "app", EmptyAndWaiting(p)
  PROVE  /\ p = "ip_module" /\ "arp_module" \in Launched /\ FullAndWaiting("arp_module")
         /\ pipe[<<"arp_module", "ip_module">>] = <<>>
<1>1. /\ todo[p] # <<>> /\ todo[p][1].do = "await" /\ HasHandle(p, Peer(p))
      /\ pipe[<<Peer(p), p>>] = <<>> /\ todo[p] \in TodosOf(p)
  BY StuckFacts DEF EmptyAndWaiting, InStep, Waits
<1>2. \A r \in Launched : /\ r \notin {"app", "ip_module"} /\ todo[r] # <<>>
                          => todo[r][1].do = "send"
  <2> TAKE r \in Launched
  <2> HAVE r \notin {"app", "ip_module"} /\ todo[r] # <<>>
  <2>1. todo[r] \in Seq(ToOthers) \/ todo[r] \in Seq(Sends)
    BY StuckFacts DEF TodosOf
  <2>2. todo[r][1] \in ToOthers \/ todo[r][1] \in Sends
    BY <2>1
  <2> QED
    BY <2>2 DEF ToOthers, Sends
<1>3. p = "ip_module"
  BY <1>1, <1>2
<1>4. AwaitsArp
  BY <1>1, <1>3, IpSteps DEF AwaitsArp, TodosOf
<1>5. Peer(p) = "arp_module"
  BY <1>3, <1>4, StepFacts, ModuleNames DEF AwaitsArp, Peer
<1>6. ArpLinked /\ "arp_module" \in Launched
  BY <1>1, <1>3, <1>5, StuckFacts DEF ArpLinked
<1>7. \/ pipe[<<"ip_module", "arp_module">>] # <<>>
      \/ todo["arp_module"] # <<>>
  BY <1>1, <1>3, <1>4, <1>5, <1>6 DEF StackInv, ArpAnswers
<1>8. Waits("arp_module")
  <2>1. CASE pipe[<<"ip_module", "arp_module">>] # <<>>
    BY <1>6, <2>1, ReaderWaits DEF ArpLinked
  <2>2. CASE todo["arp_module"] # <<>>
    BY <1>6, <2>2, StuckFacts
  <2> QED
    BY <1>7, <2>1, <2>2
<1>9. ~EmptyAndWaiting("arp_module")
  <2>1. todo["arp_module"] # <<>> => todo["arp_module"][1].do = "send"
    BY <1>2, <1>6
  <2> QED
    BY <2>1 DEF EmptyAndWaiting, InStep, Waits
<1> QED
  BY <1>1, <1>3, <1>5, <1>6, <1>8, <1>9, StuckFacts

LEMMA FullNeedsFull ==
  ASSUME StackInv, Stuck, NEW w \in Launched, FullAndWaiting(w)
  PROVE  \E r \in Launched : r # w /\ FullAndWaiting(r)
<1> DEFINE r == Peer(w)
<1>1. /\ todo[w] # <<>> /\ todo[w][1].do = "send" /\ HasHandle(w, r)
      /\ ~(Len(pipe[<<w, r>>]) < PipeCap) /\ todo[w] \in TodosOf(w)
  BY StuckFacts DEF FullAndWaiting, InStep, Waits, HasRoom
<1>2. w # "monitor"
  BY <1>1 DEF TodosOf
<1>3. /\ r \in Launched /\ HasHandle(r, w) /\ r # w /\ r # "monitor"
      /\ <<w, r>> \in Fifos
  BY <1>1, <1>2, StuckFacts
<1>4. pipe[<<w, r>>] # <<>>
  <2>1. PipeCap \in Nat /\ PipeCap > 0 /\ Len(<<>>) = 0
    BY CapAssumption
  <2> QED
    BY <1>1, <2>1
<1>5. w # "app"
  <2> SUFFICES ASSUME w = "app" PROVE FALSE
    OBVIOUS
  <2>1. todo[w] = AppCall
    <3>1. Await("sock_module").do = "await" /\ <<Await("sock_module")>>[1] = Await("sock_module")
      BY StepFacts, ModuleNames
    <3> QED
      BY <1>1, <3>1, Zenon DEF TodosOf, AppTodos
  <2>2. r = "sock_module"
    <3>1. AppCall[1] = Data("sock_module")
      BY DEF AppCall
    <3> QED
      BY <2>1, <3>1, StepFacts, ModuleNames DEF Peer
  <2>3. AppLinked
    BY <1>1, <1>3, <2>2 DEF AppLinked
  <2>4. OneCall(todo["app"], pipe[<<"app", "sock_module">>],
                pipe[<<"sock_module", "app">>], todo["sock_module"])
    BY <2>3 DEF StackInv, CallsInTurn
  <2>5. todo["app"] # <<Await("sock_module")>>
    <3>1. Len(AppCall) = 2 /\ Len(<<Await("sock_module")>>) = 1
      BY DEF AppCall
    <3> QED
      BY <2>1, <3>1
  <2>6. pipe[<<"app", "sock_module">>] = <<>>
    BY <2>4, <2>5 DEF OneCall, NotAsking, Asked, Asking, Told
  <2> QED
    BY <1>4, <2>2, <2>6
<1>6. r # "app"
  <2> SUFFICES ASSUME r = "app" PROVE FALSE
    OBVIOUS
  <2>1. w = "sock_module"
    <3>1. PICK i \in Calls("app") : Connections["app"][i].module = w
      BY <1>3 DEF HasHandle
    <3>2. i \in DOMAIN Connections["app"]
      BY <3>1, ConfigFacts, ModuleNames, StuckFacts
    <3> QED
      BY <3>1, <3>2, CallLists DEF AppOpens, Connect
  <2>2. AppLinked
    BY <1>1, <1>3, <2>1 DEF AppLinked
  <2>3. OneCall(todo["app"], pipe[<<"app", "sock_module">>],
                pipe[<<"sock_module", "app">>], todo["sock_module"])
    BY <2>2 DEF StackInv, CallsInTurn
  <2>4. ~NeverTells(todo["sock_module"])
    <3>1. todo[w] \in Seq(Step) /\ todo[w][1].module = "app"
      BY StuckFacts DEF Peer
    <3>2. 1 \in 1..Len(todo[w])
      BY <1>1, <3>1
    <3> QED
      BY <2>1, <3>1, <3>2 DEF NeverTells
  <2>5. pipe[<<"sock_module", "app">>] = <<>>
    BY <2>3, <2>4 DEF OneCall, NotAsking, Asked, Asking, Told
  <2> QED
    BY <1>4, <2>1, <2>5
<1>7. Waits(r)
  BY <1>3, <1>4, <1>6, ReaderWaits
<1>8. CASE FullAndWaiting(r)
  BY <1>3, <1>8
<1>9. CASE EmptyAndWaiting(r)
  <2>1. /\ r = "ip_module" /\ "arp_module" \in Launched /\ FullAndWaiting("arp_module")
        /\ pipe[<<"arp_module", "ip_module">>] = <<>>
    BY <1>3, <1>6, <1>9, OnlyIpWaitsEmpty
  <2> QED
    BY <1>4, <2>1
<1> QED
  BY <1>3, <1>7, <1>8, <1>9, StuckFacts

LEMMA StuckNeedsTwo == StackInv => StuckIsFull
<1> SUFFICES ASSUME StackInv, Stuck
             PROVE  Cardinality({p \in Launched : FullAndWaiting(p)}) >= 2
  BY DEF StuckIsFull
<1> DEFINE S == {p \in Launched : FullAndWaiting(p)}
<1>1. PICK p \in Launched : p # "app" /\ Waits(p)
  BY DEF Stuck
<1>2. \E w \in Launched : FullAndWaiting(w)
  BY <1>1, StuckFacts, OnlyIpWaitsEmpty
<1>3. PICK w \in Launched : FullAndWaiting(w)
  BY <1>2
<1>4. PICK r \in Launched : r # w /\ FullAndWaiting(r)
  BY <1>3, FullNeedsFull
<1>5. IsFiniteSet(S)
  <2>1. IsFiniteSet(Launched)
    BY StuckFacts, ConfigFacts
  <2> QED
    BY <2>1, FS_Subset
<1>6. IsFiniteSet({w}) /\ Cardinality({w}) = 1
  BY FS_Singleton
<1>7. Cardinality({w} \cup {r}) = 2
  BY <1>4, <1>6, FS_AddElement
<1>8. {w} \cup {r} \subseteq S
  BY <1>3, <1>4
<1>9. Cardinality({w} \cup {r}) <= Cardinality(S) /\ Cardinality(S) \in Nat
  BY <1>5, <1>8, FS_Subset, FS_CardinalityType
<1> QED
  BY <1>7, <1>9

\* However the stack is started and however long the FIFOs are: when nobody can go
\* on and somebody but the application still waits, two processes at least wait to
\* write to FIFOs that are full; nobody but the application waits for an answer
\* that is not under way (MinetSend blocks; ip_module asks arp_module).
THEOREM StuckMeansFull == Spec => []StuckIsFull
<1>1. Init => OpenedAll /\ OpenedMet /\ TodosKnown /\ ArpAnswers /\ CallsInTurn
  <2> SUFFICES ASSUME Init
               PROVE  OpenedAll /\ OpenedMet /\ TodosKnown /\ ArpAnswers /\ CallsInTurn
    OBVIOUS
  <2>1. /\ \A p \in Launched : phase[p] = "opening" /\ opened[p] = 0 /\ todo[p] = <<>>
        /\ \A f \in Fifos : pipe[f] = <<>>
        /\ config \in DOMAIN Configs
    BY DEF Init
  <2>2. OpenedAll
    BY <2>1 DEF OpenedAll
  <2>3. OpenedMet
    <3>1. ASSUME NEW p \in Launched, NEW k \in Places(p) PROVE ~(k <= 0)
      <4>1. p \in Module /\ k \in DOMAIN OpenOrder[p]
        BY <2>1, ConfigFacts
      <4>2. k \in Nat /\ k >= 1
        <5>1. CASE p = "monitor"
          BY <4>1, <5>1, MonitorPlaces
        <5>2. CASE p # "monitor"
          BY <4>1, <5>2, PlaceFacts
        <5> QED
          BY <5>1, <5>2
      <4> QED
        BY <4>2
    <3> QED
      BY <2>1, <3>1 DEF OpenedMet
  <2>4. TodosKnown
    <3>1. <<>> \in Seq(ToOthers) /\ <<>> \in Seq(Sends)
      OBVIOUS
    <3> QED
      BY <2>1, <3>1, Zenon DEF TodosKnown, TodosOf, IpTodos, AppTodos
  <2>5. ArpAnswers
    BY <2>1 DEF ArpAnswers, ArpLinked, AwaitsArp
  <2>6. CallsInTurn
    <3> SUFFICES ASSUME AppLinked PROVE OneCall(todo["app"], pipe[<<"app", "sock_module">>],
                                        pipe[<<"sock_module", "app">>], todo["sock_module"])
      BY DEF CallsInTurn
    <3>1. <<"app", "sock_module">> \in Fifos /\ <<"sock_module", "app">> \in Fifos
      BY <2>1, HandleFifos DEF AppLinked
    <3>2. NeverTells(<<>>) /\ <<>> \in AppTodos
      BY FewTells DEF AppTodos
    <3> QED
      BY <2>1, <3>1, <3>2 DEF AppLinked, OneCall, NotAsking
  <2> QED
    BY <2>2, <2>3, <2>4, <2>5, <2>6
<1>2. TypeOK /\ OpenedAll /\ [Next]_vars => OpenedAll'
  BY OpenedAllStep
<1>3. TypeOK /\ OpenedMet /\ [Next]_vars => OpenedMet'
  BY OpenedMetStep
<1>4. TypeOK /\ TodosKnown /\ [Next]_vars => TodosKnown'
  BY TodosStep
<1>5. TypeOK /\ TodosKnown /\ ArpAnswers /\ [Next]_vars => ArpAnswers'
  BY ArpStep
<1>6. TypeOK /\ TodosKnown /\ CallsInTurn /\ [Next]_vars => CallsInTurn'
  BY CallsStep
<1>7. TypeOK /\ OpenedAll /\ OpenedMet /\ TodosKnown /\ ArpAnswers /\ CallsInTurn => StuckIsFull
  BY StuckNeedsTwo DEF StackInv
<1> QED
  BY <1>1, <1>2, <1>3, <1>4, <1>5, <1>6, <1>7, StackTypeCorrect, PTL DEF Spec
=============================================================================
