------------------------- MODULE UdpSockets_proofs --------------------------
(***************************************************************************)
(* Proofs about UdpSockets, for any number of sockets, ports, remote ends, *)
(* calls and datagrams.                                                    *)
(***************************************************************************)
EXTENDS UdpSockets, FiniteSetTheorems, SequenceTheorems,
        WellFoundedInduction, TLAPS

-----------------------------------------------------------------------------
(* The inductive invariant.                                                *)

Waiting  == \E i \in DOMAIN udpq : udpq[i].type # "CLOSE"
Readers  == {s \in Sock : socks[s].status = "READ_PENDING"}

\* The application has called and has not been answered.
Calling == call # NoCall /\ fromApp = <<>> /\ toApp = <<>>

\* Of the call that is made there is one trace: the request, a record in udpq that
\* is the last one, a socket that reads, or the answer.
CallRight ==
  /\ call # NoCall => /\ call.op = "SOCKET" <=> call.sock = 0
                      /\ call.op = "BIND" => call.conn.port \in Ports
                      /\ call.op = "CONNECT" => call.conn.port = NoPort
  /\ call = NoCall => fromApp = <<>> /\ toApp = <<>>
  /\ fromApp # <<>> => fromApp = <<call>> /\ toApp = <<>> /\ ~Waiting /\ Readers = {}
  /\ toApp # <<>> => /\ Len(toApp) = 1 /\ fromApp = <<>> /\ ~Waiting /\ Readers = {}
                     /\ toApp[1].sock \in Sock \/ toApp[1].data = <<>>
  /\ \A i \in DOMAIN udpq : udpq[i].type # "CLOSE" =>
       /\ i = Len(udpq) /\ Calling /\ udpq[i].sock = call.sock
       /\ Readers = {}
       /\ udpq[i].conn = socks[udpq[i].sock].conn /\ udpq[i].conn.port \in Ports
  /\ \A s \in Readers : Calling /\ s = call.sock /\ ~Waiting

\* What is in a bin came for the socket's port; a status says what the socket has.
SocksRight ==
  \A s \in Sock :
    /\ \A i \in DOMAIN socks[s].bin : socks[s].bin[i].port = socks[s].conn.port
    /\ socks[s].conn.port = NoPort => socks[s].status \in {"FREE", "UNBOUND"}
    /\ socks[s].status = "FREE" => socks[s].conn = Unconnected
    /\ socks[s].status = "UNBOUND" =>
         socks[s].conn = Unconnected \/ (Waiting /\ s = call.sock)
    /\ socks[s].status = "BOUND" => socks[s].conn.end = AnyEnd

\* A datagram in toSock goes to the port it came for.
DatagramsRight ==
  \A i \in DOMAIN toSock : toSock[i].type = "WRITE" =>
    /\ toSock[i].conn.port \in Ports
    /\ Len(toSock[i].data) = 1 /\ toSock[i].data[1].port = toSock[i].conn.port

\* A socket has the connection of forward f, or a request takes it out.
Owned(f, list, requests) ==
  \/ \E s \in Sock : list[s].conn = f
  \/ \E j \in DOMAIN requests :
       /\ requests[j].type # "WRITE" /\ requests[j].conn.port = f.port
       /\ Matches(requests[j].conn, f)

\* There is one forward for a port.
ForwardsRight ==
  /\ \A i \in DOMAIN forwards : forwards[i].port \in Ports
  /\ \A i, j \in DOMAIN forwards : forwards[i].port = forwards[j].port => i = j
  /\ \A i \in DOMAIN forwards : Owned(forwards[i], socks, toUdp)

\* A port belongs to the socket it was assigned for, and what is forwarded for an open
\* socket is what the socket has, or had when it was bound.
OwnersRight ==
  /\ \A s \in Sock : socks[s].conn.port # NoPort => owner[socks[s].conn.port] = s
  /\ \A i \in DOMAIN forwards :
       /\ owner[forwards[i].port] # 0
       /\ \A s \in Sock : socks[s].conn.port = forwards[i].port =>
            forwards[i].end = AnyEnd \/ forwards[i] = socks[s].conn

\* The answers in ms, then the requests in rs, are those of the records in qs.
Meets(ms, rs, qs) ==
  LET answered == Statuses(ms, Len(ms)) IN
    /\ Len(qs) = answered + Len(rs)
    /\ \A i \in 1..Len(ms) : ms[i].type = "STATUS" => ms[i].conn = qs[Statuses(ms, i)].conn
    /\ \A j \in 1..Len(rs) : rs[j].conn = qs[answered + j].conn
                           /\ rs[j].type = qs[answered + j].type

RecordsRight == Meets(toSock, toUdp, udpq)

UdpInv == TypeOK /\ CallRight /\ SocksRight /\ DatagramsRight /\ ForwardsRight
          /\ OwnersRight /\ RecordsRight /\ ReadOwn

-----------------------------------------------------------------------------
(* Counting the STATUSes in a FIFO.                                        *)

LEMMA StatusesType ==
  ASSUME NEW q, NEW k \in Nat
  PROVE  /\ IsFiniteSet({i \in 1..k : q[i].type = "STATUS"})
         /\ Statuses(q, k) \in Nat
<1>1. IsFiniteSet(1..k)
  BY FS_Interval
<1>2. IsFiniteSet({i \in 1..k : q[i].type = "STATUS"})
  BY <1>1, FS_Subset
<1> QED
  BY <1>2, FS_CardinalityType DEF Statuses

LEMMA StatusesNone ==
  ASSUME NEW q
  PROVE  Statuses(q, 0) = 0
<1>1. {i \in 1..0 : q[i].type = "STATUS"} = {}
  OBVIOUS
<1> QED
  BY <1>1, FS_EmptySet DEF Statuses

\* One message more.
LEMMA StatusesNext ==
  ASSUME NEW q, NEW k \in Nat
  PROVE  Statuses(q, k + 1) = Statuses(q, k) + (IF q[k + 1].type = "STATUS" THEN 1 ELSE 0)
<1> DEFINE I == {i \in 1..k : q[i].type = "STATUS"}
           J == {i \in 1..(k + 1) : q[i].type = "STATUS"}
<1>1. IsFiniteSet(I) /\ Cardinality(I) = Statuses(q, k) /\ Cardinality(J) = Statuses(q, k + 1)
  BY StatusesType DEF Statuses
<1>2. k + 1 \notin I /\ J = IF q[k + 1].type = "STATUS" THEN I \cup {k + 1} ELSE I
  OBVIOUS
<1>3. Cardinality(I) \in Nat
  BY <1>1, StatusesType
<1> HIDE DEF I, J
<1>4. Cardinality(I \cup {k + 1}) = Cardinality(I) + 1
  BY <1>1, <1>2, FS_AddElement
<1> QED
  BY <1>1, <1>2, <1>3, <1>4

\* A STATUS is at most the last one.
LEMMA StatusesMonotone ==
  ASSUME NEW q, NEW k \in Nat, NEW n \in Nat, k <= n
  PROVE  /\ Statuses(q, k) <= Statuses(q, n)
         /\ k # 0 /\ q[k].type = "STATUS" => Statuses(q, k) >= 1
<1> DEFINE I == {i \in 1..k : q[i].type = "STATUS"}
           J == {i \in 1..n : q[i].type = "STATUS"}
<1>1. IsFiniteSet(I) /\ IsFiniteSet(J)
      /\ Cardinality(I) = Statuses(q, k) /\ Cardinality(J) = Statuses(q, n)
  BY StatusesType DEF Statuses
<1>2. I \subseteq J /\ (k # 0 /\ q[k].type = "STATUS" => I # {})
  OBVIOUS
<1>3. Cardinality(I) \in Nat
  BY <1>1, StatusesType
<1> HIDE DEF I, J
<1>4. Cardinality(I) <= Cardinality(J)
  BY <1>1, <1>2, FS_Subset
<1>5. I # {} => Cardinality(I) # 0
  BY <1>1, FS_EmptySet
<1> QED
  BY <1>1, <1>2, <1>3, <1>4, <1>5

\* The same messages, the same count.
LEMMA StatusesSame ==
  ASSUME NEW q, NEW r, NEW k \in Nat, \A i \in 1..k : q[i] = r[i]
  PROVE  Statuses(q, k) = Statuses(r, k)
<1>1. {i \in 1..k : q[i].type = "STATUS"} = {i \in 1..k : r[i].type = "STATUS"}
  OBVIOUS
<1> QED
  BY <1>1 DEF Statuses

LEMMA StatusesAppend ==
  ASSUME NEW D, NEW q \in Seq(D), NEW m \in D
  PROVE  /\ \A k \in 0..Len(q) : Statuses(Append(q, m), k) = Statuses(q, k)
         /\ Statuses(Append(q, m), Len(q) + 1) =
              Statuses(q, Len(q)) + (IF m.type = "STATUS" THEN 1 ELSE 0)
<1> DEFINE r == Append(q, m)
<1>1. /\ r \in Seq(D) /\ Len(q) \in Nat /\ r[Len(q) + 1] = m
      /\ \A i \in 1..Len(q) : r[i] = q[i]
  OBVIOUS
<1> HIDE DEF r
<1>2. \A k \in 0..Len(q) : Statuses(r, k) = Statuses(q, k)
  BY <1>1, StatusesSame
<1>3. Statuses(r, Len(q) + 1) = Statuses(r, Len(q)) + (IF m.type = "STATUS" THEN 1 ELSE 0)
  BY <1>1, StatusesNext
<1> QED
  BY <1>1, <1>2, <1>3 DEF r

\* The first message is taken.
LEMMA StatusesTail ==
  ASSUME NEW D, NEW q \in Seq(D), q # <<>>, NEW k \in 0..(Len(q) - 1)
  PROVE  Statuses(q, k + 1) =
           Statuses(Tail(q), k) + (IF Head(q).type = "STATUS" THEN 1 ELSE 0)
<1> DEFINE r == Tail(q)
           I == {i \in 1..(k + 1) : q[i].type = "STATUS"}
           J == {i \in 1..k : r[i].type = "STATUS"}
           later == [i \in J |-> i + 1]
<1>0. /\ r \in Seq(D) /\ Len(r) = Len(q) - 1 /\ Len(q) \in Nat \ {0} /\ k \in Nat
      /\ \A i \in 1..(Len(q) - 1) : r[i] = q[i + 1]
  OBVIOUS
<1> HIDE DEF r
<1>1. /\ IsFiniteSet(I) /\ Statuses(q, k + 1) = Cardinality(I) /\ Cardinality(I) \in Nat
      /\ IsFiniteSet(J) /\ Statuses(r, k) = Cardinality(J) /\ Cardinality(J) \in Nat
  <2>1. k + 1 \in Nat
    BY <1>0
  <2>2. IsFiniteSet(I) /\ Statuses(q, k + 1) \in Nat
    BY <2>1, StatusesType
  <2>3. IsFiniteSet(J) /\ Statuses(r, k) \in Nat
    BY <1>0, StatusesType
  <2> QED
    BY <2>2, <2>3 DEF Statuses
<1>2. \A i \in J : i \in Nat /\ i + 1 \in I \ {1}
  BY <1>0
<1>3. \A i \in I \ {1} : i - 1 \in J /\ (i - 1) + 1 = i
  BY <1>0
<1>4. 1 \in I <=> Head(q).type = "STATUS"
  BY <1>0
<1> HIDE DEF I, J
<1>5. ExistsBijection(J, I \ {1})
  <2>1. later \in [J -> I \ {1}]
    BY <1>2
  <2>2. \A i, j \in J : later[i] = later[j] => i = j
    BY <1>2
  <2>3. \A i \in I \ {1} : \E j \in J : later[j] = i
    BY <1>3
  <2> QED
    BY <2>1, <2>2, <2>3 DEF ExistsBijection, Bijection, Injection, Surjection, IsInjective
<1>6. Cardinality(I \ {1}) = Cardinality(J)
  BY <1>1, <1>5, FS_Bijection
<1>7. Cardinality(I \ {1}) = IF 1 \in I THEN Cardinality(I) - 1 ELSE Cardinality(I)
  BY <1>1, FS_RemoveElement
<1>8. Statuses(q, k + 1) = Statuses(r, k) + (IF Head(q).type = "STATUS" THEN 1 ELSE 0)
  BY <1>1, <1>4, <1>6, <1>7
<1> QED
  BY <1>8 DEF r

-----------------------------------------------------------------------------
(* What a step does to the records.                                        *)

\* A request is sent, and a record of it made.
LEMMA MeetsRequest ==
  ASSUME NEW D, NEW ms \in Seq(D), NEW R, NEW rs \in Seq(R), NEW Q, NEW qs \in Seq(Q),
         NEW r \in R, NEW q \in Q, r.conn = q.conn, r.type = q.type, Meets(ms, rs, qs)
  PROVE  Meets(ms, Append(rs, r), Append(qs, q))
<1> DEFINE n == Statuses(ms, Len(ms))
           longer == Append(qs, q)
           more == Append(rs, r)
<1>0. Len(ms) \in Nat
  OBVIOUS
<1>1. n \in Nat /\ Len(ms) \in Nat
  BY <1>0, StatusesType
<1>2. Len(qs) = n + Len(rs)
  BY DEF Meets
<1>3. /\ Len(longer) = Len(qs) + 1 /\ longer[Len(qs) + 1] = q
      /\ \A i \in 1..Len(qs) : longer[i] = qs[i]
  OBVIOUS
<1>4. /\ Len(more) = Len(rs) + 1 /\ more[Len(rs) + 1] = r /\ Len(rs) \in Nat
      /\ \A i \in 1..Len(rs) : more[i] = rs[i]
  OBVIOUS
<1> HIDE DEF longer, more
<1>5. ASSUME NEW i \in 1..Len(ms), ms[i].type = "STATUS"
      PROVE  ms[i].conn = longer[Statuses(ms, i)].conn
  <2>1. Statuses(ms, i) \in 1..n
    <3>1. i \in Nat /\ i <= Len(ms) /\ i # 0
      BY <1>1
    <3>2. Statuses(ms, i) \in Nat
      BY <3>1, StatusesType
    <3> QED
      BY <1>1, <1>5, <3>1, <3>2, StatusesMonotone
  <2>2. Statuses(ms, i) \in 1..Len(qs)
    BY <1>1, <1>2, <1>4, <2>1
  <2> QED
    BY <1>3, <1>5, <2>2 DEF Meets
<1>6. ASSUME NEW j \in 1..Len(more)
      PROVE  more[j].conn = longer[n + j].conn /\ more[j].type = longer[n + j].type
  <2>1. CASE j \in 1..Len(rs)
    <3>1. n + j \in 1..Len(qs)
      BY <1>1, <1>2, <1>4, <2>1
    <3> QED
      BY <1>3, <1>4, <2>1, <3>1 DEF Meets
  <2>2. CASE j = Len(rs) + 1
    <3>1. n + j = Len(qs) + 1
      BY <1>1, <1>2, <1>4, <2>2
    <3> QED
      BY <1>3, <1>4, <2>2, <3>1
  <2> QED
    BY <1>4, <2>1, <2>2
<1>7. Len(longer) = n + Len(more)
  BY <1>1, <1>2, <1>3, <1>4
<1> HIDE DEF n
<1> QED
  BY <1>5, <1>6, <1>7 DEF Meets, n, longer, more

\* udp_module answers the first request.
LEMMA MeetsStatus ==
  ASSUME NEW D, NEW ms \in Seq(D), NEW R, NEW rs \in Seq(R), NEW Q, NEW qs \in Seq(Q),
         rs # <<>>, NEW m \in D, m.type = "STATUS", m.conn = Head(rs).conn, Meets(ms, rs, qs)
  PROVE  Meets(Append(ms, m), Tail(rs), qs)
<1> DEFINE n == Statuses(ms, Len(ms))
           more == Append(ms, m)
           rest == Tail(rs)
<1>0. Len(ms) \in Nat
  OBVIOUS
<1>1. n \in Nat /\ Len(ms) \in Nat
  BY <1>0, StatusesType
<1>2. Len(qs) = n + Len(rs)
  BY DEF Meets
<1>3. /\ Len(more) = Len(ms) + 1 /\ more[Len(ms) + 1] = m
      /\ \A i \in 1..Len(ms) : more[i] = ms[i]
  OBVIOUS
<1>4. /\ Len(rest) = Len(rs) - 1 /\ Len(rs) \in Nat \ {0}
      /\ \A i \in 1..Len(rest) : rest[i] = rs[i + 1]
  OBVIOUS
<1>5. /\ \A i \in 1..Len(ms) : Statuses(more, i) = Statuses(ms, i)
      /\ Statuses(more, Len(ms) + 1) = n + 1
  BY StatusesAppend
<1> HIDE DEF more, rest
<1>6. ASSUME NEW i \in 1..Len(more), more[i].type = "STATUS"
      PROVE  more[i].conn = qs[Statuses(more, i)].conn
  <2>1. CASE i \in 1..Len(ms)
    BY <1>3, <1>5, <1>6, <2>1 DEF Meets
  <2>2. CASE i = Len(ms) + 1
    <3>1. Head(rs).conn = qs[n + 1].conn
      BY <1>4 DEF Meets
    <3> QED
      BY <1>3, <1>5, <2>2, <3>1
  <2> QED
    BY <1>1, <1>3, <2>1, <2>2
<1>7. ASSUME NEW j \in 1..Len(rest)
      PROVE  rest[j].conn = qs[(n + 1) + j].conn /\ rest[j].type = qs[(n + 1) + j].type
  <2>1. j + 1 \in 1..Len(rs) /\ n + (j + 1) = (n + 1) + j
    BY <1>1, <1>4
  <2> QED
    BY <1>4, <2>1 DEF Meets
<1>8. Statuses(more, Len(more)) = n + 1 /\ Len(qs) = (n + 1) + Len(rest)
  BY <1>1, <1>2, <1>3, <1>4, <1>5
<1> HIDE DEF n
<1> QED
  BY <1>6, <1>7, <1>8 DEF Meets, n, more, rest

\* A datagram is no answer.
LEMMA MeetsDatagram ==
  ASSUME NEW D, NEW ms \in Seq(D), NEW R, NEW rs \in Seq(R), NEW Q, NEW qs \in Seq(Q),
         NEW m \in D, m.type # "STATUS", Meets(ms, rs, qs)
  PROVE  Meets(Append(ms, m), rs, qs)
<1> DEFINE n == Statuses(ms, Len(ms))
           more == Append(ms, m)
<1>0. Len(ms) \in Nat
  OBVIOUS
<1>1. n \in Nat /\ Len(ms) \in Nat
  BY <1>0, StatusesType
<1>2. /\ Len(more) = Len(ms) + 1 /\ more[Len(ms) + 1] = m
      /\ \A i \in 1..Len(ms) : more[i] = ms[i]
  OBVIOUS
<1>3. /\ \A i \in 1..Len(ms) : Statuses(more, i) = Statuses(ms, i)
      /\ Statuses(more, Len(more)) = n
  BY <1>1, <1>2, StatusesAppend
<1> HIDE DEF more, n
<1>4. \A i \in 1..Len(more) : more[i].type = "STATUS" => i \in 1..Len(ms)
  BY <1>1, <1>2
<1> QED
  BY <1>2, <1>3, <1>4 DEF Meets, n, more

LEMMA MeetsDatagramTaken ==
  ASSUME NEW D, NEW ms \in Seq(D), NEW R, NEW rs \in Seq(R), NEW Q, NEW qs \in Seq(Q),
         ms # <<>>, Head(ms).type # "STATUS", Meets(ms, rs, qs)
  PROVE  Meets(Tail(ms), rs, qs)
<1> DEFINE rest == Tail(ms)
<1>1. /\ Len(rest) = Len(ms) - 1 /\ Len(ms) \in Nat \ {0} /\ rest \in Seq(D)
      /\ \A i \in 1..Len(rest) : rest[i] = ms[i + 1]
  OBVIOUS
<1>2. \A k \in 0..(Len(ms) - 1) : Statuses(ms, k + 1) = Statuses(rest, k)
  <2> TAKE k \in 0..(Len(ms) - 1)
  <2>1. Statuses(rest, k) \in Nat
    <3>1. k \in Nat
      BY <1>1
    <3> QED
      BY <3>1, StatusesType
  <2> QED
    BY <2>1, StatusesTail
<1> HIDE DEF rest
<1>3. Statuses(ms, Len(ms)) = Statuses(rest, Len(rest))
  <2>1. Len(rest) \in 0..(Len(ms) - 1) /\ Len(rest) + 1 = Len(ms)
    BY <1>1
  <2> QED
    BY <1>2, <2>1
<1>4. ASSUME NEW i \in 1..Len(rest), rest[i].type = "STATUS"
      PROVE  rest[i].conn = qs[Statuses(rest, i)].conn
  <2>1. i + 1 \in 1..Len(ms) /\ i \in 0..(Len(ms) - 1) /\ rest[i] = ms[i + 1]
    BY <1>1
  <2> QED
    BY <1>2, <1>4, <2>1 DEF Meets
<1> QED
  BY <1>3, <1>4 DEF Meets, rest

\* The answer that is first is that of the oldest record.
LEMMA MeetsStatusTaken ==
  ASSUME NEW D, NEW ms \in Seq(D), NEW R, NEW rs \in Seq(R), NEW Q, NEW qs \in Seq(Q),
         ms # <<>>, Head(ms).type = "STATUS", Meets(ms, rs, qs)
  PROVE  qs # <<>> /\ Meets(Tail(ms), rs, Tail(qs))
<1> DEFINE rest == Tail(ms)
           old  == Tail(qs)
           n    == Statuses(rest, Len(rest))
<1>1. /\ Len(rest) = Len(ms) - 1 /\ Len(ms) \in Nat \ {0} /\ rest \in Seq(D)
      /\ \A i \in 1..Len(rest) : rest[i] = ms[i + 1]
  OBVIOUS
<1>2. \A k \in 0..(Len(ms) - 1) : Statuses(ms, k + 1) = Statuses(rest, k) + 1
  <2> TAKE k \in 0..(Len(ms) - 1)
  <2>1. Statuses(rest, k) \in Nat
    <3>1. k \in Nat
      BY <1>1
    <3> QED
      BY <3>1, StatusesType
  <2> QED
    BY <2>1, StatusesTail
<1> HIDE DEF rest
<1>3. Statuses(ms, Len(ms)) = n + 1 /\ n \in Nat
  <2>1. Len(rest) \in 0..(Len(ms) - 1) /\ Len(rest) + 1 = Len(ms) /\ Len(rest) \in Nat
    BY <1>1
  <2>2. n \in Nat
    BY <2>1, StatusesType
  <2> QED
    BY <1>2, <2>1, <2>2
<1>4. Len(qs) = (n + 1) + Len(rs) /\ Len(rs) \in Nat
  BY <1>3 DEF Meets
<1>5. qs # <<>>
  BY <1>3, <1>4
<1>6. /\ Len(old) = Len(qs) - 1 /\ \A i \in 1..Len(old) : old[i] = qs[i + 1]
  BY <1>5
<1> HIDE DEF old
<1>7. ASSUME NEW i \in 1..Len(rest), rest[i].type = "STATUS"
      PROVE  rest[i].conn = old[Statuses(rest, i)].conn
  <2>1. i + 1 \in 1..Len(ms) /\ i \in 0..(Len(ms) - 1) /\ rest[i] = ms[i + 1]
    BY <1>1
  <2>2. Statuses(rest, i) \in Nat /\ Statuses(rest, i) \in 1..n
    <3>1. i \in Nat /\ i <= Len(rest) /\ i # 0 /\ Len(rest) \in Nat
      BY <1>1
    <3>2. Statuses(rest, i) \in Nat
      BY <3>1, StatusesType
    <3> QED
      BY <1>3, <1>7, <3>1, <3>2, StatusesMonotone
  <2>3. Statuses(rest, i) \in 1..Len(old)
    BY <1>3, <1>4, <1>6, <2>2
  <2> QED
    BY <1>2, <1>6, <1>7, <2>1, <2>3 DEF Meets
<1>8. ASSUME NEW j \in 1..Len(rs)
      PROVE  rs[j].conn = old[n + j].conn /\ rs[j].type = old[n + j].type
  <2>1. n + j \in 1..Len(old) /\ (n + 1) + j = (n + j) + 1
    <3>1. /\ n \in Nat /\ Len(rs) \in Nat /\ j \in 1..Len(rs)
          /\ Len(old) = ((n + 1) + Len(rs)) - 1
      BY <1>3, <1>4, <1>6
    <3> HIDE DEF n
    <3> QED
      BY <3>1
  <2>2. /\ rs[j].conn = qs[(n + 1) + j].conn
        /\ rs[j].type = qs[(n + 1) + j].type
    BY <1>3 DEF Meets
  <2> HIDE DEF n
  <2> QED
    BY <1>6, <2>1, <2>2
<1>9. Len(old) = n + Len(rs)
  BY <1>3, <1>4, <1>6
<1> HIDE DEF n
<1> QED
  BY <1>5, <1>7, <1>8, <1>9 DEF Meets, n, rest, old

-----------------------------------------------------------------------------
(* Choosing, and the list of forwards.                                     *)

LEMMA LeastNat ==
  ASSUME NEW T, T \subseteq Nat, T # {}
  PROVE  \E x \in T : \A y \in T : x <= y
<1> DEFINE R == {p \in Nat \X Nat : p[1] < p[2]}
<1>1. IsWellFoundedOn(R, Nat)
  BY NatLessThanWellFounded DEF OpToRel
<1> HIDE DEF R
<1>2. PICK x \in T : \A y \in T : ~ (<<y, x>> \in R)
  BY <1>1, WFMin, Zenon
<1>3. ASSUME NEW y \in T
      PROVE  x <= y
  <2>1. <<y, x>> \in Nat \X Nat /\ ~ (<<y, x>> \in R)
    BY <1>2
  <2>2. ~ (y < x)
    BY <2>1 DEF R
  <2> QED
    BY <2>2
<1> QED
  BY <1>3

\* A socket or a port that is looked for is found if there is one.
LEMMA LowestFacts ==
  ASSUME NEW T, T \subseteq Nat, T # {}
  PROVE  LowestOf(T) \in T
BY LeastNat DEF LowestOf

\* FindMatching: the first forward that matches, 0 if there is none.
LEMMA FindFacts ==
  ASSUME NEW list \in Seq(Connection), NEW c
  PROVE  IF \E i \in 1..Len(list) : Matches(list[i], c)
         THEN FindMatching(list, c) \in 1..Len(list)
              /\ Matches(list[FindMatching(list, c)], c)
         ELSE FindMatching(list, c) = 0
<1> DEFINE I == {i \in 1..Len(list) : Matches(list[i], c)}
<1>1. FindMatching(list, c) = IF I # {} THEN Min(I) ELSE 0
  BY DEF FindMatching, SelectInSeq
<1>2. I # {} => Min(I) \in I
  <2>1. I \subseteq Nat
    OBVIOUS
  <2> HIDE DEF I
  <2> QED
    BY <2>1, LeastNat DEF Min
<1> QED
  BY <1>1, <1>2

\* Erase: one forward that matches is taken out, if there is one.
LEMMA EraseFacts ==
  ASSUME NEW list \in Seq(Connection), NEW c
  PROVE  IF \E i \in 1..Len(list) : Matches(list[i], c)
         THEN \E k \in 1..Len(list) :
                /\ Matches(list[k], c)
                /\ Erase(list, c) \in Seq(Connection)
                /\ Len(Erase(list, c)) = Len(list) - 1
                /\ \A i \in 1..(Len(list) - 1) :
                     Erase(list, c)[i] = list[IF i < k THEN i ELSE i + 1]
         ELSE Erase(list, c) = list
<1>1. CASE \E i \in 1..Len(list) : Matches(list[i], c)
  <2> DEFINE k == FindMatching(list, c)
             a == SubSeq(list, 1, k - 1)
             b == SubSeq(list, k + 1, Len(list))
  <2>1. k \in 1..Len(list) /\ Matches(list[k], c)
    BY <1>1, FindFacts
  <2>2. Erase(list, c) = a \o b
    BY <1>1 DEF Erase, RemoveFirstMatch, RemoveAt, FindMatching
  <2> HIDE DEF k
  <2>3. /\ a \in Seq(Connection) /\ b \in Seq(Connection)
        /\ Len(a) = k - 1 /\ Len(b) = Len(list) - k /\ Len(list) \in Nat
        /\ \A i \in 1..(k - 1) : a[i] = list[i]
        /\ \A i \in 1..(Len(list) - k) : b[i] = list[k + i]
    BY <2>1
  <2> HIDE DEF a, b
  <2>4. /\ a \o b \in Seq(Connection) /\ Len(a \o b) = Len(list) - 1
        /\ \A i \in 1..(Len(list) - 1) :
             (a \o b)[i] = IF i <= k - 1 THEN a[i] ELSE b[i - (k - 1)]
    <3>1. /\ a \o b \in Seq(Connection) /\ Len(a \o b) = Len(a) + Len(b)
          /\ \A i \in 1..(Len(a) + Len(b)) :
               (a \o b)[i] = IF i <= Len(a) THEN a[i] ELSE b[i - Len(a)]
      BY <2>3, ConcatProperties
    <3>2. Len(a) + Len(b) = Len(list) - 1
      BY <2>1, <2>3
    <3> QED
      BY <2>3, <3>1, <3>2
  <2>5. ASSUME NEW i \in 1..(Len(list) - 1)
        PROVE  (a \o b)[i] = list[IF i < k THEN i ELSE i + 1]
    <3>1. CASE i < k
      BY <2>1, <2>3, <2>4, <3>1
    <3>2. CASE ~(i < k)
      <4>1. i - (k - 1) \in 1..(Len(list) - k) /\ k + (i - (k - 1)) = i + 1
        BY <2>1, <2>3, <3>2
      <4> QED
        BY <2>1, <2>3, <2>4, <3>2, <4>1
    <3> QED
      BY <3>1, <3>2
  <2> QED
    BY <1>1, <2>1, <2>2, <2>4, <2>5
<1>2. CASE ~ \E i \in 1..Len(list) : Matches(list[i], c)
  BY <1>2 DEF Erase, RemoveFirstMatch
<1> QED
  BY <1>1, <1>2

\* What stays was there, what there is only one of is there only once, and what
\* matches is gone.
LEMMA EraseKeeps ==
  ASSUME NEW list \in Seq(Connection), NEW c \in Connection,
         \A i \in DOMAIN list : list[i].port \in Ports,
         \A i, j \in DOMAIN list : list[i].port = list[j].port => i = j
  PROVE  /\ Erase(list, c) \in Seq(Connection)
         /\ \A i \in DOMAIN Erase(list, c) : \E j \in DOMAIN list : Erase(list, c)[i] = list[j]
         /\ \A i, j \in DOMAIN Erase(list, c) :
              Erase(list, c)[i].port = Erase(list, c)[j].port => i = j
         /\ c.port # NoPort => \A i \in DOMAIN Erase(list, c) : ~Matches(Erase(list, c)[i], c)
<1> DEFINE rest == Erase(list, c)
<1>1. CASE ~ \E i \in 1..Len(list) : Matches(list[i], c)
  <2>1. rest = list
    BY <1>1, EraseFacts
  <2> QED
    BY <1>1, <2>1
<1>2. CASE \E i \in 1..Len(list) : Matches(list[i], c)
  <2>1. PICK k \in 1..Len(list) :
          /\ Matches(list[k], c)
          /\ rest \in Seq(Connection) /\ Len(rest) = Len(list) - 1
          /\ \A i \in 1..(Len(list) - 1) : rest[i] = list[IF i < k THEN i ELSE i + 1]
    BY <1>2, EraseFacts
  <2> DEFINE Old(i) == IF i < k THEN i ELSE i + 1
  <2> HIDE DEF rest
  <2>2. /\ DOMAIN rest = 1..(Len(list) - 1) /\ DOMAIN list = 1..Len(list) /\ Len(list) \in Nat
        /\ \A i \in DOMAIN rest : rest[i] = list[Old(i)]
    BY <2>1
  <2>3. /\ \A i \in DOMAIN rest : Old(i) \in DOMAIN list /\ Old(i) # k
        /\ \A i, j \in DOMAIN rest : Old(i) = Old(j) => i = j
    BY <2>2
  <2> HIDE DEF Old
  <2>4. ASSUME c.port # NoPort, NEW i \in DOMAIN rest, Matches(rest[i], c)
        PROVE  FALSE
    <3>1. rest[i].port = c.port /\ list[k].port = c.port
      BY <2>1, <2>2, <2>3, <2>4, SockAssumption DEF Matches
    <3> QED
      BY <2>2, <2>3, <3>1
  <2> QED
    BY <2>1, <2>2, <2>3, <2>4 DEF rest
<1> QED
  BY <1>1, <1>2

-----------------------------------------------------------------------------
(* The application.                                                        *)

\* Nothing but the call and its FIFOs is touched.
LEMMA NothingElse ==
  ASSUME UdpInv, UNCHANGED <<socks, owner, udpq, toUdp, toSock, forwards>>
  PROVE  /\ Waiting' = Waiting /\ Readers' = Readers
         /\ DatagramsRight' /\ ForwardsRight' /\ OwnersRight' /\ RecordsRight'
         /\ call' = call => SocksRight'
<1>1. Waiting' = Waiting /\ Readers' = Readers
  BY DEF Waiting, Readers
<1>2. DatagramsRight' /\ ForwardsRight' /\ OwnersRight' /\ RecordsRight'
  BY DEF UdpInv, DatagramsRight, ForwardsRight, Owned, OwnersRight, RecordsRight, Meets, Statuses
<1>3. call' = call => SocksRight'
  BY <1>1 DEF UdpInv, SocksRight
<1> QED
  BY <1>1, <1>2, <1>3

LEMMA MakesRight ==
  ASSUME UdpInv, NEW op \in Op, NEW s \in Sock \cup {0}, NEW c \in Connection,
         op = "SOCKET" <=> s = 0,
         op = "BIND" => c.port \in Ports,
         op = "CONNECT" => c.port = NoPort,
         Makes(op, s, c)
  PROVE  UdpInv'
<1>1. /\ call = NoCall /\ calls < MaxCalls /\ calls' = calls + 1
      /\ call' = [op |-> op, sock |-> s, conn |-> c]
      /\ fromApp' = Append(fromApp, call')
      /\ UNCHANGED <<socks, owner, udpq, forwards, toMux, arrived, toUdp, toSock, toApp>>
  BY DEF Makes, sockSide, udpSide
<1>2. call' \in Call /\ call' # NoCall
  BY <1>1, CallAssumption DEF Call
<1>3. fromApp = <<>> /\ toApp = <<>> /\ ~Waiting /\ Readers = {}
  <2>1. fromApp = <<>> /\ toApp = <<>>
    BY <1>1 DEF UdpInv, CallRight
  <2>2. ~Waiting
    BY <1>1 DEF UdpInv, CallRight, Waiting, Calling
  <2>3. Readers = {}
    BY <1>1 DEF UdpInv, CallRight, Calling
  <2> QED
    BY <2>1, <2>2, <2>3
<1>4. TypeOK'
  <2>1. calls' \in 0..MaxCalls
    BY <1>1, BoundAssumption DEF UdpInv, TypeOK
  <2>2. fromApp' \in Seq(Call)
    BY <1>1, <1>2, <1>3
  <2> QED
    BY <1>1, <1>2, <2>1, <2>2 DEF UdpInv, TypeOK
<1>5. ~Waiting' /\ Readers' = {} /\ DatagramsRight' /\ ForwardsRight' /\ OwnersRight' /\ RecordsRight'
  BY <1>1, <1>3, NothingElse
<1>6. CallRight'
  <2>1. fromApp' = <<call'>>
    BY <1>1, <1>3
  <2>2. /\ call' # NoCall => /\ call'.op = "SOCKET" <=> call'.sock = 0
                             /\ call'.op = "BIND" => call'.conn.port \in Ports
                             /\ call'.op = "CONNECT" => call'.conn.port = NoPort
    BY <1>1
  <2>3. \A i \in DOMAIN udpq' : udpq'[i].type = "CLOSE"
    BY <1>5 DEF Waiting
  <2> QED
    BY <1>1, <1>2, <1>3, <1>5, <2>1, <2>2, <2>3 DEF CallRight
<1>7. SocksRight'
  BY <1>1, <1>3 DEF UdpInv, SocksRight
<1>8. ReadOwn'
  BY <1>1 DEF UdpInv, ReadOwn
<1> QED
  BY <1>4, <1>5, <1>6, <1>7, <1>8 DEF UdpInv

LEMMA ApplicationRight == UdpInv /\ Application => UdpInv'
<1> SUFFICES ASSUME UdpInv, Application PROVE UdpInv'
  OBVIOUS
<1>1. /\ Unconnected \in Connection
      /\ \A p \in Ports : [port |-> p, end |-> AnyEnd] \in Connection
      /\ \A r \in Remote : [port |-> NoPort, end |-> r] \in Connection
  BY DEF Connection, Unconnected
<1>2. \A s \in Sock : s \in Sock \cup {0} /\ s # 0
  BY SockAssumption DEF Sock
<1>3. CASE minet_socket
  BY <1>1, <1>3, MakesRight DEF minet_socket, Op
<1>4. ASSUME NEW s \in Sock,
             \/ minet_listen(s) \/ minet_read(s) \/ minet_write(s)
             \/ minet_recvfrom(s) \/ minet_close(s)
             \/ minet_set_blocking(s) \/ minet_set_nonblocking(s)
             \/ minet_can_read_now(s) \/ minet_can_write_now(s)
      PROVE  UdpInv'
  <2>1. PICK op \in Op \ {"SOCKET", "BIND", "CONNECT"} : Makes(op, s, Unconnected)
    BY <1>4 DEF Op, Unknown, minet_listen, minet_read, minet_write, minet_recvfrom, minet_close,
                minet_set_blocking, minet_set_nonblocking, minet_can_read_now, minet_can_write_now
  <2> QED
    BY <1>1, <1>2, <2>1, MakesRight
<1>5. ASSUME NEW s \in Sock, NEW p \in Ports, minet_bind(s, p)
      PROVE  UdpInv'
  BY <1>1, <1>2, <1>5, MakesRight DEF minet_bind, Op
<1>6. ASSUME NEW s \in Sock, NEW r \in Remote, minet_connect(s, r) \/ minet_sendto(s, r)
      PROVE  UdpInv'
  <2>1. PICK op \in {"CONNECT", "SENDTO"} : Makes(op, s, [port |-> NoPort, end |-> r])
    BY <1>6 DEF minet_connect, minet_sendto
  <2> QED
    BY <1>1, <1>2, <2>1, MakesRight DEF Op, Unknown
<1> QED
  BY <1>3, <1>4, <1>5, <1>6 DEF Application

LEMMA ReturnRight == UdpInv /\ Return => UdpInv'
<1> SUFFICES ASSUME UdpInv, Return PROVE UdpInv'
  OBVIOUS
<1>1. /\ toApp # <<>> /\ call' = NoCall /\ toApp' = Tail(toApp)
      /\ UNCHANGED <<socks, owner, udpq, forwards, toMux, arrived, toUdp, toSock, fromApp, calls>>
  BY DEF Return, sockSide, udpSide
<1>2. Len(toApp) = 1 /\ fromApp = <<>> /\ ~Waiting /\ Readers = {}
  BY <1>1 DEF UdpInv, CallRight
<1>3. toApp' = <<>>
  BY <1>1, <1>2 DEF UdpInv, TypeOK
<1>4. TypeOK'
  <2>1. toApp' \in Seq(Answer)
    BY <1>3
  <2> QED
    BY <1>1, <2>1 DEF UdpInv, TypeOK
<1>5. ~Waiting' /\ Readers' = {} /\ DatagramsRight' /\ ForwardsRight' /\ OwnersRight' /\ RecordsRight'
  BY <1>1, <1>2, NothingElse
<1>6. CallRight'
  <2>1. \A i \in DOMAIN udpq' : udpq'[i].type = "CLOSE"
    BY <1>5 DEF Waiting
  <2> QED
    BY <1>1, <1>2, <1>3, <1>5, <2>1 DEF CallRight
<1>7. SocksRight'
  BY <1>1, <1>2 DEF UdpInv, SocksRight
<1>8. ReadOwn'
  BY <1>3 DEF ReadOwn
<1> QED
  BY <1>4, <1>5, <1>6, <1>7, <1>8 DEF UdpInv

-----------------------------------------------------------------------------
(* sock_module: a request of the application.                              *)

LEMMA Asked ==
  ASSUME UdpInv, fromApp # <<>>
  PROVE  /\ call # NoCall /\ call \in Call /\ Head(fromApp) = call /\ Tail(fromApp) = <<>>
         /\ toApp = <<>> /\ ~Waiting /\ Readers = {}
         /\ \A i \in DOMAIN udpq : udpq[i].type = "CLOSE"
         /\ s0 = call.sock /\ s0 \in Sock \cup {0} /\ call.op \in Op
         /\ call.op # "SOCKET" => s0 \in Sock
<1>1. fromApp = <<call>> /\ toApp = <<>> /\ ~Waiting /\ Readers = {} /\ call # NoCall
  BY DEF UdpInv, CallRight
<1>2. call \in Call
  BY <1>1 DEF UdpInv, TypeOK
<1>3. call.op \in Op /\ call.sock \in Sock \cup {0} /\ (call.op = "SOCKET" <=> call.sock = 0)
  BY <1>1, <1>2 DEF Call, UdpInv, CallRight
<1> QED
  BY <1>1, <1>2, <1>3 DEF s0, Waiting

\* The answer is given at once.
LEMMA Answering ==
  ASSUME UdpInv, fromApp # <<>>, fromApp' = Tail(fromApp), UNCHANGED <<call, calls>>,
         NEW s \in Sock \cup {0}, NEW error \in BOOLEAN, NEW data \in Seq(Datagram),
         s \in Sock \/ data = <<>>,
         Tell(call.op, s, error, data),
         \A i \in DOMAIN udpq' : udpq'[i].type = "CLOSE", Readers' = {}
  PROVE  /\ CallRight' /\ toApp' \in Seq(Answer) /\ fromApp' \in Seq(Call)
         /\ toApp' = <<[op |-> call.op, sock |-> s, error |-> error, data |-> data]>>
<1>1. /\ fromApp' = <<>> /\ toApp' = <<[op |-> call.op, sock |-> s, error |-> error, data |-> data]>>
      /\ call # NoCall /\ call \in Call /\ call.op \in Op
  BY Asked DEF Tell
<1>2. [op |-> call.op, sock |-> s, error |-> error, data |-> data] \in Answer
  BY <1>1 DEF Answer
<1>3. /\ toApp' \in Seq(Answer) /\ fromApp' \in Seq(Call) /\ Len(toApp') = 1
      /\ toApp'[1].sock \in Sock \/ toApp'[1].data = <<>>
  <2> DEFINE x == [op |-> call.op, sock |-> s, error |-> error, data |-> data]
  <2>1. x \in Answer /\ toApp' = <<x>> /\ (x.sock \in Sock \/ x.data = <<>>)
    BY <1>1, <1>2
  <2> HIDE DEF x
  <2>2. <<x>> \in Seq(Answer) /\ Len(<<x>>) = 1 /\ <<x>>[1] = x
    BY <2>1
  <2>3. fromApp' \in Seq(Call)
    <3>1. \A S : <<>> \in Seq(S)
      OBVIOUS
    <3> QED
      BY <1>1, <3>1
  <2> QED
    BY <2>1, <2>2, <2>3
<1>4. ~Waiting'
  BY DEF Waiting
<1>5. CallRight'
  BY <1>1, <1>3, <1>4 DEF CallRight, UdpInv
<1> QED
  BY <1>1, <1>3, <1>5

LEMMA ReadNothing ==
  ASSUME NEW o, NEW s, NEW e,
         toApp' = <<[op |-> o, sock |-> s, error |-> e, data |-> <<>>]>>
  PROVE  ReadOwn'
BY DEF ReadOwn

LEMMA ConnsKept ==
  ASSUME UdpInv, UNCHANGED <<forwards, toUdp, owner>>,
         \A s \in Sock : socks'[s].conn = socks[s].conn
  PROVE  ForwardsRight' /\ OwnersRight'
<1>1. ForwardsRight'
  BY DEF UdpInv, ForwardsRight, Owned
<1>2. OwnersRight'
  BY DEF UdpInv, OwnersRight
<1> QED
  BY <1>1, <1>2

LEMMA RefuseRight == UdpInv /\ Refuse => UdpInv'
<1> SUFFICES ASSUME UdpInv, Refuse PROVE UdpInv'
  OBVIOUS
<1>1. /\ fromApp # <<>> /\ fromApp' = Tail(fromApp)
      /\ UNCHANGED <<socks, owner, udpq, forwards, toMux, arrived, call, calls, toUdp, toSock>>
      /\ Tell(call.op, s0, TRUE, <<>>)
  BY Asked DEF Refuse, sockSide, udpSide, library
<1>2. /\ Readers' = {} /\ SocksRight'
      /\ DatagramsRight' /\ ForwardsRight' /\ OwnersRight' /\ RecordsRight'
      /\ \A i \in DOMAIN udpq' : udpq'[i].type = "CLOSE"
  BY <1>1, Asked, NothingElse
<1>3. <<>> \in Seq(Datagram) /\ s0 \in Sock \cup {0}
  BY <1>1, Asked
<1>4. /\ CallRight' /\ toApp' \in Seq(Answer) /\ fromApp' \in Seq(Call)
      /\ toApp' = <<[op |-> call.op, sock |-> s0, error |-> TRUE, data |-> <<>>]>>
  BY <1>1, <1>2, <1>3, Answering
<1>5. TypeOK'
  BY <1>1, <1>4 DEF UdpInv, TypeOK
<1>6. ReadOwn'
  BY <1>4, ReadNothing
<1> QED
  BY <1>2, <1>4, <1>5, <1>6 DEF UdpInv

LEMMA NotKnownRight == UdpInv /\ NotKnown => UdpInv'
<1> SUFFICES ASSUME UdpInv, NotKnown PROVE UdpInv'
  OBVIOUS
<1>1. /\ fromApp # <<>> /\ fromApp' = Tail(fromApp)
      /\ UNCHANGED <<socks, owner, udpq, forwards, toMux, arrived, call, calls, toUdp, toSock>>
      /\ Tell(call.op, s0, FALSE, <<>>)
  BY Asked DEF NotKnown, Takes, sockSide, udpSide, library
<1>2. /\ Readers' = {} /\ SocksRight'
      /\ DatagramsRight' /\ ForwardsRight' /\ OwnersRight' /\ RecordsRight'
      /\ \A i \in DOMAIN udpq' : udpq'[i].type = "CLOSE"
  BY <1>1, Asked, NothingElse
<1>3. <<>> \in Seq(Datagram) /\ s0 \in Sock \cup {0}
  BY <1>1, Asked
<1>4. /\ CallRight' /\ toApp' \in Seq(Answer) /\ fromApp' \in Seq(Call)
      /\ toApp' = <<[op |-> call.op, sock |-> s0, error |-> FALSE, data |-> <<>>]>>
  BY <1>1, <1>2, <1>3, Answering
<1>5. TypeOK'
  BY <1>1, <1>4 DEF UdpInv, TypeOK
<1>6. ReadOwn'
  BY <1>4, ReadNothing
<1> QED
  BY <1>2, <1>4, <1>5, <1>6 DEF UdpInv

LEMMA SocketRight == UdpInv /\ Socket => UdpInv'
<1> SUFFICES ASSUME UdpInv, Socket PROVE UdpInv'
  OBVIOUS
<1> DEFINE n == LowestOf(FreeSocks)
<1>1. /\ fromApp # <<>> /\ fromApp' = Tail(fromApp) /\ call.op = "SOCKET" /\ FreeSocks # {}
      /\ socks' = [socks EXCEPT ![n].status = "UNBOUND"]
      /\ UNCHANGED <<owner, udpq, forwards, toMux, arrived, call, calls, toUdp, toSock>>
      /\ Tell(call.op, n, FALSE, <<>>)
  BY Asked DEF Socket, Takes, udpSide, library, Granted
<1>2. n \in Sock /\ socks[n].status = "FREE"
  <2>1. FreeSocks \subseteq Nat
    BY DEF FreeSocks, Sock
  <2> QED
    BY <1>1, <2>1, LowestFacts DEF FreeSocks
<1> HIDE DEF n
<1>3. socks \in [Sock -> Entry]
  BY DEF UdpInv, TypeOK
<1>4. /\ socks' \in [Sock -> Entry] /\ socks'[n].status = "UNBOUND"
      /\ \A s \in Sock : /\ s # n => socks'[s].status = socks[s].status
                        /\ socks'[s].conn = socks[s].conn /\ socks'[s].bin = socks[s].bin
  BY <1>1, <1>2, <1>3 DEF Entry, Status
<1>5. /\ Readers' = {} /\ ~Waiting' /\ \A i \in DOMAIN udpq' : udpq'[i].type = "CLOSE"
  BY <1>1, <1>4, Asked DEF Readers, Waiting
<1>6. /\ CallRight' /\ toApp' \in Seq(Answer) /\ fromApp' \in Seq(Call)
      /\ toApp' = <<[op |-> call.op, sock |-> n, error |-> FALSE, data |-> <<>>]>>
  <2>1. <<>> \in Seq(Datagram) /\ n \in Sock \cup {0}
    BY <1>2
  <2> QED
    BY <1>1, <1>5, <2>1, Answering
<1>7. TypeOK'
  BY <1>1, <1>4, <1>6 DEF UdpInv, TypeOK
<1>8. ReadOwn'
  BY <1>6, ReadNothing
<1>9. DatagramsRight' /\ RecordsRight' /\ ForwardsRight' /\ OwnersRight'
  BY <1>1, <1>4, ConnsKept DEF UdpInv, DatagramsRight, RecordsRight, Meets, Statuses
<1>10. SocksRight'
  BY <1>1, <1>2, <1>4, Asked DEF UdpInv, SocksRight
<1> QED
  BY <1>6, <1>7, <1>8, <1>9, <1>10 DEF UdpInv

\* A request to udp_module, with a record of it.
LEMMA Requested ==
  ASSUME UdpInv, NEW type \in {"FORWARD", "WRITE", "CLOSE"}, NEW c \in Connection, s0 \in Sock,
         SendUDPRequest(type, c), UNCHANGED <<toSock, forwards>>,
         \A s \in Sock :
           \/ socks'[s].conn = socks[s].conn
           \/ socks[s].conn.port = NoPort
           \/ type # "WRITE" /\ c.port = socks[s].conn.port /\ Matches(c, socks[s].conn)
  PROVE  /\ RecordsRight' /\ ForwardsRight' /\ DatagramsRight'
         /\ toUdp' \in Seq(Request) /\ udpq' \in Seq(Record)
         /\ Len(udpq') = Len(udpq) + 1 /\ Len(udpq) \in Nat /\ DOMAIN udpq' = 1..(Len(udpq) + 1)
         /\ udpq'[Len(udpq) + 1] = [type |-> type, conn |-> c, sock |-> s0]
         /\ \A i \in 1..Len(udpq) : i \in DOMAIN udpq /\ udpq'[i] = udpq[i]
<1> DEFINE r == [type |-> type, conn |-> c]
           q == [type |-> type, conn |-> c, sock |-> s0]
<1>1. r \in Request /\ q \in Record /\ r.conn = c /\ r.type = type /\ q.conn = c /\ q.type = type
  BY DEF Request, Record
<1>2. toUdp' = Append(toUdp, r) /\ udpq' = Append(udpq, q)
  BY DEF SendUDPRequest
<1> HIDE DEF r, q
<1>3. /\ toUdp \in Seq(Request) /\ udpq \in Seq(Record) /\ toSock \in Seq(Message)
      /\ forwards \in Seq(Connection)
  BY DEF UdpInv, TypeOK
<1>4. toUdp' \in Seq(Request) /\ udpq' \in Seq(Record)
  BY <1>1, <1>2, <1>3
<1>5. /\ Len(udpq') = Len(udpq) + 1 /\ Len(udpq) \in Nat /\ udpq'[Len(udpq) + 1] = q
      /\ DOMAIN udpq' = 1..(Len(udpq) + 1)
      /\ \A i \in 1..Len(udpq) : i \in DOMAIN udpq /\ udpq'[i] = udpq[i]
  BY <1>1, <1>2, <1>3
<1>6. RecordsRight'
  <2>1. Meets(toSock, Append(toUdp, r), Append(udpq, q))
    BY <1>1, <1>3, MeetsRequest DEF UdpInv, RecordsRight
  <2> QED
    BY <1>2, <2>1 DEF RecordsRight, Meets, Statuses
<1>7. DatagramsRight'
  BY DEF UdpInv, DatagramsRight
<1>8. /\ Len(toUdp) + 1 \in DOMAIN toUdp' /\ toUdp'[Len(toUdp) + 1] = r
      /\ \A j \in DOMAIN toUdp : j \in DOMAIN toUdp' /\ toUdp'[j] = toUdp[j]
  BY <1>1, <1>2, <1>3
<1>9. ASSUME NEW i \in DOMAIN forwards
      PROVE  Owned(forwards[i], socks', toUdp')
  <2>1. Owned(forwards[i], socks, toUdp) /\ forwards[i].port # NoPort
    BY SockAssumption DEF UdpInv, ForwardsRight
  <2>2. CASE \E j \in DOMAIN toUdp : /\ toUdp[j].type # "WRITE"
                                   /\ toUdp[j].conn.port = forwards[i].port
                                   /\ Matches(toUdp[j].conn, forwards[i])
    BY <1>8, <2>2 DEF Owned
  <2>3. CASE \E s \in Sock : socks[s].conn = forwards[i]
    BY <1>1, <1>8, <2>1, <2>3 DEF Owned
  <2> QED
    BY <2>1, <2>2, <2>3 DEF Owned
<1>10. ForwardsRight'
  BY <1>9 DEF UdpInv, ForwardsRight
<1> QED
  BY <1>4, <1>5, <1>6, <1>7, <1>10 DEF q

\* A FORWARD or a WRITE is answered later.
LEMMA RequestWaits ==
  ASSUME UdpInv, fromApp # <<>>, fromApp' = Tail(fromApp), UNCHANGED <<call, toApp>>,
         NEW type \in {"FORWARD", "WRITE"}, s0 \in Sock, Readers' = {},
         socks'[s0].conn \in Connection, socks'[s0].conn.port \in Ports,
         Len(udpq') = Len(udpq) + 1, Len(udpq) \in Nat, DOMAIN udpq' = 1..(Len(udpq) + 1),
         udpq'[Len(udpq) + 1] = [type |-> type, conn |-> socks'[s0].conn, sock |-> s0],
         \A i \in 1..Len(udpq) : i \in DOMAIN udpq /\ udpq'[i] = udpq[i]
  PROVE  CallRight' /\ Waiting' /\ fromApp' = <<>> /\ toApp' = <<>> /\ s0 = call.sock
<1>1. /\ fromApp' = <<>> /\ toApp' = <<>> /\ call # NoCall /\ s0 = call.sock
      /\ \A i \in DOMAIN udpq : udpq[i].type = "CLOSE"
  BY Asked
<1>2. \A i \in DOMAIN udpq' : i = Len(udpq) + 1 \/ udpq'[i].type = "CLOSE"
  BY <1>1
<1>3. Waiting'
  BY DEF Waiting
<1>4. Calling'
  BY <1>1 DEF Calling
<1>5. \A i \in DOMAIN udpq' : udpq'[i].type # "CLOSE" =>
        /\ i = Len(udpq') /\ Calling' /\ udpq'[i].sock = call'.sock /\ Readers' = {}
        /\ udpq'[i].conn = socks'[udpq'[i].sock].conn /\ udpq'[i].conn.port \in Ports
  BY <1>1, <1>2, <1>4
<1>6. CallRight'
  BY <1>1, <1>5 DEF CallRight, UdpInv
<1> QED
  BY <1>1, <1>3, <1>6

\* The bin of a socket without a port is empty.
LEMMA NoPortEmpty ==
  ASSUME UdpInv, NEW s \in Sock, socks[s].conn.port = NoPort
  PROVE  DOMAIN socks[s].bin = {}
<1>1. socks[s] \in Entry
  BY DEF UdpInv, TypeOK
<1>2. socks[s].bin \in Seq(Datagram)
  BY <1>1 DEF Entry
<1>3. \A i \in DOMAIN socks[s].bin : socks[s].bin[i] \in Datagram
  BY <1>2
<1>4. \A i \in DOMAIN socks[s].bin : socks[s].bin[i].port \in Ports
  BY <1>3 DEF Datagram
<1> QED
  BY <1>4, SockAssumption DEF UdpInv, SocksRight

\* What Bind, Connect and Write have in common.
LEMMA RequestRight ==
  ASSUME UdpInv, fromApp # <<>>, fromApp' = Tail(fromApp), s0 \in Sock,
         UNCHANGED <<call, calls, toApp, toSock, forwards, toMux, arrived>>,
         NEW type \in {"FORWARD", "WRITE"}, SendUDPRequest(type, socks'[s0].conn),
         socks' \in [Sock -> Entry], owner' \in [Ports -> Sock \cup {0}],
         \A s \in Sock \ {s0} : socks'[s] = socks[s],
         socks'[s0].bin = socks[s0].bin,
         socks'[s0].status \in {"UNBOUND", "CONNECTED", "WRITE_PENDING"},
         socks'[s0].conn.port \in Ports,
         OwnersRight',
         \/ socks'[s0].conn = socks[s0].conn
         \/ socks[s0].conn.port = NoPort
         \/ /\ type # "WRITE" /\ socks'[s0].conn.port = socks[s0].conn.port
            /\ Matches(socks'[s0].conn, socks[s0].conn)
  PROVE  UdpInv'
<1> DEFINE c == socks'[s0].conn
<1>1. c \in Connection
  BY DEF Entry
<1>2. /\ RecordsRight' /\ ForwardsRight' /\ DatagramsRight'
      /\ toUdp' \in Seq(Request) /\ udpq' \in Seq(Record)
      /\ Len(udpq') = Len(udpq) + 1 /\ Len(udpq) \in Nat /\ DOMAIN udpq' = 1..(Len(udpq) + 1)
      /\ udpq'[Len(udpq) + 1] = [type |-> type, conn |-> c, sock |-> s0]
      /\ \A i \in 1..Len(udpq) : i \in DOMAIN udpq /\ udpq'[i] = udpq[i]
  <2>1. \A s \in Sock :
          \/ socks'[s].conn = socks[s].conn
          \/ socks[s].conn.port = NoPort
          \/ type # "WRITE" /\ c.port = socks[s].conn.port /\ Matches(c, socks[s].conn)
    OBVIOUS
  <2>2. SendUDPRequest(type, c)
    OBVIOUS
  <2> HIDE DEF c
  <2> QED
    BY <1>1, <2>1, <2>2, Requested
<1>3. Readers' = {}
  BY Asked DEF Readers
<1>4. CallRight' /\ Waiting' /\ fromApp' = <<>> /\ toApp' = <<>> /\ s0 = call.sock
  BY <1>1, <1>2, <1>3, RequestWaits
<1>5. TypeOK'
  <2>1. \A s \in Sock : Len(socks'[s].bin) <= BinSize
    BY DEF UdpInv, TypeOK
  <2>2. \A S : <<>> \in Seq(S)
    OBVIOUS
  <2> QED
    BY <1>2, <1>4, <2>1, <2>2 DEF UdpInv, TypeOK
<1>6. SocksRight'
  <2>1. ASSUME NEW s \in Sock, s # s0
        PROVE  /\ \A i \in DOMAIN socks'[s].bin : socks'[s].bin[i].port = socks'[s].conn.port
               /\ socks'[s].conn.port = NoPort => socks'[s].status \in {"FREE", "UNBOUND"}
               /\ socks'[s].status = "FREE" => socks'[s].conn = Unconnected
               /\ socks'[s].status = "UNBOUND" => socks'[s].conn = Unconnected
               /\ socks'[s].status = "BOUND" => socks'[s].conn.end = AnyEnd
    BY <2>1, Asked DEF UdpInv, SocksRight
  <2>2. \A i \in DOMAIN socks'[s0].bin : socks'[s0].bin[i].port = socks'[s0].conn.port
    <3>1. CASE socks'[s0].conn.port = socks[s0].conn.port
      BY <3>1 DEF UdpInv, SocksRight
    <3>2. CASE socks[s0].conn.port = NoPort
      BY <3>2, NoPortEmpty
    <3> QED
      BY <3>1, <3>2
  <2>3. socks'[s0].conn.port # NoPort
    BY SockAssumption
  <2>4. s0 = call'.sock
    BY <1>4
  <2> QED
    BY <1>4, <2>1, <2>2, <2>3, <2>4 DEF SocksRight
<1>7. ReadOwn'
  BY <1>4 DEF ReadOwn
<1> QED
  BY <1>2, <1>4, <1>5, <1>6, <1>7 DEF UdpInv

\* A socket without a port gets one.
LEMMA ReserveFacts ==
  ASSUME UdpInv, fromApp # <<>>, s0 \in Sock, socks[s0].status = "UNBOUND",
         NEW c, AsksPorts(c) # {}, NEW status \in {"UNBOUND", "CONNECTED"},
         NEW end \in Remote \cup {AnyEnd}, Reserve(AsksPorts(c), status, end)
  PROVE  /\ socks[s0].conn = Unconnected
         /\ socks' \in [Sock -> Entry] /\ owner' \in [Ports -> Sock \cup {0}]
         /\ \A s \in Sock \ {s0} : socks'[s] = socks[s]
         /\ socks'[s0].bin = socks[s0].bin /\ socks'[s0].status = status
         /\ socks'[s0].conn.port \in Ports
         /\ UNCHANGED forwards => OwnersRight'
<1> DEFINE p == LowestOf(AsksPorts(c))
<1>1. p \in Ports /\ owner[p] = 0
  <2>1. AsksPorts(c) \subseteq Ports /\ Ports \subseteq Nat
    BY SockAssumption DEF AsksPorts, FreePorts
  <2>2. p \in AsksPorts(c)
    BY <2>1, LowestFacts
  <2> QED
    BY <2>1, <2>2 DEF AsksPorts, FreePorts
<1>2. /\ owner' = [owner EXCEPT ![p] = s0]
      /\ socks' = [socks EXCEPT ![s0].status = status, ![s0].conn = [port |-> p, end |-> end]]
  BY DEF Reserve
<1> HIDE DEF p
<1>3. socks \in [Sock -> Entry] /\ owner \in [Ports -> Sock \cup {0}]
  BY DEF UdpInv, TypeOK
<1>4. [port |-> p, end |-> end] \in Connection
  BY <1>1 DEF Connection
<1>5. socks[s0].conn = Unconnected
  BY Asked DEF UdpInv, SocksRight
<1>6. /\ socks' \in [Sock -> Entry] /\ owner' \in [Ports -> Sock \cup {0}]
      /\ \A s \in Sock \ {s0} : socks'[s] = socks[s]
      /\ socks'[s0].bin = socks[s0].bin /\ socks'[s0].status = status
      /\ socks'[s0].conn.port = p /\ owner'[p] = s0
      /\ \A k \in Ports \ {p} : owner'[k] = owner[k]
  BY <1>1, <1>2, <1>3, <1>4 DEF Entry, Status
<1>7. ASSUME UNCHANGED forwards PROVE OwnersRight'
  <2>1. \A s \in Sock : socks[s].conn.port \in Ports \cup {NoPort} /\ s # 0
    BY <1>3 DEF Entry, Connection, Sock
  <2>2. \A s \in Sock \ {s0} : socks[s].conn.port # p
    BY <1>1, <2>1, SockAssumption DEF UdpInv, OwnersRight
  <2>3. \A s \in Sock : socks'[s].conn.port # NoPort => owner'[socks'[s].conn.port] = s
    BY <1>6, <2>1, <2>2 DEF UdpInv, OwnersRight
  <2>4. ASSUME NEW i \in DOMAIN forwards
        PROVE  /\ owner'[forwards[i].port] # 0
               /\ \A s \in Sock : socks'[s].conn.port = forwards[i].port =>
                    forwards[i].end = AnyEnd \/ forwards[i] = socks'[s].conn
    <3>1. forwards[i].port \in Ports /\ owner[forwards[i].port] # 0
      BY DEF UdpInv, ForwardsRight, OwnersRight
    <3>2. forwards[i].port # p
      BY <1>1, <3>1
    <3> QED
      BY <1>6, <3>1, <3>2 DEF UdpInv, OwnersRight
  <2> QED
    BY <1>7, <2>3, <2>4 DEF OwnersRight
<1> QED
  BY <1>1, <1>5, <1>6, <1>7

LEMMA BindRight == UdpInv /\ Bind => UdpInv'
<1> SUFFICES ASSUME UdpInv, Bind PROVE UdpInv'
  OBVIOUS
<1>1. /\ fromApp # <<>> /\ fromApp' = Tail(fromApp) /\ call.op = "BIND" /\ s0 \in Sock
      /\ UNCHANGED <<call, calls, toApp, toSock, forwards, toMux, arrived>>
      /\ SendUDPRequest("FORWARD", socks'[s0].conn)
      /\ Reserve(AsksPorts(call.conn), "UNBOUND", socks[s0].conn.end)
  BY Asked DEF Bind, Takes, udpSide, library
<1>2. socks[s0].status = "UNBOUND" /\ AsksPorts(call.conn) # {}
  BY <1>1, Asked, SockAssumption DEF Bind, Takes, Granted, s0, Sock
<1>3. socks[s0].conn.end \in Remote \cup {AnyEnd}
  BY <1>1 DEF UdpInv, TypeOK, Entry, Connection
<1>4. /\ socks[s0].conn = Unconnected
      /\ socks' \in [Sock -> Entry] /\ owner' \in [Ports -> Sock \cup {0}]
      /\ \A s \in Sock \ {s0} : socks'[s] = socks[s]
      /\ socks'[s0].bin = socks[s0].bin /\ socks'[s0].status = "UNBOUND"
      /\ socks'[s0].conn.port \in Ports /\ OwnersRight'
  BY <1>1, <1>2, <1>3, ReserveFacts
<1>5. socks[s0].conn.port = NoPort
  BY <1>4 DEF Unconnected
<1> QED
  BY <1>1, <1>4, <1>5, RequestRight

LEMMA ConnectRight == UdpInv /\ Connect => UdpInv'
<1> SUFFICES ASSUME UdpInv, Connect PROVE UdpInv'
  OBVIOUS
<1> DEFINE r == call.conn
<1>1. /\ fromApp # <<>> /\ fromApp' = Tail(fromApp) /\ call.op = "CONNECT" /\ s0 \in Sock
      /\ UNCHANGED <<call, calls, toApp, toSock, forwards, toMux, arrived>>
      /\ SendUDPRequest("FORWARD", socks'[s0].conn)
      /\ \/ socks[s0].status = "UNBOUND" /\ Reserve(AsksPorts(r), "CONNECTED", r.end)
         \/ /\ socks[s0].status = "BOUND"
            /\ socks' = [socks EXCEPT ![s0].status = "CONNECTED", ![s0].conn.end = r.end]
            /\ UNCHANGED owner
  BY Asked DEF Connect, Takes, udpSide, library
<1>2. r.end \in Remote \cup {AnyEnd}
  BY <1>1, Asked DEF Call, Connection
<1>3. CASE /\ socks[s0].status = "UNBOUND" /\ Reserve(AsksPorts(r), "CONNECTED", r.end)
  <2>1. AsksPorts(r) # {}
    BY <1>1, <1>3, Asked, SockAssumption DEF Connect, Takes, Granted, s0, Sock
  <2>2. /\ socks[s0].conn = Unconnected
        /\ socks' \in [Sock -> Entry] /\ owner' \in [Ports -> Sock \cup {0}]
        /\ \A s \in Sock \ {s0} : socks'[s] = socks[s]
        /\ socks'[s0].bin = socks[s0].bin /\ socks'[s0].status = "CONNECTED"
        /\ socks'[s0].conn.port \in Ports /\ OwnersRight'
    BY <1>1, <1>2, <1>3, <2>1, ReserveFacts
  <2>3. socks[s0].conn.port = NoPort
    BY <2>2 DEF Unconnected
  <2> QED
    BY <1>1, <2>2, <2>3, RequestRight
<1>4. CASE /\ socks[s0].status = "BOUND"
           /\ socks' = [socks EXCEPT ![s0].status = "CONNECTED", ![s0].conn.end = r.end]
           /\ UNCHANGED owner
  <2>1. /\ socks \in [Sock -> Entry] /\ owner \in [Ports -> Sock \cup {0}]
        /\ socks[s0].conn \in Connection
    BY <1>1 DEF UdpInv, TypeOK, Entry
  <2>2. socks[s0].conn.end = AnyEnd /\ socks[s0].conn.port # NoPort
    BY <1>1, <1>4 DEF UdpInv, SocksRight
  <2>3. socks'[s0].conn = [port |-> socks[s0].conn.port, end |-> r.end]
    BY <1>1, <1>4, <2>1 DEF Entry, Connection
  <2>4. socks'[s0].conn \in Connection /\ socks[s0].conn.port \in Ports
    BY <1>2, <2>1, <2>2, <2>3 DEF Connection
  <2>5. /\ socks' \in [Sock -> Entry]
        /\ \A s \in Sock \ {s0} : socks'[s] = socks[s]
        /\ socks'[s0].bin = socks[s0].bin /\ socks'[s0].status = "CONNECTED"
    <3>1. /\ DOMAIN socks' = Sock /\ \A s \in Sock \ {s0} : socks'[s] = socks[s]
          /\ socks'[s0].bin = socks[s0].bin /\ socks'[s0].status = "CONNECTED"
          /\ socks' = [s \in Sock |-> socks'[s]]
      BY <1>1, <1>4, <2>1 DEF Entry
    <3>2. socks'[s0] \in Entry
      <4>1. socks'[s0] = [status |-> "CONNECTED", conn |-> socks'[s0].conn, bin |-> socks[s0].bin]
        BY <1>1, <1>4, <2>1, ZenonT(60) DEF Entry
      <4> QED
        BY <1>1, <2>1, <2>4, <4>1 DEF Entry, Status
    <3> QED
      BY <2>1, <3>1, <3>2
  <2>6. Matches(socks'[s0].conn, socks[s0].conn) /\ socks'[s0].conn.port = socks[s0].conn.port
    BY <2>2, <2>3 DEF Matches
  <2>7. OwnersRight'
    <3>1. /\ \A s \in Sock : socks'[s].conn.port = socks[s].conn.port
          /\ \A i \in DOMAIN forwards :
               socks[s0].conn.port = forwards[i].port => forwards[i].end = AnyEnd
      BY <1>1, <2>2, <2>5, <2>6 DEF UdpInv, OwnersRight
    <3> QED
      BY <1>1, <1>4, <2>5, <3>1 DEF UdpInv, OwnersRight
  <2> QED
    BY <1>1, <1>4, <2>1, <2>3, <2>4, <2>5, <2>6, <2>7, RequestRight
<1> QED
  BY <1>1, <1>3, <1>4

LEMMA WriteRight == UdpInv /\ Write => UdpInv'
<1> SUFFICES ASSUME UdpInv, Write PROVE UdpInv'
  OBVIOUS
<1>1. /\ fromApp # <<>> /\ fromApp' = Tail(fromApp) /\ call.op = "WRITE" /\ s0 \in Sock
      /\ UNCHANGED <<call, calls, toApp, toSock, forwards, toMux, arrived, owner>>
      /\ SendUDPRequest("WRITE", socks[s0].conn)
      /\ socks' = [socks EXCEPT ![s0].status = "WRITE_PENDING"]
  BY Asked DEF Write, Takes, udpSide, library
<1>2. socks[s0].status = "CONNECTED"
  BY <1>1, Asked, SockAssumption DEF Write, Takes, Granted, s0, Sock
<1>3. socks \in [Sock -> Entry] /\ owner \in [Ports -> Sock \cup {0}]
  BY DEF UdpInv, TypeOK
<1>4. socks[s0].conn.port \in Ports
  BY <1>1, <1>2, <1>3 DEF UdpInv, SocksRight, Entry, Connection
<1>5. /\ socks' \in [Sock -> Entry] /\ \A s \in Sock \ {s0} : socks'[s] = socks[s]
      /\ socks'[s0].bin = socks[s0].bin /\ socks'[s0].conn = socks[s0].conn
      /\ socks'[s0].status = "WRITE_PENDING"
  BY <1>1, <1>3 DEF Entry, Status
<1>6. OwnersRight'
  BY <1>1, <1>5 DEF UdpInv, OwnersRight
<1> QED
  BY <1>1, <1>3, <1>4, <1>5, <1>6, RequestRight

LEMMA ReadRight == UdpInv /\ Read => UdpInv'
<1> SUFFICES ASSUME UdpInv, Read PROVE UdpInv'
  OBVIOUS
<1>1. /\ fromApp # <<>> /\ fromApp' = Tail(fromApp) /\ call.op = "READ" /\ s0 \in Sock
      /\ UNCHANGED <<call, calls, toUdp, udpq, toSock, forwards, toMux, arrived, owner>>
  BY Asked DEF Read, Takes, udpSide, library
<1>2. socks[s0].status \in {"CONNECTED", "BOUND"}
  BY <1>1, Asked, SockAssumption DEF Read, Takes, Granted, s0, Sock
<1>3. socks \in [Sock -> Entry] /\ \A s \in Sock : socks[s].bin \in Seq(Datagram)
  BY DEF UdpInv, TypeOK, Entry
<1>4. /\ \A i \in DOMAIN udpq' : udpq'[i].type = "CLOSE"
      /\ DatagramsRight' /\ RecordsRight'
  BY <1>1, Asked DEF UdpInv, DatagramsRight, RecordsRight, Meets, Statuses
<1>5. CASE UNCHANGED socks /\ Tell("READ", s0, FALSE, socks[s0].bin)
  <2>1. Readers' = {} /\ ForwardsRight' /\ OwnersRight' /\ SocksRight'
    BY <1>1, <1>5, Asked, NothingElse
  <2>2. /\ CallRight' /\ toApp' \in Seq(Answer) /\ fromApp' \in Seq(Call)
        /\ toApp' = <<[op |-> call.op, sock |-> s0, error |-> FALSE, data |-> socks[s0].bin]>>
    BY <1>1, <1>3, <1>4, <1>5, <2>1, Answering
  <2>3. TypeOK'
    BY <1>1, <1>5, <2>2 DEF UdpInv, TypeOK
  <2>4. ReadOwn'
    BY <1>1, <1>5, <2>2 DEF ReadOwn, UdpInv, SocksRight
  <2> QED
    BY <1>4, <2>1, <2>2, <2>3, <2>4 DEF UdpInv
<1>6. CASE UNCHANGED toApp /\ socks' = [socks EXCEPT ![s0].status = "READ_PENDING"]
  <2>1. /\ socks' \in [Sock -> Entry] /\ \A s \in Sock \ {s0} : socks'[s] = socks[s]
        /\ socks'[s0].bin = socks[s0].bin /\ socks'[s0].conn = socks[s0].conn
        /\ socks'[s0].status = "READ_PENDING"
    BY <1>1, <1>3, <1>6 DEF Entry, Status
  <2>2. /\ fromApp' = <<>> /\ toApp' = <<>> /\ call # NoCall /\ s0 = call.sock
    BY <1>1, <1>6, Asked
  <2>3. Readers' = {s0} /\ ~Waiting'
    BY <1>1, <1>4, <2>1, Asked DEF Readers, Waiting
  <2>4. CallRight'
    BY <1>1, <1>4, <2>2, <2>3 DEF UdpInv, CallRight, Calling
  <2>5. TypeOK'
    <3>1. \A s \in Sock : Len(socks'[s].bin) <= BinSize
      BY <1>1, <2>1 DEF UdpInv, TypeOK
    <3>2. \A S : <<>> \in Seq(S)
      OBVIOUS
    <3> QED
      BY <1>1, <2>1, <2>2, <3>1, <3>2 DEF UdpInv, TypeOK
  <2>6. ForwardsRight' /\ OwnersRight'
    BY <1>1, <2>1, ConnsKept
  <2>7. SocksRight'
    <3>1. \A s \in Sock : /\ \A i \in DOMAIN socks'[s].bin :
                               socks'[s].bin[i].port = socks'[s].conn.port
      BY <1>1, <2>1 DEF UdpInv, SocksRight
    <3>2. socks'[s0].conn.port # NoPort
      BY <1>1, <1>2, <2>1 DEF UdpInv, SocksRight
    <3> QED
      BY <1>1, <2>1, <3>1, <3>2, Asked DEF UdpInv, SocksRight
  <2>8. ReadOwn'
    BY <2>2 DEF ReadOwn
  <2> QED
    BY <1>4, <2>4, <2>5, <2>6, <2>7, <2>8 DEF UdpInv
<1> QED
  BY <1>5, <1>6 DEF Read

LEMMA CloseRight == UdpInv /\ Close => UdpInv'
<1> SUFFICES ASSUME UdpInv, Close PROVE UdpInv'
  OBVIOUS
<1> DEFINE c == socks[s0].conn
<1>1. /\ fromApp # <<>> /\ fromApp' = Tail(fromApp) /\ call.op = "CLOSE" /\ s0 \in Sock
      /\ UNCHANGED <<call, calls, toSock, forwards, toMux, arrived, owner>>
      /\ socks' = [socks EXCEPT ![s0] = Closed]
      /\ SendUDPRequest("CLOSE", c) /\ Tell(call.op, s0, FALSE, <<>>)
  BY Asked DEF Close, Takes, udpSide, library, CloseSocket, RequestBeforeClose
<1>2. socks \in [Sock -> Entry] /\ c \in Connection
  BY <1>1 DEF UdpInv, TypeOK, Entry
<1>3. Closed \in Entry
  <2>1. <<>> \in Seq(Datagram)
    OBVIOUS
  <2> QED
    BY <2>1 DEF Closed, Entry, Status, Connection, Unconnected
<1>4. /\ socks' \in [Sock -> Entry] /\ socks'[s0] = Closed
      /\ \A s \in Sock \ {s0} : socks'[s] = socks[s]
  BY <1>1, <1>2, <1>3
<1>5. Matches(c, c)
  BY DEF Matches
<1>6. /\ RecordsRight' /\ ForwardsRight' /\ DatagramsRight'
      /\ toUdp' \in Seq(Request) /\ udpq' \in Seq(Record)
      /\ Len(udpq') = Len(udpq) + 1 /\ Len(udpq) \in Nat /\ DOMAIN udpq' = 1..(Len(udpq) + 1)
      /\ udpq'[Len(udpq) + 1] = [type |-> "CLOSE", conn |-> c, sock |-> s0]
      /\ \A i \in 1..Len(udpq) : i \in DOMAIN udpq /\ udpq'[i] = udpq[i]
  <2>1. \A s \in Sock : socks'[s].conn = socks[s].conn
                      \/ (c.port = socks[s].conn.port /\ Matches(c, socks[s].conn))
    BY <1>4, <1>5
  <2> HIDE DEF c
  <2> QED
    BY <1>1, <1>2, <2>1, Requested
<1>7. \A i \in DOMAIN udpq' : udpq'[i].type = "CLOSE"
  BY <1>1, <1>6, Asked
<1>8. Readers' = {}
  BY <1>1, <1>4, Asked DEF Readers, Closed
<1>9. /\ CallRight' /\ toApp' \in Seq(Answer) /\ fromApp' \in Seq(Call)
      /\ toApp' = <<[op |-> call.op, sock |-> s0, error |-> FALSE, data |-> <<>>]>>
  <2>1. <<>> \in Seq(Datagram)
    OBVIOUS
  <2> QED
    BY <1>1, <1>7, <1>8, <2>1, Answering
<1>10. TypeOK'
  <2>1. \A s \in Sock : Len(socks'[s].bin) <= BinSize
    <3>1. Len(Closed.bin) = 0 /\ BinSize \in Nat
      BY BoundAssumption DEF Closed
    <3>2. \A s \in Sock \ {s0} : Len(socks'[s].bin) <= BinSize
      BY <1>4 DEF UdpInv, TypeOK
    <3> QED
      BY <1>4, <3>1, <3>2
  <2> QED
    BY <1>1, <1>4, <1>6, <1>9, <2>1 DEF UdpInv, TypeOK
<1>11. SocksRight'
  <2>1. ~Waiting
    BY <1>1, Asked
  <2> QED
    BY <1>1, <1>4, <2>1 DEF UdpInv, SocksRight, Closed
<1>12. ReadOwn'
  BY <1>9, ReadNothing
<1>13. OwnersRight'
  <2>1. socks'[s0].conn.port = NoPort /\ \A i \in DOMAIN forwards : forwards[i].port # NoPort
    <3>1. socks'[s0].conn.port = NoPort
      BY <1>4 DEF Closed, Unconnected
    <3>2. \A i \in DOMAIN forwards : forwards[i].port # NoPort
      BY SockAssumption DEF UdpInv, ForwardsRight
    <3> QED
      BY <3>1, <3>2
  <2> QED
    BY <1>1, <1>4, <2>1 DEF UdpInv, OwnersRight
<1> QED
  BY <1>6, <1>9, <1>10, <1>11, <1>12, <1>13 DEF UdpInv

LEMMA ProcessAppRequestRight == UdpInv /\ ProcessAppRequest => UdpInv'
BY RefuseRight, SocketRight, BindRight, ConnectRight, ReadRight, WriteRight, NotKnownRight,
   CloseRight DEF ProcessAppRequest

-----------------------------------------------------------------------------
(* sock_module: a message of udp_module.                                   *)

LEMMA FoundFacts ==
  ASSUME NEW c, FoundBy(c) # {}
  PROVE  LowestOf(FoundBy(c)) \in Sock /\ socks[LowestOf(FoundBy(c))].conn = c
<1>1. FoundBy(c) \subseteq Nat
  BY DEF FoundBy, Sock
<1>2. LowestOf(FoundBy(c)) \in FoundBy(c)
  BY <1>1, LowestFacts
<1> QED
  BY <1>2 DEF FoundBy

\* The message is taken.
LEMMA MessageTaken ==
  ASSUME UdpInv, NEW type \in {"STATUS", "WRITE"}, FromUdp(type)
  PROVE  LET m == Head(toSock) IN
           /\ m \in Message /\ m.type = type /\ toSock' = Tail(toSock) /\ toSock # <<>>
           /\ toSock' \in Seq(Message) /\ DatagramsRight'
           /\ UNCHANGED <<owner, forwards, toMux, arrived, call, calls, toUdp, fromApp>>
           /\ type = "WRITE" => /\ m.data \in Seq(Datagram) /\ Len(m.data) = 1
                               /\ m.data[1].port = m.conn.port /\ m.conn.port \in Ports
<1>1. /\ toSock # <<>> /\ toSock' = Tail(toSock) /\ Head(toSock).type = type
      /\ UNCHANGED <<owner, forwards, toMux, arrived, call, calls, toUdp, fromApp>>
  BY DEF FromUdp, udpSide, library
<1>2. toSock \in Seq(Message)
  BY DEF UdpInv, TypeOK
<1>3. /\ Head(toSock) = toSock[1] /\ 1 \in DOMAIN toSock /\ toSock[1] \in Message
      /\ toSock' \in Seq(Message)
      /\ \A i \in DOMAIN toSock' : i + 1 \in DOMAIN toSock /\ toSock'[i] = toSock[i + 1]
  BY <1>1, <1>2
<1>4. DatagramsRight'
  BY <1>3 DEF UdpInv, DatagramsRight
<1> QED
  BY <1>1, <1>3, <1>4 DEF UdpInv, DatagramsRight, Message

LEMMA AddOne ==
  ASSUME NEW S, NEW a \in Seq(S), NEW b \in Seq(S), Len(b) = 1
  PROVE  /\ a \o b \in Seq(S) /\ Len(a \o b) = Len(a) + 1
         /\ \A i \in DOMAIN (a \o b) : (a \o b)[i] = IF i \in DOMAIN a THEN a[i] ELSE b[1]
<1> DEFINE c == a \o b
<1>1. /\ c \in Seq(S) /\ Len(c) = Len(a) + 1
      /\ \A i \in 1..(Len(a) + 1) : c[i] = IF i <= Len(a) THEN a[i] ELSE b[i - Len(a)]
  <2>1. /\ c \in Seq(S) /\ Len(c) = Len(a) + Len(b)
        /\ \A i \in 1..(Len(a) + Len(b)) : c[i] = IF i <= Len(a) THEN a[i] ELSE b[i - Len(a)]
    BY ConcatProperties, Zenon
  <2> QED
    BY <2>1
<1> HIDE DEF c
<1>2. DOMAIN c = 1..(Len(a) + 1) /\ DOMAIN a = 1..Len(a) /\ Len(a) \in Nat
  BY <1>1
<1>3. \A i \in DOMAIN c : i \notin DOMAIN a => i - Len(a) = 1
  BY <1>2
<1> QED
  BY <1>1, <1>2, <1>3 DEF c

LEMMA HandleUDPWriteRight == UdpInv /\ HandleUDPWrite => UdpInv'
<1> SUFFICES ASSUME UdpInv, HandleUDPWrite PROVE UdpInv'
  OBVIOUS
<1> DEFINE m     == Head(toSock)
           found == FoundBy(m.conn)
           s     == LowestOf(found)
<1>1. /\ m \in Message /\ m.type = "WRITE" /\ toSock' = Tail(toSock) /\ toSock # <<>>
      /\ toSock' \in Seq(Message) /\ DatagramsRight'
      /\ UNCHANGED <<owner, forwards, toMux, arrived, call, calls, toUdp, fromApp, udpq>>
      /\ m.data \in Seq(Datagram) /\ Len(m.data) = 1
      /\ m.data[1].port = m.conn.port /\ m.conn.port \in Ports
  BY MessageTaken DEF HandleUDPWrite
<1>2. RecordsRight'
  <2>1. toSock \in Seq(Message) /\ toUdp \in Seq(Request) /\ udpq \in Seq(Record)
    BY DEF UdpInv, TypeOK
  <2>2. Meets(Tail(toSock), toUdp, udpq)
    BY <1>1, <2>1, MeetsDatagramTaken DEF UdpInv, RecordsRight
  <2> QED
    BY <1>1, <2>2 DEF RecordsRight, Meets, Statuses
<1>3. socks \in [Sock -> Entry]
  BY DEF UdpInv, TypeOK
<1>4. CASE UNCHANGED <<socks, toApp>>
  <2>1. CallRight' /\ SocksRight' /\ ReadOwn' /\ ForwardsRight' /\ OwnersRight'
    BY <1>1, <1>4 DEF UdpInv, CallRight, SocksRight, ReadOwn, ForwardsRight, Owned, Waiting,
                      Readers, Calling, OwnersRight
  <2>2. TypeOK'
    BY <1>1, <1>4 DEF UdpInv, TypeOK
  <2> QED
    BY <1>1, <1>2, <2>1, <2>2 DEF UdpInv
<1>5. CASE /\ found # {} /\ socks[s].status = "CONNECTED" /\ Fits(s)
           /\ socks' = [socks EXCEPT ![s].bin = @ \o m.data] /\ UNCHANGED toApp
  <2>1. s \in Sock /\ socks[s].conn = m.conn
    BY <1>5, FoundFacts
  <2>2. socks[s].bin \in Seq(Datagram)
    BY <1>3, <2>1 DEF Entry
  <2> DEFINE bin == socks[s].bin \o m.data
  <2>3. /\ bin \in Seq(Datagram) /\ Len(bin) = Len(socks[s].bin) + 1
        /\ \A i \in DOMAIN bin : bin[i] = IF i \in DOMAIN socks[s].bin THEN socks[s].bin[i]
                                        ELSE m.data[1]
    <3> DEFINE old  == socks[s].bin
               data == m.data
    <3>1. old \in Seq(Datagram) /\ data \in Seq(Datagram) /\ Len(data) = 1
      BY <1>1, <2>2
    <3> HIDE DEF old, data
    <3>2. /\ old \o data \in Seq(Datagram) /\ Len(old \o data) = Len(old) + 1
          /\ \A i \in DOMAIN (old \o data) :
               (old \o data)[i] = IF i \in DOMAIN old THEN old[i] ELSE data[1]
      BY <3>1, AddOne
    <3> QED
      BY <3>2 DEF old, data
  <2>4. /\ socks' \in [Sock -> Entry] /\ socks'[s].bin = bin
        /\ \A t \in Sock : /\ t # s => socks'[t] = socks[t]
                          /\ socks'[t].conn = socks[t].conn /\ socks'[t].status = socks[t].status
    <3> HIDE DEF s, bin
    <3>1. socks' = [socks EXCEPT ![s].bin = bin]
      BY <1>5 DEF bin
    <3> QED
      BY <1>3, <2>1, <2>3, <3>1 DEF Entry
  <2> HIDE DEF s, bin
  <2>5. SocksRight'
    <3>1. ASSUME NEW t \in Sock
          PROVE  \A i \in DOMAIN socks'[t].bin : socks'[t].bin[i].port = socks'[t].conn.port
      <4>1. CASE t = s
        BY <1>1, <2>1, <2>3, <2>4, <4>1 DEF UdpInv, SocksRight
      <4>2. CASE t # s
        BY <2>4, <4>2 DEF UdpInv, SocksRight
      <4> QED
        BY <4>1, <4>2
    <3> QED
      BY <1>1, <2>4, <3>1 DEF UdpInv, SocksRight, Waiting
  <2>6. Readers' = Readers /\ Waiting' = Waiting
    BY <1>1, <2>4 DEF Readers, Waiting
  <2>7. CallRight'
    <3>1. \A i \in DOMAIN udpq : udpq[i].sock \in Sock
      <4>1. udpq \in Seq(Record)
        BY DEF UdpInv, TypeOK
      <4>2. \A i \in DOMAIN udpq : udpq[i] \in Record
        BY <4>1
      <4> QED
        BY <4>2 DEF Record
    <3> QED
      BY <1>1, <1>5, <2>4, <2>6, <3>1 DEF UdpInv, CallRight, Calling
  <2>8. ForwardsRight' /\ OwnersRight'
    BY <1>1, <2>4, ConnsKept
  <2>9. TypeOK'
    <3>1. Len(bin) <= BinSize
      BY <1>5, <2>2, <2>3, BoundAssumption DEF Fits, s
    <3>2. \A t \in Sock : Len(socks'[t].bin) <= BinSize
      BY <2>4, <3>1 DEF UdpInv, TypeOK
    <3> QED
      BY <1>1, <1>5, <2>4, <3>2 DEF UdpInv, TypeOK
  <2>10. ReadOwn'
    <3>1. toApp' = toApp
      BY <1>5
    <3>2. ASSUME NEW i \in DOMAIN toApp
          PROVE  toApp[i].sock \in Sock \/ toApp[i].data = <<>>
      <4>1. toApp # <<>> /\ Len(toApp) = 1 /\ toApp \in Seq(Answer)
        BY DEF UdpInv, CallRight, TypeOK
      <4>2. i = 1
        BY <4>1
      <4> QED
        BY <4>1, <4>2 DEF UdpInv, CallRight
    <3> QED
      BY <2>4, <3>1, <3>2 DEF UdpInv, ReadOwn
  <2> QED
    BY <1>1, <1>2, <2>5, <2>7, <2>8, <2>9, <2>10 DEF UdpInv
<1>6. CASE /\ found # {} /\ socks[s].status = "READ_PENDING"
           /\ socks' = [socks EXCEPT ![s].status = "CONNECTED"]
           /\ Tell("READ", s, FALSE, m.data)
  <2>1. s \in Sock /\ socks[s].conn = m.conn
    BY <1>6, FoundFacts
  <2> HIDE DEF s
  <2>2. /\ socks' \in [Sock -> Entry] /\ socks'[s].status = "CONNECTED"
        /\ \A t \in Sock : /\ t # s => socks'[t] = socks[t]
                          /\ socks'[t].conn = socks[t].conn /\ socks'[t].bin = socks[t].bin
    BY <1>3, <1>6, <2>1 DEF Entry, Status
  <2>3. /\ Calling /\ s = call.sock /\ ~Waiting
        /\ \A t \in Sock : socks[t].status = "READ_PENDING" => t = s
    BY <1>6, <2>1 DEF UdpInv, CallRight, Readers
  <2>4. Readers' = {} /\ ~Waiting'
    BY <1>1, <2>2, <2>3 DEF Readers, Waiting
  <2> DEFINE x == [op |-> "READ", sock |-> s, error |-> FALSE, data |-> m.data]
  <2>5. toApp' = <<x>> /\ x \in Answer /\ x.sock = s /\ x.data = m.data
    BY <1>1, <1>6, <2>1, <2>3 DEF Tell, Calling, Answer, Op
  <2> HIDE DEF x
  <2>6. toApp' \in Seq(Answer) /\ Len(toApp') = 1 /\ toApp' # <<>> /\ toApp'[1].sock \in Sock
    BY <2>1, <2>5
  <2>7. CallRight'
    <3>1. \A i \in DOMAIN udpq' : udpq'[i].type = "CLOSE"
      BY <2>4 DEF Waiting
    <3> QED
      BY <1>1, <2>3, <2>4, <2>6, <3>1 DEF UdpInv, CallRight, Calling
  <2>8. SocksRight'
    <3>1. socks[s].conn.port # NoPort
      BY <1>1, <2>1, SockAssumption
    <3>2. \A t \in Sock : \A i \in DOMAIN socks'[t].bin : socks'[t].bin[i].port = socks'[t].conn.port
      BY <2>2 DEF UdpInv, SocksRight
    <3> QED
      BY <2>2, <2>3, <3>1, <3>2 DEF UdpInv, SocksRight
  <2>9. ForwardsRight' /\ OwnersRight'
    BY <1>1, <2>2, ConnsKept
  <2>10. TypeOK'
    <3>1. \A t \in Sock : Len(socks'[t].bin) <= BinSize
      BY <2>2 DEF UdpInv, TypeOK
    <3> QED
      BY <1>1, <2>2, <2>6, <3>1 DEF UdpInv, TypeOK
  <2>11. ReadOwn'
    <3>1. \A i \in DOMAIN toApp' : toApp'[i] = x
      BY <2>5
    <3>2. \A j \in DOMAIN m.data : m.data[j].port = socks'[s].conn.port
      BY <1>1, <2>1, <2>2
    <3> QED
      BY <2>5, <3>1, <3>2 DEF ReadOwn
  <2> QED
    BY <1>1, <1>2, <2>7, <2>8, <2>9, <2>10, <2>11 DEF UdpInv
<1> QED
  <2>1. CASE found # {} /\ socks[s].status = "CONNECTED" /\ Fits(s)
    BY <1>5, <2>1 DEF HandleUDPWrite
  <2>2. CASE found # {} /\ socks[s].status = "READ_PENDING"
    BY <1>6, <2>2 DEF HandleUDPWrite
  <2>3. CASE /\ ~(found # {} /\ socks[s].status = "CONNECTED" /\ Fits(s))
             /\ ~(found # {} /\ socks[s].status = "READ_PENDING")
    BY <1>4, <2>3 DEF HandleUDPWrite
  <2> QED
    BY <2>1, <2>2, <2>3

LEMMA HandleUDPStatusRight == UdpInv /\ HandleUDPStatus => UdpInv'
<1> SUFFICES ASSUME UdpInv, HandleUDPStatus PROVE UdpInv'
  OBVIOUS
<1> DEFINE q == Head(udpq)
<1>1. /\ Head(toSock).type = "STATUS" /\ toSock' = Tail(toSock) /\ toSock # <<>>
      /\ toSock' \in Seq(Message) /\ DatagramsRight'
      /\ UNCHANGED <<owner, forwards, toMux, arrived, call, calls, toUdp, fromApp>>
      /\ udpq' = Tail(udpq)
  BY MessageTaken DEF HandleUDPStatus
<1>2. /\ toSock \in Seq(Message) /\ toUdp \in Seq(Request) /\ udpq \in Seq(Record)
      /\ socks \in [Sock -> Entry]
  BY DEF UdpInv, TypeOK
<1>3. udpq # <<>> /\ RecordsRight'
  <2>1. udpq # <<>> /\ Meets(Tail(toSock), toUdp, Tail(udpq))
    BY <1>1, <1>2, MeetsStatusTaken DEF UdpInv, RecordsRight
  <2> QED
    BY <1>1, <2>1 DEF RecordsRight, Meets, Statuses
<1>4. /\ q = udpq[1] /\ 1 \in DOMAIN udpq /\ q \in Record /\ udpq' \in Seq(Record)
      /\ Len(udpq') = Len(udpq) - 1 /\ Len(udpq) \in Nat /\ DOMAIN udpq' = 1..(Len(udpq) - 1)
      /\ \A i \in DOMAIN udpq' : i + 1 \in DOMAIN udpq /\ udpq'[i] = udpq[i + 1]
  BY <1>1, <1>2, <1>3
<1>5. q.sock \in Sock /\ q.type \in {"FORWARD", "WRITE", "CLOSE"} /\ q.conn \in Connection
  BY <1>4 DEF Record
<1> HIDE DEF q
<1>6. CASE q.type = "CLOSE"
  <2>1. UNCHANGED <<socks, toApp>>
    BY <1>6 DEF HandleUDPStatus, PassedOn, q
  <2>2. Waiting' = Waiting
    <3>1. Waiting' => Waiting
      BY <1>4 DEF Waiting
    <3>2. ASSUME Waiting PROVE Waiting'
      <4>1. PICK i \in DOMAIN udpq : udpq[i].type # "CLOSE"
        BY <3>2 DEF Waiting
      <4>2. i # 1 /\ DOMAIN udpq = 1..Len(udpq)
        BY <1>2, <1>4, <1>6, <4>1
      <4>3. i - 1 \in DOMAIN udpq' /\ udpq'[i - 1] = udpq[(i - 1) + 1] /\ (i - 1) + 1 = i
        BY <1>4, <4>2
      <4> QED
        BY <4>1, <4>3 DEF Waiting
    <3> QED
      BY <3>1, <3>2 DEF Waiting
  <2>3. Readers' = Readers
    BY <2>1 DEF Readers
  <2>4. CallRight'
    <3>1. ASSUME NEW i \in DOMAIN udpq', udpq'[i].type # "CLOSE"
          PROVE  /\ i = Len(udpq') /\ Calling' /\ udpq'[i].sock = call'.sock /\ Readers' = {}
                 /\ udpq'[i].conn = socks'[udpq'[i].sock].conn /\ udpq'[i].conn.port \in Ports
      <4>1. i + 1 \in DOMAIN udpq /\ udpq'[i] = udpq[i + 1]
        BY <1>4
      <4>2. /\ i + 1 = Len(udpq) /\ Calling /\ udpq[i + 1].sock = call.sock /\ Readers = {}
            /\ udpq[i + 1].conn = socks[udpq[i + 1].sock].conn /\ udpq[i + 1].conn.port \in Ports
        BY <3>1, <4>1 DEF UdpInv, CallRight
      <4>3. i = Len(udpq')
        BY <1>4, <4>2
      <4> QED
        BY <1>1, <2>1, <2>3, <4>1, <4>2, <4>3 DEF Calling
    <3> QED
      BY <1>1, <2>1, <2>2, <2>3, <3>1 DEF UdpInv, CallRight, Calling
  <2>5. SocksRight' /\ ReadOwn' /\ ForwardsRight' /\ OwnersRight'
    BY <1>1, <2>1, <2>2 DEF UdpInv, SocksRight, ReadOwn, ForwardsRight, Owned, OwnersRight
  <2>6. TypeOK'
    BY <1>1, <1>4, <2>1 DEF UdpInv, TypeOK
  <2> QED
    BY <1>1, <1>3, <2>4, <2>5, <2>6 DEF UdpInv
<1>7. CASE q.type # "CLOSE"
  <2> DEFINE s  == q.sock
             st == IF socks[s].conn.end # AnyEnd THEN "CONNECTED" ELSE "BOUND"
             o  == IF q.type = "WRITE" THEN "WRITE"
                   ELSE IF q.conn.end = AnyEnd THEN "BIND" ELSE "CONNECT"
             x  == [op |-> o, sock |-> s, error |-> FALSE, data |-> <<>>]
  <2>1. socks' = [socks EXCEPT ![s].status = st] /\ toApp' = Append(toApp, x)
    BY <1>5, <1>7 DEF HandleUDPStatus, PassedOn, Tell, q
  <2>2. /\ Len(udpq) = 1 /\ Calling /\ s = call.sock /\ Readers = {}
        /\ q.conn = socks[s].conn /\ q.conn.port \in Ports
    BY <1>4, <1>7 DEF UdpInv, CallRight
  <2>3. DOMAIN udpq' = {} /\ ~Waiting'
    BY <1>4, <2>2 DEF Waiting
  <2>4. /\ socks' \in [Sock -> Entry] /\ socks'[s].status = st
        /\ \A t \in Sock : /\ t # s => socks'[t] = socks[t]
                          /\ socks'[t].conn = socks[t].conn /\ socks'[t].bin = socks[t].bin
    <3>1. st \in Status
      BY DEF Status
    <3> HIDE DEF st, s
    <3>2. s \in Sock
      BY <1>5 DEF s
    <3> QED
      BY <1>2, <2>1, <3>1, <3>2 DEF Entry
  <2>5. x \in Answer /\ x.sock \in Sock /\ x.data = <<>>
    <3>1. o \in Op /\ <<>> \in Seq(Datagram)
      BY DEF Op
    <3> HIDE DEF o
    <3> QED
      BY <1>5, <3>1 DEF Answer
  <2> HIDE DEF x
  <2>6. /\ toApp' = <<x>> /\ toApp' \in Seq(Answer) /\ Len(toApp') = 1 /\ toApp' # <<>>
        /\ toApp'[1].sock \in Sock
    <3>1. toApp' = <<x>>
      BY <2>1, <2>2 DEF Calling
    <3> QED
      BY <2>5, <3>1
  <2>7. Readers' = {}
    <3>1. \A t \in Sock : socks[t].status # "READ_PENDING"
      BY <2>2 DEF Readers
    <3> QED
      BY <1>5, <2>4, <3>1 DEF Readers
  <2>8. CallRight'
    BY <1>1, <2>2, <2>3, <2>6, <2>7 DEF UdpInv, CallRight, Calling
  <2>9. SocksRight'
    <3>1. \A t \in Sock : \A i \in DOMAIN socks'[t].bin : socks'[t].bin[i].port = socks'[t].conn.port
      BY <2>4 DEF UdpInv, SocksRight
    <3>2. socks'[s].conn.port # NoPort
      BY <1>5, <2>2, <2>4, SockAssumption
    <3>3. \A t \in Sock : t # s => t # call.sock
      BY <2>2
    <3> HIDE DEF s
    <3> QED
      BY <1>1, <2>4, <3>1, <3>2, <3>3 DEF UdpInv, SocksRight
  <2>10. ForwardsRight' /\ OwnersRight'
    BY <1>1, <2>4, ConnsKept
  <2>11. TypeOK'
    <3>1. \A t \in Sock : Len(socks'[t].bin) <= BinSize
      BY <2>4 DEF UdpInv, TypeOK
    <3> QED
      BY <1>1, <1>4, <2>4, <2>6, <3>1 DEF UdpInv, TypeOK
  <2>12. ReadOwn'
    <3>1. \A i \in DOMAIN toApp' : toApp'[i] = x
      BY <2>6
    <3> QED
      BY <2>5, <3>1 DEF ReadOwn
  <2> QED
    BY <1>1, <1>3, <2>8, <2>9, <2>10, <2>11, <2>12 DEF UdpInv
<1> QED
  BY <1>6, <1>7

-----------------------------------------------------------------------------
(* udp_module.                                                             *)

\* A request is served and answered.
LEMMA Serving ==
  ASSUME UdpInv, NEW type \in {"FORWARD", "WRITE", "CLOSE"}, FromSock(type),
         toSock' = ToSock("STATUS", req, <<>>)
  PROVE  /\ toUdp # <<>> /\ toUdp \in Seq(Request) /\ Head(toUdp) = toUdp[1] /\ 1 \in DOMAIN toUdp
         /\ req \in Connection /\ req = toUdp[1].conn /\ toUdp[1].type = type
         /\ toUdp' = Tail(toUdp) /\ toUdp' \in Seq(Request) /\ toSock' \in Seq(Message)
         /\ \A j \in DOMAIN toUdp : j = 1 \/ (j - 1 \in DOMAIN toUdp' /\ toUdp'[j - 1] = toUdp[j])
         /\ UNCHANGED <<socks, owner, udpq, call, calls, fromApp, toApp, arrived>>
         /\ RecordsRight' /\ DatagramsRight' /\ CallRight' /\ SocksRight' /\ ReadOwn'
<1> DEFINE m == [type |-> "STATUS", conn |-> req, data |-> <<>>]
<1>1. /\ toUdp # <<>> /\ Head(toUdp).type = type /\ toUdp' = Tail(toUdp)
      /\ UNCHANGED <<socks, owner, udpq, call, calls, fromApp, toApp, arrived>>
      /\ toSock' = Append(toSock, m)
  BY DEF FromSock, sockSide, library, ToSock
<1>2. toSock \in Seq(Message) /\ toUdp \in Seq(Request) /\ udpq \in Seq(Record)
  BY DEF UdpInv, TypeOK
<1>3. /\ Head(toUdp) = toUdp[1] /\ 1 \in DOMAIN toUdp /\ toUdp[1] \in Request
      /\ toUdp' \in Seq(Request)
      /\ \A j \in DOMAIN toUdp : j = 1 \/ (j - 1 \in DOMAIN toUdp' /\ toUdp'[j - 1] = toUdp[j])
  BY <1>1, <1>2
<1>4. req \in Connection /\ req = toUdp[1].conn
  BY <1>3 DEF req, Request
<1>5. m \in Message /\ m.type = "STATUS" /\ m.conn = Head(toUdp).conn
  <2>1. <<>> \in Seq(Datagram)
    OBVIOUS
  <2> QED
    BY <1>3, <1>4, <2>1 DEF Message
<1> HIDE DEF m
<1>6. toSock' \in Seq(Message)
  <2>1. Append(toSock, m) \in Seq(Message)
    BY <1>2, <1>5
  <2> QED
    BY <1>1, <2>1
<1>7. RecordsRight'
  <2>1. Meets(Append(toSock, m), Tail(toUdp), udpq)
    BY <1>1, <1>2, <1>5, MeetsStatus DEF UdpInv, RecordsRight
  <2> QED
    BY <1>1, <2>1, ZenonT(60) DEF RecordsRight, Meets, Statuses
<1>8. DatagramsRight'
  <2>1. \A i \in DOMAIN toSock' : (i \in DOMAIN toSock /\ toSock'[i] = toSock[i]) \/ toSock'[i] = m
    BY <1>1, <1>2, <1>5
  <2> QED
    BY <1>5, <2>1 DEF UdpInv, DatagramsRight
<1>9. CallRight' /\ SocksRight' /\ ReadOwn'
  BY <1>1 DEF UdpInv, CallRight, SocksRight, ReadOwn, Waiting, Readers, Calling
<1> QED
  BY <1>1, <1>2, <1>3, <1>4, <1>6, <1>7, <1>8, <1>9

\* A request that matches no forward is the reason of none.
LEMMA OwnedServed ==
  ASSUME NEW f, Owned(f, socks, toUdp), UNCHANGED socks,
         \A j \in DOMAIN toUdp : j = 1 \/ (j - 1 \in DOMAIN toUdp' /\ toUdp'[j - 1] = toUdp[j]),
         toUdp[1].type = "WRITE" \/ toUdp[1].conn.port # f.port \/ ~Matches(toUdp[1].conn, f)
  PROVE  Owned(f, socks', toUdp')
BY DEF Owned

LEMMA MatchesSymmetric ==
  ASSUME NEW c, NEW d
  PROVE  Matches(c, d) <=> Matches(d, c)
BY DEF Matches

\* The forwards that stay when one is taken out are still one for a port.
LEMMA ErasedForwards ==
  ASSUME UdpInv, NEW c \in Connection
  PROVE  /\ Erase(forwards, c) \in Seq(Connection)
         /\ \A i \in DOMAIN Erase(forwards, c) :
              \E j \in DOMAIN forwards : Erase(forwards, c)[i] = forwards[j]
         /\ \A i, j \in DOMAIN Erase(forwards, c) :
              Erase(forwards, c)[i].port = Erase(forwards, c)[j].port => i = j
         /\ c.port # NoPort =>
              \A i \in DOMAIN Erase(forwards, c) : ~Matches(Erase(forwards, c)[i], c)
<1>1. /\ forwards \in Seq(Connection)
      /\ \A i \in DOMAIN forwards : forwards[i].port \in Ports
      /\ \A i, j \in DOMAIN forwards : forwards[i].port = forwards[j].port => i = j
  BY DEF UdpInv, TypeOK, ForwardsRight
<1> QED
  BY <1>1, EraseKeeps

\* The forwards that stay when one is taken out for the request.
LEMMA ErasedOwned ==
  ASSUME UdpInv, NEW type \in {"FORWARD", "CLOSE"}, FromSock(type),
         toSock' = ToSock("STATUS", req, <<>>)
  PROVE  LET rest == Erase(forwards, req) IN
           /\ rest \in Seq(Connection)
           /\ \A i \in DOMAIN rest : rest[i].port \in Ports /\ Owned(rest[i], socks', toUdp')
           /\ \A i, j \in DOMAIN rest : rest[i].port = rest[j].port => i = j
           /\ req.port # NoPort => \A i \in DOMAIN rest : ~Matches(rest[i], req)
<1> DEFINE rest == Erase(forwards, req)
<1>1. /\ req \in Connection /\ req = toUdp[1].conn /\ UNCHANGED socks
      /\ \A j \in DOMAIN toUdp : j = 1 \/ (j - 1 \in DOMAIN toUdp' /\ toUdp'[j - 1] = toUdp[j])
  BY Serving
<1>2. /\ rest \in Seq(Connection)
      /\ \A i \in DOMAIN rest : \E j \in DOMAIN forwards : rest[i] = forwards[j]
      /\ \A i, j \in DOMAIN rest : rest[i].port = rest[j].port => i = j
      /\ req.port # NoPort => \A i \in DOMAIN rest : ~Matches(rest[i], req)
  BY <1>1, ErasedForwards
<1> HIDE DEF rest
<1>3. ASSUME NEW i \in DOMAIN rest
      PROVE  rest[i].port \in Ports /\ Owned(rest[i], socks', toUdp')
  <2>1. rest[i].port \in Ports /\ Owned(rest[i], socks, toUdp)
    BY <1>2 DEF UdpInv, ForwardsRight
  <2>2. toUdp[1].conn.port # rest[i].port \/ ~Matches(toUdp[1].conn, rest[i])
    BY <1>1, <1>2, <2>1, MatchesSymmetric, SockAssumption
  <2> QED
    BY <1>1, <2>1, <2>2, OwnedServed
<1> QED
  BY <1>2, <1>3 DEF rest

LEMMA UdpWriteRight == UdpInv /\ UdpWrite => UdpInv'
<1> SUFFICES ASSUME UdpInv, UdpWrite PROVE UdpInv'
  OBVIOUS
<1>1. /\ FromSock("WRITE") /\ toSock' = ToSock("STATUS", req, <<>>) /\ UNCHANGED forwards
      /\ toMux' = Append(toMux, [type |-> "UDP", conn |-> req])
  BY DEF UdpWrite
<1>2. /\ req \in Connection /\ toUdp[1].type = "WRITE"
      /\ toUdp' \in Seq(Request) /\ toSock' \in Seq(Message)
      /\ \A j \in DOMAIN toUdp : j = 1 \/ (j - 1 \in DOMAIN toUdp' /\ toUdp'[j - 1] = toUdp[j])
      /\ UNCHANGED <<socks, owner, udpq, call, calls, fromApp, toApp, arrived>>
      /\ RecordsRight' /\ DatagramsRight' /\ CallRight' /\ SocksRight' /\ ReadOwn'
  BY <1>1, Serving
<1>3. toMux' \in Seq(Packet)
  BY <1>1, <1>2 DEF UdpInv, TypeOK, Packet
<1>4. ForwardsRight' /\ OwnersRight'
  <2>1. \A i \in DOMAIN forwards : Owned(forwards[i], socks', toUdp')
    BY <1>2, OwnedServed DEF UdpInv, ForwardsRight
  <2>2. ForwardsRight'
    BY <1>1, <2>1 DEF UdpInv, ForwardsRight
  <2>3. OwnersRight'
    BY <1>1, <1>2 DEF UdpInv, OwnersRight
  <2> QED
    BY <2>2, <2>3
<1>5. TypeOK'
  BY <1>1, <1>2, <1>3 DEF UdpInv, TypeOK
<1> QED
  BY <1>2, <1>4, <1>5 DEF UdpInv

LEMMA UdpCloseRight == UdpInv /\ UdpClose => UdpInv'
<1> SUFFICES ASSUME UdpInv, UdpClose PROVE UdpInv'
  OBVIOUS
<1>1. /\ FromSock("CLOSE") /\ toSock' = ToSock("STATUS", req, <<>>)
      /\ forwards' = Erase(forwards, req) /\ UNCHANGED toMux
  BY DEF UdpClose, StatusAlways
<1>2. /\ toUdp' \in Seq(Request) /\ toSock' \in Seq(Message)
      /\ UNCHANGED <<socks, owner, udpq, call, calls, fromApp, toApp, arrived>>
      /\ RecordsRight' /\ DatagramsRight' /\ CallRight' /\ SocksRight' /\ ReadOwn'
  BY <1>1, Serving
<1>3. forwards' \in Seq(Connection) /\ ForwardsRight' /\ OwnersRight'
  <2>1. forwards' \in Seq(Connection) /\ ForwardsRight'
    BY <1>1, ErasedOwned DEF ForwardsRight
  <2>2. req \in Connection
    BY <1>1, Serving
  <2>3. \A i \in DOMAIN forwards' : \E j \in DOMAIN forwards : forwards'[i] = forwards[j]
    BY <1>1, <2>2, ErasedForwards
  <2>4. OwnersRight'
    BY <1>2, <2>3 DEF UdpInv, OwnersRight
  <2> QED
    BY <2>1, <2>4
<1>4. TypeOK'
  BY <1>1, <1>2, <1>3 DEF UdpInv, TypeOK
<1> QED
  BY <1>2, <1>3, <1>4 DEF UdpInv

\* The record of a FORWARD that is served is the last one, and its socket has the
\* connection.
LEMMA ForwardHasSocket ==
  ASSUME UdpInv, FromSock("FORWARD"), toSock' = ToSock("STATUS", req, <<>>)
  PROVE  req.port \in Ports /\ \E s \in Sock : socks[s].conn = req
<1> DEFINE n == Statuses(toSock, Len(toSock))
           q == udpq[n + 1]
<1>1. /\ 1 \in DOMAIN toUdp /\ req = toUdp[1].conn /\ toUdp[1].type = "FORWARD"
      /\ toUdp \in Seq(Request) /\ toUdp # <<>>
  BY Serving
<1>2. toSock \in Seq(Message) /\ udpq \in Seq(Record)
  BY DEF UdpInv, TypeOK
<1>3. n \in Nat
  <2>1. Len(toSock) \in Nat
    BY <1>2
  <2> QED
    BY <2>1, StatusesType
<1>4. /\ Len(udpq) = n + Len(toUdp) /\ toUdp[1].conn = q.conn /\ toUdp[1].type = q.type
  <2>1. 1 \in 1..Len(toUdp)
    BY <1>1
  <2> QED
    BY <2>1 DEF UdpInv, RecordsRight, Meets
<1> HIDE DEF n
<1>5. n + 1 \in DOMAIN udpq
  BY <1>1, <1>2, <1>3, <1>4
<1>6. q \in Record
  BY <1>2, <1>5
<1>7. q.conn = socks[q.sock].conn /\ q.conn.port \in Ports
  BY <1>1, <1>4, <1>5 DEF UdpInv, CallRight
<1> QED
  BY <1>1, <1>4, <1>6, <1>7 DEF Record

LEMMA UdpForwardRight == UdpInv /\ UdpForward => UdpInv'
<1> SUFFICES ASSUME UdpInv, UdpForward PROVE UdpInv'
  OBVIOUS
<1> DEFINE rest == Erase(forwards, req)
<1>1. /\ FromSock("FORWARD") /\ toSock' = ToSock("STATUS", req, <<>>)
      /\ forwards' = Append(rest, req) /\ UNCHANGED toMux
  BY DEF UdpForward, Forward
<1>2. /\ toUdp' \in Seq(Request) /\ toSock' \in Seq(Message) /\ req \in Connection
      /\ UNCHANGED <<socks, owner, udpq, call, calls, fromApp, toApp, arrived>>
      /\ RecordsRight' /\ DatagramsRight' /\ CallRight' /\ SocksRight' /\ ReadOwn'
  BY <1>1, Serving
<1>3. req.port \in Ports /\ \E s \in Sock : socks[s].conn = req
  BY <1>1, ForwardHasSocket
<1>4. /\ rest \in Seq(Connection)
      /\ \A i \in DOMAIN rest : rest[i].port \in Ports /\ Owned(rest[i], socks', toUdp')
      /\ \A i, j \in DOMAIN rest : rest[i].port = rest[j].port => i = j
      /\ req.port # NoPort => \A i \in DOMAIN rest : ~Matches(rest[i], req)
  BY <1>1, ErasedOwned
<1>5. ASSUME NEW i \in DOMAIN rest
      PROVE  rest[i].port # req.port
  <2>1. ~Matches(rest[i], req)
    BY <1>3, <1>4, SockAssumption
  <2>2. SUFFICES ASSUME rest[i].port = req.port PROVE FALSE
    OBVIOUS
  <2>3. rest[i].end # AnyEnd /\ rest[i].end # req.end
    BY <2>1, <2>2 DEF Matches
  <2>4. PICK j \in DOMAIN forwards : rest[i] = forwards[j]
    BY <1>2, ErasedForwards
  <2> QED
    BY <1>3, <2>2, <2>3, <2>4 DEF UdpInv, OwnersRight
<1> HIDE DEF rest
<1>6. /\ forwards' \in Seq(Connection)
      /\ \A i \in DOMAIN forwards' :
           \/ i \in DOMAIN rest /\ forwards'[i] = rest[i]
           \/ i = Len(rest) + 1 /\ forwards'[i] = req
  BY <1>1, <1>2, <1>4
<1>7. ForwardsRight'
  <2>1. Owned(req, socks', toUdp')
    BY <1>2, <1>3 DEF Owned
  <2>2. \A i \in DOMAIN forwards' : forwards'[i].port \in Ports /\ Owned(forwards'[i], socks', toUdp')
    BY <1>3, <1>4, <1>6, <2>1
  <2>3. \A i, j \in DOMAIN forwards' : forwards'[i].port = forwards'[j].port => i = j
    BY <1>4, <1>5, <1>6
  <2> QED
    BY <2>2, <2>3 DEF ForwardsRight
<1>8. OwnersRight'
  <2>1. \A i \in DOMAIN rest : \E j \in DOMAIN forwards : rest[i] = forwards[j]
    BY <1>2, ErasedForwards DEF rest
  <2>2. owner[req.port] # 0 /\ \A s \in Sock : socks[s].conn.port = req.port => socks[s].conn = req
    <3>1. PICK t \in Sock : socks[t].conn = req
      BY <1>3
    <3>2. \A s \in Sock : socks[s].conn.port = req.port => owner[req.port] = s
      BY <1>3, SockAssumption DEF UdpInv, OwnersRight
    <3>3. t # 0
      BY DEF Sock
    <3> QED
      BY <3>1, <3>2, <3>3
  <2> QED
    BY <1>2, <1>6, <2>1, <2>2 DEF UdpInv, OwnersRight
<1>9. TypeOK'
  BY <1>1, <1>2, <1>6 DEF UdpInv, TypeOK
<1> QED
  BY <1>2, <1>7, <1>8, <1>9 DEF UdpInv

\* A datagram for a port is forwarded to the socket of that port.
LEMMA FromMuxRight ==
  ASSUME UdpInv, NEW r \in Remote, NEW p \in Ports, FromMux(r, p)
  PROVE  UdpInv'
<1> DEFINE c == [port |-> p, end |-> r]
           f == FindMatching(forwards, c)
           d == [from |-> r, port |-> p]
           m == [type |-> "WRITE", conn |-> forwards[f], data |-> <<d>>]
<1>1. /\ arrived < MaxDatagrams /\ arrived' = arrived + 1
      /\ UNCHANGED <<socks, owner, udpq, forwards, call, calls, toUdp, fromApp, toApp>>
      /\ \/ f # 0 /\ toSock' = Append(toSock, m) /\ UNCHANGED toMux
         \/ f = 0 /\ toMux' = Append(toMux, [type |-> "ICMP", conn |-> c]) /\ UNCHANGED toSock
  BY DEF FromMux, sockSide, library, ToSock
<1>2. /\ toSock \in Seq(Message) /\ toUdp \in Seq(Request) /\ udpq \in Seq(Record)
      /\ forwards \in Seq(Connection) /\ toMux \in Seq(Packet)
  BY DEF UdpInv, TypeOK
<1>3. c \in Connection /\ d \in Datagram /\ p # NoPort /\ arrived' \in 0..MaxDatagrams
  BY <1>1, SockAssumption, BoundAssumption DEF Connection, Datagram, UdpInv, TypeOK
<1>4. CallRight' /\ SocksRight' /\ ReadOwn' /\ ForwardsRight' /\ OwnersRight'
  BY <1>1 DEF UdpInv, CallRight, SocksRight, ReadOwn, ForwardsRight, Owned, OwnersRight, Waiting,
              Readers, Calling
<1>5. CASE f # 0 /\ toSock' = Append(toSock, m) /\ UNCHANGED toMux
  <2>1. f \in 1..Len(forwards) /\ Matches(forwards[f], c)
    BY <1>2, <1>5, FindFacts
  <2> HIDE DEF f
  <2>2. forwards[f] \in Connection /\ forwards[f].port = p
    BY <1>2, <1>3, <2>1, SockAssumption DEF Matches, UdpInv, ForwardsRight
  <2>3. /\ m \in Message /\ m.type = "WRITE" /\ m.conn.port \in Ports
        /\ Len(m.data) = 1 /\ m.data[1].port = m.conn.port
    <3>1. <<d>> \in Seq(Datagram)
      BY <1>3
    <3> QED
      BY <2>2, <3>1 DEF Message
  <2> HIDE DEF m
  <2>4. /\ toSock' \in Seq(Message)
        /\ \A i \in DOMAIN toSock' : (i \in DOMAIN toSock /\ toSock'[i] = toSock[i]) \/ toSock'[i] = m
    BY <1>2, <1>5, <2>3
  <2>5. DatagramsRight'
    BY <2>3, <2>4 DEF UdpInv, DatagramsRight
  <2>6. RecordsRight'
    <3>1. Meets(Append(toSock, m), toUdp, udpq)
      BY <1>2, <2>3, MeetsDatagram DEF UdpInv, RecordsRight
    <3> QED
      BY <1>1, <1>5, <3>1 DEF RecordsRight, Meets, Statuses
  <2>7. TypeOK'
    BY <1>1, <1>3, <1>5, <2>4 DEF UdpInv, TypeOK
  <2> QED
    BY <1>4, <2>5, <2>6, <2>7 DEF UdpInv
<1>6. CASE f = 0 /\ toMux' = Append(toMux, [type |-> "ICMP", conn |-> c]) /\ UNCHANGED toSock
  <2>1. toMux' \in Seq(Packet)
    BY <1>2, <1>3, <1>6 DEF Packet
  <2>2. DatagramsRight' /\ RecordsRight'
    BY <1>1, <1>6, ZenonT(60) DEF UdpInv, DatagramsRight, RecordsRight, Meets, Statuses
  <2>3. TypeOK'
    BY <1>1, <1>3, <1>6, <2>1 DEF UdpInv, TypeOK
  <2> QED
    BY <1>4, <2>2, <2>3 DEF UdpInv
<1> QED
  BY <1>1, <1>5, <1>6

-----------------------------------------------------------------------------
(* The invariant, and what it says.                                        *)

LEMMA UdpInvInit == Init => UdpInv
<1> SUFFICES ASSUME Init PROVE UdpInv
  OBVIOUS
<1>1. \A S : <<>> \in Seq(S)
  OBVIOUS
<1>2. /\ Closed \in Entry /\ Len(Closed.bin) = 0 /\ DOMAIN Closed.bin = {}
      /\ Closed.status = "FREE" /\ Closed.conn = Unconnected
  BY <1>1 DEF Closed, Entry, Status, Connection, Unconnected
<1>3. socks \in [Sock -> Entry] /\ \A s \in Sock : socks[s] = Closed
  BY <1>2 DEF Init
<1>4. /\ udpq = <<>> /\ toUdp = <<>> /\ toSock = <<>> /\ forwards = <<>> /\ toMux = <<>>
      /\ fromApp = <<>> /\ toApp = <<>> /\ call = NoCall /\ calls = 0 /\ arrived = 0
      /\ owner \in [Ports -> Sock \cup {0}]
  BY DEF Init
<1>5. TypeOK
  <2>1. 0 \in 0..MaxCalls /\ 0 \in 0..MaxDatagrams /\ 0 <= BinSize
    BY BoundAssumption
  <2> QED
    BY <1>1, <1>2, <1>3, <1>4, <2>1 DEF TypeOK
<1>6. CallRight
  BY <1>2, <1>3, <1>4 DEF CallRight, Readers
<1>7. SocksRight
  BY <1>2, <1>3 DEF SocksRight
<1>8. DatagramsRight /\ ForwardsRight /\ ReadOwn
  BY <1>4 DEF DatagramsRight, ForwardsRight, ReadOwn
<1>9. OwnersRight
  BY <1>2, <1>3, <1>4 DEF OwnersRight, Unconnected
<1>10. RecordsRight
  <2>1. Statuses(toSock, Len(toSock)) = 0 /\ Len(toSock) = 0 /\ Len(toUdp) = 0 /\ Len(udpq) = 0
    BY <1>4, StatusesNone
  <2> QED
    BY <2>1 DEF RecordsRight, Meets
<1> QED
  BY <1>5, <1>6, <1>7, <1>8, <1>9, <1>10 DEF UdpInv

LEMMA UdpStep == UdpInv /\ [Next]_vars => UdpInv'
<1> SUFFICES ASSUME UdpInv, [Next]_vars PROVE UdpInv'
  OBVIOUS
<1>1. CASE UNCHANGED vars
  <2>1. UNCHANGED <<socks, owner, udpq, forwards, toMux, arrived, call, calls, toUdp, toSock,
                    fromApp, toApp>>
    BY <1>1 DEF vars, sockSide, udpSide, library
  <2>2. /\ Waiting' = Waiting /\ Readers' = Readers /\ SocksRight'
        /\ DatagramsRight' /\ ForwardsRight' /\ OwnersRight' /\ RecordsRight'
    BY <2>1, NothingElse
  <2>3. CallRight' /\ ReadOwn'
    BY <2>1, <2>2 DEF UdpInv, CallRight, ReadOwn, Calling
  <2>4. TypeOK'
    BY <2>1 DEF UdpInv, TypeOK
  <2> QED
    BY <2>2, <2>3, <2>4 DEF UdpInv
<1> QED
  BY <1>1, ApplicationRight, ReturnRight, ProcessAppRequestRight, HandleUDPWriteRight,
     HandleUDPStatusRight, UdpForwardRight, UdpWriteRight, UdpCloseRight, FromMuxRight
     DEF Next, SockModule, UdpRequest

LEMMA UdpInvHolds == Spec => []UdpInv
BY UdpInvInit, UdpStep, PTL DEF Spec

(* Every record of the socket layer, every FIFO and every call of the      *)
(* library has its type (TypeOK): HandleUDPStatus never takes a record out *)
(* of an empty udpq, and no bin is ever longer than BinSize.               *)
THEOREM UdpTypeCorrect == Spec => []TypeOK
BY UdpInvHolds, PTL DEF UdpInv

(* The record that HandleUDPStatus takes unseen is that of the request     *)
(* that has been answered (StatusMeetsRequest).                            *)
THEOREM StatusesMeetRequests == Spec => []StatusMeetsRequest
<1>1. UdpInv => StatusMeetsRequest
  <2> SUFFICES ASSUME UdpInv PROVE StatusMeetsRequest
    OBVIOUS
  <2>1. DOMAIN toSock = 1..Len(toSock) /\ DOMAIN toUdp = 1..Len(toUdp)
    BY DEF UdpInv, TypeOK
  <2> QED
    BY <2>1 DEF UdpInv, RecordsRight, Meets, StatusMeetsRequest
<1> QED
  BY <1>1, UdpInvHolds, PTL

(* udp_module forwards nothing for a connection that nobody has and that   *)
(* no request under way takes out (ForwardsOwned).                         *)
THEOREM ForwardsHaveOwners == Spec => []ForwardsOwned
<1>1. UdpInv => ForwardsOwned
  BY DEF UdpInv, ForwardsRight, Owned, ForwardsOwned
<1> QED
  BY <1>1, UdpInvHolds, PTL

(* What is read from a socket came for the port of that socket (ReadOwn),  *)
(* however sockets are closed and opened again meanwhile.                  *)
THEOREM ReadsAreOwn == Spec => []ReadOwn
BY UdpInvHolds, PTL DEF UdpInv
=============================================================================
