------------------------- MODULE SocketTable_proofs --------------------------
(***************************************************************************)
(* Proofs about SocketTable, for any number of sockets, ports, remote ends *)
(* and calls.                                                              *)
(***************************************************************************)
EXTENDS SocketTable, FiniteSetTheorems, SequenceTheorems,
        WellFoundedInduction, TLAPS

-----------------------------------------------------------------------------
(* The least and the greatest of a set of numbers.                         *)

LEMMA LeastNat ==
  ASSUME NEW T, T \subseteq Nat, T # {}
  PROVE  \E x \in T : \A y \in T : x <= y
<1> DEFINE R == {p \in Nat \X Nat : p[1] < p[2]}
<1>1. IsWellFoundedOn(R, Nat)
  BY NatLessThanWellFounded DEF OpToRel
<1> HIDE DEF R
<1>2. PICK x \in T : \A y \in T : ~ (<<y, x>> \in R)
  BY <1>1, WFMin, Zenon
<1>3. ASSUME NEW y \in T
      PROVE  x <= y
  <2>1. <<y, x>> \in Nat \X Nat /\ ~ (<<y, x>> \in R)
    BY <1>2
  <2>2. ~ (y < x)
    BY <2>1 DEF R
  <2> QED
    BY <2>2
<1> QED
  BY <1>3

\* FindFreeSock and FindFreePort find one if there is one.
LEMMA LowestFacts ==
  ASSUME NEW T, T \subseteq Nat, T # {}
  PROVE  LowestOf(T) \in T
BY LeastNat DEF LowestOf

LEMMA MinFacts ==
  ASSUME NEW T, T \subseteq Nat, T # {}
  PROVE  Min(T) \in T
BY LeastNat DEF Min

\* A number of bytes is never below zero, nor beyond what fits.
LEMMA MaxOfTwo ==
  ASSUME NEW n \in Int
  PROVE  Max({0, n}) = IF n > 0 THEN n ELSE 0
<1> DEFINE m == IF n > 0 THEN n ELSE 0
<1>1. m \in {0, n} /\ \A y \in {0, n} : m >= y
  OBVIOUS
<1>2. \A x \in {0, n} : (\A y \in {0, n} : x >= y) => x = m
  OBVIOUS
<1> QED
  BY <1>1, <1>2 DEF Max

LEMMA FitsFacts ==
  ASSUME NEW n \in Nat, NEW bin \in 0..BinSize
  PROVE  /\ Fits(n, bin) \in 0..n
         /\ bin + Fits(n, bin) \in 0..BinSize
<1>1. BinSize - bin \in Nat
  BY BoundsAssumption
<1>2. Min({n, BinSize - bin}) \in {n, BinSize - bin}
  BY <1>1, MinFacts
<1>3. PICK x \in {n, BinSize - bin} : \A y \in {n, BinSize - bin} : x <= y
  BY <1>1
<1>4. \A y \in {n, BinSize - bin} : Min({n, BinSize - bin}) <= y
  BY <1>3 DEF Min
<1> QED
  BY <1>1, <1>2, <1>4, BoundsAssumption DEF Fits

LEMMA MaxFacts ==
  ASSUME NEW n \in Nat, NEW T, T \subseteq 1..n, T # {}
  PROVE  Max(T) \in T /\ \A x \in T : x <= Max(T)
<1> DEFINE U == {n - x : x \in T}
<1>1. \A x \in T : x \in 1..n /\ n - x \in Nat
  OBVIOUS
<1>2. U \subseteq Nat /\ U # {}
  BY <1>1
<1>3. PICK u \in U : \A y \in U : u <= y
  <2> HIDE DEF U
  <2> QED
    BY <1>2, LeastNat
<1>4. PICK x \in T : u = n - x
  OBVIOUS
<1>5. ASSUME NEW y \in T
      PROVE  x >= y
  <2>1. n - x <= n - y
    BY <1>3, <1>4
  <2> QED
    BY <1>1, <2>1
<1>6. Max(T) \in T /\ \A y \in T : Max(T) >= y
  BY <1>5, Zenon DEF Max
<1> QED
  BY <1>1, <1>6

-----------------------------------------------------------------------------
(* The list of connection records.                                         *)

Exact(r, c) == r.state # "LISTEN" /\ Matches(r.conn, c)

\* associateConnection: a record that does not listen if one matches, and the
\* first of these; else one that listens, if there is one.
LEMMA AssociateFacts ==
  ASSUME NEW list \in Seq(TcpRecord), NEW c
  PROVE  /\ Associate(list, c) \in 0..Len(list)
         /\ \A i \in DOMAIN list : Exact(list[i], c) =>
              /\ Associate(list, c) \in 1..i
              /\ Exact(list[Associate(list, c)], c)
         /\ Associate(list, c) # 0 =>
              \/ Exact(list[Associate(list, c)], c)
              \/ /\ list[Associate(list, c)].state = "LISTEN"
                 /\ MatchesSource(list[Associate(list, c)].conn, c)
<1> DEFINE I == {i \in 1..Len(list) : list[i].state # "LISTEN" /\ Matches(list[i].conn, c)}
           J == {i \in 1..Len(list) :
                   list[i].state = "LISTEN" /\ MatchesSource(list[i].conn, c)}
           exact == IF I # {} THEN Min(I) ELSE 0
           other == IF J # {} THEN Max(J) ELSE 0
<1>1. Associate(list, c) = IF exact # 0 THEN exact ELSE other
  BY DEF Associate, SelectInSeq, SelectLastInSeq
<1>2. I # {} => Min(I) \in I /\ \A i \in I : Min(I) <= i
  <2>1. I \subseteq Nat
    OBVIOUS
  <2> HIDE DEF I
  <2>2. SUFFICES ASSUME I # {} PROVE Min(I) \in I /\ \A i \in I : Min(I) <= i
    OBVIOUS
  <2>3. \E x \in I : \A y \in I : x <= y
    BY <2>1, <2>2, LeastNat
  <2> QED
    BY <2>3 DEF Min
<1>3. J # {} => Max(J) \in J
  <2>1. J \subseteq 1..Len(list) /\ Len(list) \in Nat
    OBVIOUS
  <2> HIDE DEF J
  <2> QED
    BY <2>1, MaxFacts
<1>4. Associate(list, c) = IF I # {} THEN Min(I) ELSE IF J # {} THEN Max(J) ELSE 0
  <2>1. 0 \notin I
    OBVIOUS
  <2> HIDE DEF I, J
  <2> QED
    BY <1>1, <1>2, <2>1
<1> DEFINE a == Associate(list, c)
<1>5. CASE I # {}
  <2>1. a \in I /\ \A i \in I : a <= i
    BY <1>2, <1>4, <1>5
  <2> HIDE DEF a
  <2>2. a \in 1..Len(list) /\ Exact(list[a], c)
    BY <2>1 DEF Exact
  <2>3. \A i \in DOMAIN list : Exact(list[i], c) => i \in I
    BY DEF Exact
  <2>4. a \in 0..Len(list) /\ \A i \in DOMAIN list : Exact(list[i], c) => a \in 1..i
    BY <2>1, <2>2, <2>3
  <2> QED
    BY <2>2, <2>4 DEF a
<1>6. CASE I = {}
  <2>1. \A i \in DOMAIN list : ~ Exact(list[i], c)
    BY <1>6 DEF Exact
  <2>2. CASE J = {}
    BY <1>4, <1>6, <2>1, <2>2
  <2>3. CASE J # {}
    <3>1. a \in J
      BY <1>3, <1>4, <1>6, <2>3
    <3> HIDE DEF a
    <3>2. a \in 1..Len(list) /\ list[a].state = "LISTEN" /\ MatchesSource(list[a].conn, c)
      BY <3>1
    <3> QED
      BY <3>2, <2>1 DEF a
  <2> QED
    BY <2>2, <2>3
<1> QED
  BY <1>5, <1>6

\* cleanClosedConnection leaves records it was given, and each that is not
\* CLOSED.
LEMMA CleanFacts ==
  ASSUME NEW list \in Seq(TcpRecord)
  PROVE  /\ Clean(list) \in Seq(TcpRecord)
         /\ \A i \in DOMAIN Clean(list) : \E j \in DOMAIN list : Clean(list)[i] = list[j]
         /\ \A j \in DOMAIN list : list[j].state # "CLOSED" =>
              \E i \in DOMAIN Clean(list) : Clean(list)[i] = list[j]
<1> DEFINE I == {i \in 1..Len(list) : list[i].state = "CLOSED"}
<1>1. Clean(list) = IF I # {} THEN RemoveAt(list, Min(I)) ELSE list
  BY DEF Clean, RemoveFirstMatch, SelectInSeq
<1>2. CASE I = {}
  BY <1>1, <1>2
<1>3. CASE I # {}
  <2> DEFINE k == Min(I)
  <2>1. k \in I
    <3>1. I \subseteq Nat
      OBVIOUS
    <3> HIDE DEF I
    <3> QED
      BY <1>3, <3>1, MinFacts
  <2>2. k \in 1..Len(list) /\ list[k].state = "CLOSED"
    BY <2>1
  <2>3. Clean(list) = RemoveAt(list, k)
    BY <1>1, <1>3
  <2> HIDE DEF k
  <2> DEFINE front == SubSeq(list, 1, k - 1)
             rest  == SubSeq(list, k + 1, Len(list))
  <2>3a. /\ front \in Seq(TcpRecord) /\ Len(front) = k - 1
         /\ \A i \in 1..(k - 1) : front[i] = list[i]
    BY <2>2
  <2>3b. /\ rest \in Seq(TcpRecord) /\ Len(rest) = Len(list) - k
         /\ \A i \in 1..(Len(list) - k) : rest[i] = list[i + k]
    BY <2>2
  <2>3c. RemoveAt(list, k) = front \o rest
    BY DEF RemoveAt
  <2> HIDE DEF front, rest
  <2>3d. /\ front \o rest \in Seq(TcpRecord)
         /\ Len(front \o rest) = Len(front) + Len(rest)
         /\ \A i \in 1..(Len(front) + Len(rest)) :
              (front \o rest)[i] = IF i <= Len(front) THEN front[i] ELSE rest[i - Len(front)]
    <3>1. front \in Seq(TcpRecord) /\ rest \in Seq(TcpRecord)
      BY <2>3a, <2>3b
    <3> QED
      BY <3>1, ConcatProperties
  <2>4. RemoveAt(list, k) \in Seq(TcpRecord) /\ Len(RemoveAt(list, k)) = Len(list) - 1
    BY <2>2, <2>3a, <2>3b, <2>3c, <2>3d
  <2>5. \A i \in 1..(Len(list) - 1) :
          RemoveAt(list, k)[i] = IF i < k THEN list[i] ELSE list[i + 1]
    <3> SUFFICES ASSUME NEW i \in 1..(Len(list) - 1)
                 PROVE  (front \o rest)[i] = IF i < k THEN list[i] ELSE list[i + 1]
      BY <2>3c
    <3>0. /\ k \in Nat /\ Len(list) \in Nat /\ i \in Nat
          /\ i \in 1..(Len(front) + Len(rest)) /\ Len(front) = k - 1
      BY <2>2, <2>3a, <2>3b
    <3>1. CASE i < k
      <4>1. i \in 1..(k - 1) /\ i <= Len(front)
        BY <3>0, <3>1
      <4>2. (front \o rest)[i] = front[i]
        BY <2>3d, <3>0, <4>1
      <4> QED
        BY <2>3a, <3>1, <4>1, <4>2
    <3>2. CASE ~ (i < k)
      <4>1. /\ i - (k - 1) \in 1..(Len(list) - k) /\ (i - (k - 1)) + k = i + 1
            /\ ~ (i <= Len(front))
        BY <2>2, <3>0, <3>2
      <4>2. (front \o rest)[i] = rest[i - (k - 1)]
        BY <2>3d, <3>0, <4>1
      <4> QED
        BY <2>3b, <3>2, <4>1, <4>2
    <3> QED
      BY <3>1, <3>2
  <2>6. \A j \in 1..Len(list) : j # k =>
          \E i \in 1..(Len(list) - 1) : RemoveAt(list, k)[i] = list[j]
    <3> SUFFICES ASSUME NEW j \in 1..Len(list), j # k
                 PROVE  \E i \in 1..(Len(list) - 1) : RemoveAt(list, k)[i] = list[j]
      OBVIOUS
    <3>1. CASE j < k
      BY <2>2, <2>5, <3>1
    <3>2. CASE j > k
      <4>1. j - 1 \in 1..(Len(list) - 1) /\ ~ (j - 1 < k) /\ (j - 1) + 1 = j
        BY <2>2, <3>2
      <4> QED
        BY <2>5, <4>1
    <3> QED
      BY <2>2, <3>1, <3>2
  <2>7. \A i \in 1..(Len(list) - 1) : \E j \in DOMAIN list : RemoveAt(list, k)[i] = list[j]
    BY <2>2, <2>5
  <2>8. \A j \in DOMAIN list : list[j].state # "CLOSED" => j \in 1..Len(list) /\ j # k
    BY <2>2
  <2>9. DOMAIN Clean(list) = 1..(Len(list) - 1)
    BY <2>3, <2>4
  <2> QED
    BY <2>3, <2>4, <2>6, <2>7, <2>8, <2>9
<1> QED
  BY <1>2, <1>3

-----------------------------------------------------------------------------
(* Counting the messages of some types in a FIFO.                          *)

LEMMA CountType ==
  ASSUME NEW D, NEW queue \in Seq(D), NEW types
  PROVE  /\ IsFiniteSet({i \in DOMAIN queue : queue[i].type \in types})
         /\ CountOf(queue, types) \in Nat
<1>1. IsFiniteSet(1..Len(queue))
  BY FS_Interval
<1>2. {i \in DOMAIN queue : queue[i].type \in types} \in SUBSET (1..Len(queue))
  OBVIOUS
<1>3. IsFiniteSet({i \in DOMAIN queue : queue[i].type \in types})
  BY <1>1, <1>2, FS_Subset
<1> QED
  BY <1>3, FS_CardinalityType DEF CountOf

LEMMA CountEmpty ==
  ASSUME NEW types
  PROVE  CountOf(<<>>, types) = 0
<1>1. {i \in DOMAIN <<>> : <<>>[i].type \in types} = {}
  OBVIOUS
<1> QED
  BY <1>1, FS_EmptySet DEF CountOf

\* Sending one more message.
LEMMA CountAppend ==
  ASSUME NEW D, NEW queue \in Seq(D), NEW m \in D, NEW types
  PROVE  CountOf(Append(queue, m), types) =
           CountOf(queue, types) + (IF m.type \in types THEN 1 ELSE 0)
<1> DEFINE longer == Append(queue, m)
           I == {i \in DOMAIN queue : queue[i].type \in types}
           J == {i \in DOMAIN longer : longer[i].type \in types}
           n == Len(queue) + 1
<1>1. IsFiniteSet(I) /\ CountOf(queue, types) = Cardinality(I) /\ Cardinality(I) \in Nat
  BY CountType DEF CountOf
<1>2. n \notin I
  OBVIOUS
<1>3. J = IF m.type \in types THEN I \cup {n} ELSE I
  <2>1. DOMAIN longer = 1..n /\ DOMAIN queue = 1..Len(queue) /\ longer[n] = m
    OBVIOUS
  <2>2. \A i \in 1..Len(queue) : longer[i] = queue[i]
    OBVIOUS
  <2> HIDE DEF longer
  <2> QED
    BY <2>1, <2>2
<1>4. CountOf(longer, types) = Cardinality(J)
  BY DEF CountOf
<1> HIDE DEF I, J, n, longer
<1>5. Cardinality(I \cup {n}) = Cardinality(I) + 1
  BY <1>1, <1>2, FS_AddElement
<1>6. CountOf(longer, types) = CountOf(queue, types) + (IF m.type \in types THEN 1 ELSE 0)
  BY <1>1, <1>3, <1>4, <1>5
<1> QED
  BY <1>6 DEF longer

\* Taking the first message.
LEMMA CountTail ==
  ASSUME NEW D, NEW queue \in Seq(D), queue # <<>>, NEW types
  PROVE  CountOf(queue, types) =
           CountOf(Tail(queue), types) + (IF Head(queue).type \in types THEN 1 ELSE 0)
<1> DEFINE rest == Tail(queue)
           I == {i \in DOMAIN queue : queue[i].type \in types}
           J == {i \in DOMAIN rest : rest[i].type \in types}
           later == [i \in J |-> i + 1]
<1>0. /\ rest \in Seq(D) /\ Len(rest) = Len(queue) - 1 /\ Len(queue) \in Nat \ {0}
      /\ \A i \in 1..(Len(queue) - 1) : rest[i] = queue[i + 1]
  OBVIOUS
<1> HIDE DEF rest
<1>1. /\ IsFiniteSet(I) /\ CountOf(queue, types) = Cardinality(I)
      /\ Cardinality(I) \in Nat
      /\ IsFiniteSet(J) /\ CountOf(rest, types) = Cardinality(J)
      /\ Cardinality(J) \in Nat
  BY <1>0, CountType DEF CountOf
<1>2. \A i \in J : i \in Nat /\ i + 1 \in I \ {1}
  BY <1>0
<1>3. \A k \in I \ {1} : k - 1 \in J /\ (k - 1) + 1 = k
  BY <1>0
<1>4. 1 \in I <=> Head(queue).type \in types
  BY <1>0
<1> HIDE DEF I, J
<1>5. ExistsBijection(J, I \ {1})
  <2>1. later \in [J -> I \ {1}]
    BY <1>2
  <2>2. \A i, k \in J : later[i] = later[k] => i = k
    BY <1>2
  <2>3. \A k \in I \ {1} : \E i \in J : later[i] = k
    BY <1>3
  <2> QED
    BY <2>1, <2>2, <2>3 DEF ExistsBijection, Bijection, Injection, Surjection, IsInjective
<1>6. Cardinality(I \ {1}) = Cardinality(J)
  BY <1>1, <1>5, FS_Bijection
<1>7. Cardinality(I \ {1}) = IF 1 \in I THEN Cardinality(I) - 1 ELSE Cardinality(I)
  BY <1>1, FS_RemoveElement
<1>8. CountOf(queue, types) =
        CountOf(rest, types) + (IF Head(queue).type \in types THEN 1 ELSE 0)
  BY <1>1, <1>4, <1>6, <1>7
<1> QED
  BY <1>8 DEF rest

-----------------------------------------------------------------------------
(* The inductive invariant.                                                *)

\* An answer in the FIFO is the only one there, and one to the call made.
AnswerRight ==
  \/ toApp = <<>>
  \/ call # NoCall /\ \E a \in Calls : SameCall(a, call) /\ toApp = <<a>>

\* At most one WRITE is unanswered, and it is what the application waits for.
WriteRecorded ==
  \A i \in DOMAIN tcpq : tcpq[i].type = "WRITE" =>
    /\ call = [op |-> "WRITE", sock |-> tcpq[i].sock] /\ toApp = <<>>
    /\ \A j \in DOMAIN tcpq : tcpq[j].type = "WRITE" => j = i

CallInv == AnswerRight /\ PendingIsAwaited /\ WriteRecorded

SockInv == TypeOK /\ CallInv /\ StatusHasRecord

LEMMA SockInvInit == Init => SockInv
<1> SUFFICES ASSUME Init PROVE SockInv
  OBVIOUS
<1>1. TypeOK
  BY BoundsAssumption DEF Init, TypeOK, SockRecord, Closed, SockStatus, Connection, Unconnected
<1>2. CallInv
  BY DEF Init, CallInv, AnswerRight, PendingIsAwaited, PendingFor, WriteRecorded, Closed
<1>3. StatusHasRecord
  BY CountEmpty DEF Init, StatusHasRecord, Requests, Statuses
<1> QED
  BY <1>1, <1>2, <1>3 DEF SockInv

-----------------------------------------------------------------------------
(* Types: the steps of tcp_module.                                         *)

LEMMA GotoType ==
  ASSUME NEW list \in Seq(TcpRecord), NEW i \in DOMAIN list,
         NEW tr \in DOMAIN NextState
  PROVE  Goto(i, tr, list) \in Seq(TcpRecord)
<1>1. NextState[tr] \in State
  BY DEF NextState, State
<1>2. list[i] \in TcpRecord
  OBVIOUS
<1>3. [list[i] EXCEPT !.state = NextState[tr]] \in TcpRecord
  BY <1>1, <1>2 DEF TcpRecord
<1>4. \A x \in TcpRecord : [list EXCEPT ![i] = x] \in Seq(TcpRecord)
  OBVIOUS
<1>5. Goto(i, tr, list) = [list EXCEPT ![i] = [list[i] EXCEPT !.state = NextState[tr]]]
  BY DEF Goto
<1> QED
  BY <1>3, <1>4, <1>5

Selections == {"SynRcvd", "SynSentEstablished", "SynRcvdEstablished", "CloseWait",
               "Loop", "FinWait2", "TimeWait", "Closed"}

\* A segment with a transition has a record.
LEMMA FoundFacts ==
  ASSUME TypeOK, NEW c, NEW f, Selected(c, f) # "ignore"
  PROVE  Found(c) \in DOMAIN clist /\ clist[Found(c)] \in TcpRecord
<1>1. Found(c) \in 0..Len(clist) /\ Found(c) # 0
  BY AssociateFacts DEF TypeOK, Found, Selected
<1> QED
  BY <1>1 DEF TypeOK

LEMMA RequestFacts ==
  ASSUME TypeOK, toTcp # <<>>
  PROVE  /\ Request \in Message /\ Tail(toTcp) \in Seq(Message)
         /\ Candidates \in Seq(TcpRecord)
         /\ Wanted # "ignore" => Chosen \in DOMAIN Candidates
                                 /\ Candidates[Chosen] \in TcpRecord
         /\ Wanted \in {"ignore", "LoopStatus"} \cup DOMAIN NextState
         /\ Wanted = "LoopStatus" => Request.type = "STATUS" /\ Candidates = clist
         /\ Wanted \notin {"ignore", "LoopStatus"} => Request.type \in RequestType
<1>1. Request \in Message /\ Tail(toTcp) \in Seq(Message)
  BY DEF TypeOK, Request
<1>2. Candidates \in Seq(TcpRecord)
  <2>1. [conn |-> Request.conn, state |-> "CLOSED", unread |-> 0] \in TcpRecord
    BY <1>1, BoundsAssumption DEF Message, TcpRecord, State
  <2> QED
    BY <2>1 DEF TypeOK, Candidates
<1>3. Chosen \in 0..Len(Candidates)
  BY <1>2, AssociateFacts DEF Chosen
<1>4. Wanted # "ignore" => Chosen # 0
  BY DEF Wanted
<1>5. Wanted \in {"ignore", "LoopStatus"} \cup DOMAIN NextState
  BY DEF Wanted, OnRequest, NextState
<1>6. Wanted = "LoopStatus" => Request.type = "STATUS"
  BY DEF Wanted, OnRequest
<1>7. Wanted \notin {"ignore", "LoopStatus"} => Request.type \in RequestType
  BY DEF Wanted, OnRequest, RequestType
<1> QED
  BY <1>1, <1>2, <1>3, <1>4, <1>5, <1>6, <1>7 DEF Candidates

\* What one message more, and one less, leave.
LEMMA FifoType ==
  ASSUME NEW queue \in Seq(Message)
  PROVE  /\ \A m \in Message : Append(queue, m) \in Seq(Message)
         /\ queue # <<>> => Tail(queue) \in Seq(Message) /\ Head(queue) \in Message
OBVIOUS

LEMMA MsgType ==
  ASSUME NEW ty \in RequestType \cup {"STATUS"}, NEW c \in Connection,
         NEW n \in 0..MaxUnread
  PROVE  Msg(ty, c, n) \in Message
BY DEF Msg, Message

LEMMA TcpTypes ==
  ASSUME TypeOK, TcpModule
  PROVE  clist' \in Seq(TcpRecord) /\ toTcp' \in Seq(Message) /\ toSock' \in Seq(Message)
<1>0. /\ clist \in Seq(TcpRecord) /\ toTcp \in Seq(Message) /\ toSock \in Seq(Message)
      /\ MaxUnread \in Nat
  BY BoundsAssumption DEF TypeOK
<1>1. ASSUME NEW p \in Ports, NEW r \in Remote, NEW f \in Segments, NEW c,
             c = [port |-> p, end |-> r], TakeSyn(c, f)
      PROVE  clist' \in Seq(TcpRecord) /\ UNCHANGED <<toTcp, toSock>>
  <2>1. Found(c) \in DOMAIN clist /\ clist[Found(c)] \in TcpRecord
    BY <1>1, FoundFacts DEF TakeSyn
  <2>2. c \in Connection
    BY <1>1 DEF Connection
  <2>3. [clist EXCEPT ![Found(c)].conn = c] \in Seq(TcpRecord)
        /\ Found(c) \in DOMAIN [clist EXCEPT ![Found(c)].conn = c]
    <3>1. [clist[Found(c)] EXCEPT !.conn = c] \in TcpRecord
      BY <2>1, <2>2 DEF TcpRecord
    <3> QED
      BY <1>0, <2>1, <3>1
  <2> QED
    BY <1>1, <2>3, GotoType DEF TakeSyn, NextState
<1>2. ASSUME NEW p \in Ports, NEW r \in Remote, NEW f \in Segments, NEW c,
             c = [port |-> p, end |-> r], TellSock(c, f)
      PROVE  clist' \in Seq(TcpRecord) /\ toSock' \in Seq(Message) /\ UNCHANGED toTcp
  <2>1. Found(c) \in DOMAIN clist /\ clist[Found(c)] \in TcpRecord
    BY <1>2, FoundFacts DEF TellSock
  <2>2. Msg("WRITE", clist[Found(c)].conn, 0) \in Message
    BY <1>0, <2>1, MsgType DEF TcpRecord, RequestType
  <2>3. Selected(c, f) \in DOMAIN NextState
    BY <1>2 DEF TellSock, NextState
  <2> QED
    BY <1>0, <1>2, <2>1, <2>2, <2>3, GotoType, FifoType DEF TellSock
<1>3. ASSUME NEW p \in Ports, NEW r \in Remote, NEW f \in Segments, NEW c,
             c = [port |-> p, end |-> r], TakeData(c, f)
      PROVE  clist' \in Seq(TcpRecord) /\ toSock' \in Seq(Message) /\ UNCHANGED toTcp
  <2>1. Found(c) \in DOMAIN clist /\ clist[Found(c)] \in TcpRecord
    BY <1>3, FoundFacts DEF TakeData
  <2>2. clist[Found(c)].unread \in Nat /\ clist[Found(c)].unread < MaxUnread
    BY <1>3, <2>1 DEF TakeData, TcpRecord
  <2>3. Msg("WRITE", clist[Found(c)].conn, 1) \in Message
    <3>1. 1 \in 0..MaxUnread
      BY <1>0, <2>2
    <3> QED
      BY <2>1, <3>1, MsgType DEF TcpRecord, RequestType
  <2>4. toSock' \in Seq(Message)
    BY <1>0, <1>3, <2>3, FifoType DEF TakeData
  <2>5. clist' \in Seq(TcpRecord)
    <3>1. [clist[Found(c)] EXCEPT !.unread = clist[Found(c)].unread + 1] \in TcpRecord
      <4>1. clist[Found(c)].unread + 1 \in 0..MaxUnread
        BY <1>0, <2>2
      <4> QED
        BY <2>1, <4>1 DEF TcpRecord
    <3>2. clist' = [clist EXCEPT ![Found(c)] =
                      [clist[Found(c)] EXCEPT !.unread = clist[Found(c)].unread + 1]]
      BY <1>3 DEF TakeData
    <3> QED
      BY <1>0, <2>1, <3>1, <3>2
  <2> QED
    BY <1>3, <2>4, <2>5 DEF TakeData
<1>4. ASSUME NEW p \in Ports, NEW r \in Remote, NEW f \in Segments, NEW c,
             c = [port |-> p, end |-> r], CloseFurther(c, f)
      PROVE  clist' \in Seq(TcpRecord) /\ UNCHANGED <<toTcp, toSock>>
  <2>1. Found(c) \in DOMAIN clist
    BY <1>4, FoundFacts DEF CloseFurther
  <2>2. Selected(c, f) \in DOMAIN NextState
    BY <1>4 DEF CloseFurther, NextState
  <2>3. Goto(Found(c), Selected(c, f), clist) \in Seq(TcpRecord)
    BY <1>0, <2>1, <2>2, GotoType
  <2> QED
    BY <1>4, <2>3, CleanFacts DEF CloseFurther
<1>5. CASE IgnoreRequest
  BY <1>0, <1>5, RequestFacts, CleanFacts DEF IgnoreRequest, TakesRequest
<1>6. CASE DoRequest
  <2>1. /\ toTcp # <<>> /\ toTcp' = Tail(toTcp)
        /\ Chosen \in DOMAIN Candidates /\ Candidates[Chosen] \in TcpRecord
        /\ Candidates \in Seq(TcpRecord) /\ Wanted \in DOMAIN NextState
        /\ toTcp' \in Seq(Message)
    BY <1>6, RequestFacts DEF DoRequest, TakesRequest
  <2>2. Clean(Goto(Chosen, Wanted, Candidates)) \in Seq(TcpRecord)
    BY <2>1, GotoType, CleanFacts
  <2>3. Msg("STATUS", Candidates[Chosen].conn, 0) \in Message
    <3>1. Candidates[Chosen].conn \in Connection /\ 0 \in 0..MaxUnread
      BY <1>0, <2>1 DEF TcpRecord
    <3> QED
      BY <3>1, MsgType
  <2> QED
    BY <1>0, <1>6, <2>1, <2>2, <2>3, FifoType DEF DoRequest
<1>7. CASE TakeStatus
  <2>1. /\ toTcp # <<>> /\ toTcp' = Tail(toTcp) /\ toTcp' \in Seq(Message)
        /\ Request \in Message
        /\ Chosen \in DOMAIN clist /\ clist[Chosen] \in TcpRecord
    BY <1>7, RequestFacts DEF TakeStatus, TakesRequest
  <2> DEFINE left == Max({0, clist[Chosen].unread - Request.bytes})
  <2>2. left \in 0..MaxUnread
    <3>1. clist[Chosen].unread \in 0..MaxUnread /\ Request.bytes \in 0..MaxUnread
      BY <2>1 DEF TcpRecord, Message
    <3>2. clist[Chosen].unread - Request.bytes \in Int
          /\ clist[Chosen].unread - Request.bytes <= MaxUnread
      BY <1>0, <3>1
    <3> QED
      BY <1>0, <3>2, MaxOfTwo
  <2>3. /\ clist' = [clist EXCEPT ![Chosen].unread = left]
        /\ toSock' = IF left = 0 THEN toSock
                     ELSE Append(toSock, Msg("WRITE", clist[Chosen].conn, left))
    BY <1>7 DEF TakeStatus
  <2> HIDE DEF left
  <2>4. Msg("WRITE", clist[Chosen].conn, left) \in Message
    BY <2>1, <2>2, MsgType DEF TcpRecord, RequestType
  <2>5. [clist[Chosen] EXCEPT !.unread = left] \in TcpRecord
    BY <2>1, <2>2 DEF TcpRecord
  <2>6. clist' = [clist EXCEPT ![Chosen] = [clist[Chosen] EXCEPT !.unread = left]]
    BY <2>3
  <2> QED
    BY <1>0, <2>1, <2>3, <2>4, <2>5, <2>6, FifoType
<1> QED
  BY <1>0, <1>1, <1>2, <1>3, <1>4, <1>5, <1>6, <1>7 DEF TcpModule

-----------------------------------------------------------------------------
(* Types: the steps of sock_module and of the application.                 *)

SockSide == socks' \in [Sock -> SockRecord] /\ owner' \in [Ports -> Sock \cup {0}]
            /\ tcpq' \in Seq([type : RequestType, sock : Sock])
Fifos    == toTcp' \in Seq(Message) /\ toSock' \in Seq(Message) /\ toApp' \in Seq(Calls)

LEMMA ReplyType ==
  ASSUME TypeOK, NEW op \in Op, NEW s \in Sock
  PROVE  Reply(op, s) \in Seq(Calls)
BY DEF TypeOK, Reply, Calls

LEMMA ConsumedType ==
  ASSUME TypeOK, toSock # <<>>, NEW n \in 0..Head(toSock).bytes, Consumed(n)
  PROVE  toTcp' \in Seq(Message) /\ toSock' \in Seq(Message)
<1>1. Head(toSock) \in Message /\ Tail(toSock) \in Seq(Message) /\ toTcp \in Seq(Message)
  BY FifoType DEF TypeOK
<1>2. Head(toSock).conn \in Connection /\ Head(toSock).bytes \in 0..MaxUnread
  BY <1>1 DEF Message
<1>3. n \in 0..MaxUnread
  BY <1>2, BoundsAssumption
<1>4. Msg("STATUS", Head(toSock).conn, n) \in Message
  BY <1>2, <1>3, MsgType
<1> QED
  BY <1>1, <1>4, FifoType DEF Consumed

LEMMA FreeSocksFacts ==
  ASSUME FreeSocks # {}
  PROVE  LowestOf(FreeSocks) \in Sock /\ socks[LowestOf(FreeSocks)].status = "FREE"
<1>1. FreeSocks \subseteq Nat /\ FreeSocks # {}
  BY DEF FreeSocks, Sock
<1>2. LowestOf(FreeSocks) \in FreeSocks
  BY <1>1, LowestFacts
<1> QED
  BY <1>2 DEF FreeSocks

LEMMA FreePortsFacts ==
  ASSUME FreePorts # {}
  PROVE  LowestOf(FreePorts) \in Ports /\ owner[LowestOf(FreePorts)] = 0
<1>1. FreePorts \subseteq Nat /\ FreePorts # {}
  BY PortsAssumption DEF FreePorts
<1>2. LowestOf(FreePorts) \in FreePorts
  BY <1>1, LowestFacts
<1> QED
  BY <1>2 DEF FreePorts

LEMMA WriteTypes ==
  ASSUME TypeOK, HandleTCPWrite
  PROVE  SockSide /\ Fifos
<1>0. /\ socks \in [Sock -> SockRecord] /\ owner \in [Ports -> Sock \cup {0}]
      /\ tcpq \in Seq([type : RequestType, sock : Sock]) /\ toApp \in Seq(Calls)
      /\ toTcp \in Seq(Message) /\ toSock \in Seq(Message)
  BY DEF TypeOK
<1>1. /\ toSock # <<>>
      /\ Head(toSock).bytes \in 0..MaxUnread /\ Head(toSock).conn \in Connection
      /\ MaxUnread \in Nat /\ BinSize \in Nat
  <2>1. toSock # <<>>
    BY DEF HandleTCPWrite, WriteForNobody, WriteToBin, WriteToReader, WriteToAccept,
           WriteToAcceptFull, WriteToConnect, WriteDropped, WriteFor, FromTcp
  <2>2. Head(toSock) \in Message
    BY <1>0, <2>1, FifoType
  <2> QED
    BY <2>1, <2>2, BoundsAssumption DEF Message
<1>2. CASE WriteForNobody
  BY <1>0, <1>1, <1>2, ConsumedType DEF WriteForNobody, sockSide, SockSide, Fifos
<1>3. ASSUME NEW s \in Sock, WriteToBin(s)
      PROVE  SockSide /\ Fifos
  <2> DEFINE n == Fits(Head(toSock).bytes, socks[s].bin)
  <2>1. socks[s].bin \in 0..BinSize
    BY <1>0 DEF SockRecord
  <2>2. n \in 0..Head(toSock).bytes /\ socks[s].bin + n \in 0..BinSize
    <3>1. Head(toSock).bytes \in Nat
      BY <1>1
    <3> QED
      BY <2>1, <3>1, FitsFacts
  <2>3. socks' = [socks EXCEPT ![s].bin = @ + n] /\ Consumed(n) /\ UNCHANGED toApp
        /\ UNCHANGED <<owner, tcpq>>
    BY <1>3 DEF WriteToBin, WriteFor
  <2> HIDE DEF n
  <2>4. socks' \in [Sock -> SockRecord]
    <3>1. [socks[s] EXCEPT !.bin = @ + n] \in SockRecord
      BY <1>0, <2>2 DEF SockRecord
    <3> QED
      BY <1>0, <2>3, <3>1
  <2> QED
    BY <1>0, <1>1, <2>2, <2>3, <2>4, ConsumedType DEF SockSide, Fifos
<1>4. ASSUME NEW s \in Sock, NEW st \in SockStatus,
             socks' = [socks EXCEPT ![s].status = st],
             toApp' \in Seq(Calls), UNCHANGED <<owner, tcpq>>,
             Consumed(Head(toSock).bytes)
      PROVE  SockSide /\ Fifos
  <2>1. [socks[s] EXCEPT !.status = st] \in SockRecord
    BY <1>0, <1>4 DEF SockRecord
  <2>2. socks' \in [Sock -> SockRecord]
    BY <1>0, <1>4, <2>1
  <2> QED
    BY <1>0, <1>1, <1>4, <2>2, ConsumedType DEF SockSide, Fifos
<1>5. ASSUME NEW s \in Sock, WriteToReader(s)
      PROVE  SockSide /\ Fifos
  BY <1>4, <1>5, ReplyType DEF WriteToReader, WriteFor, SockStatus, Op
<1>6. ASSUME NEW s \in Sock, WriteToAccept(s)
      PROVE  SockSide /\ Fifos
  <2> DEFINE new == LowestOf(FreeSocks)
             fresh == [status |-> "CONNECTED", bin |-> 0, conn |-> Head(toSock).conn]
  <2>1. new \in Sock
    BY <1>6, FreeSocksFacts DEF WriteToAccept
  <2>2. /\ socks' = [socks EXCEPT ![s].status = "LISTENING", ![new] = fresh]
        /\ toApp' = Reply("ACCEPT", new) /\ Consumed(Head(toSock).bytes)
        /\ UNCHANGED <<owner, tcpq>>
    BY <1>6 DEF WriteToAccept, WriteFor
  <2>3. fresh \in SockRecord /\ [socks[s] EXCEPT !.status = "LISTENING"] \in SockRecord
    <3> HIDE DEF new
    <3>1. 0 \in 0..BinSize /\ socks[s] \in SockRecord
      BY <1>0, <1>1
    <3> QED
      BY <1>1, <3>1 DEF SockRecord, SockStatus
  <2>4. toApp' \in Seq(Calls)
    BY <2>1, <2>2, ReplyType DEF Op
  <2> HIDE DEF new, fresh
  <2>5. socks' \in [Sock -> SockRecord]
    BY <1>0, <2>1, <2>2, <2>3
  <2>6. toTcp' \in Seq(Message) /\ toSock' \in Seq(Message)
    BY <1>1, <2>2, ConsumedType
  <2> QED
    BY <1>0, <2>2, <2>4, <2>5, <2>6 DEF SockSide, Fifos
<1>7. ASSUME NEW s \in Sock, WriteToAcceptFull(s)
      PROVE  SockSide /\ Fifos
  BY <1>0, <1>4, <1>7 DEF WriteToAcceptFull, WriteFor, SockStatus
<1>8. ASSUME NEW s \in Sock, WriteToConnect(s)
      PROVE  SockSide /\ Fifos
  <2>1. /\ socks' = [socks EXCEPT ![s].status = "CONNECTED", ![s].conn = Head(toSock).conn]
        /\ toApp' = Reply("CONNECT", s) /\ Consumed(Head(toSock).bytes)
        /\ UNCHANGED <<owner, tcpq>>
    BY <1>8 DEF WriteToConnect, WriteFor
  <2>2. socks' \in [Sock -> SockRecord]
    <3>1. [socks[s] EXCEPT !.status = "CONNECTED", !.conn = Head(toSock).conn] \in SockRecord
      BY <1>0, <1>1 DEF SockRecord, SockStatus
    <3> QED
      BY <1>0, <2>1, <3>1
  <2> QED
    BY <1>0, <1>1, <2>1, <2>2, ConsumedType, ReplyType DEF SockSide, Fifos, Op
<1>9. ASSUME NEW s \in Sock, WriteDropped(s)
      PROVE  SockSide /\ Fifos
  BY <1>0, <1>1, <1>9, ConsumedType DEF WriteDropped, WriteFor, SockSide, Fifos
<1> QED
  BY <1>2, <1>3, <1>5, <1>6, <1>7, <1>8, <1>9 DEF HandleTCPWrite

LEMMA StatusTypes ==
  ASSUME TypeOK, HandleTCPStatus
  PROVE  SockSide /\ Fifos
<1>1. /\ tcpq # <<>> /\ tcpq \in Seq([type : RequestType, sock : Sock])
      /\ socks \in [Sock -> SockRecord]
      /\ toSock \in Seq(Message) /\ toSock # <<>>
  BY DEF TypeOK, HandleTCPStatus, FromTcp
<1> DEFINE q == Head(tcpq)
<1>2. q \in [type : RequestType, sock : Sock]
      /\ Tail(tcpq) \in Seq([type : RequestType, sock : Sock])
  <2>1. \A D : \A queue \in Seq(D) :
          queue # <<>> => Head(queue) \in D /\ Tail(queue) \in Seq(D)
    OBVIOUS
  <2> QED
    BY <1>1, <2>1, Zenon
<1>3. q.sock \in Sock
  BY <1>2
<1>4. \/ UNCHANGED <<socks, toApp>>
      \/ /\ socks' = [socks EXCEPT ![q.sock].status = "CONNECTED"]
         /\ toApp' = Reply("WRITE", q.sock)
  BY DEF HandleTCPStatus
<1>5. UNCHANGED <<owner, toTcp>> /\ tcpq' = Tail(tcpq) /\ toSock' = Tail(toSock)
  BY DEF HandleTCPStatus
<1> HIDE DEF q
<1>6. socks' \in [Sock -> SockRecord]
  <2>1. [socks[q.sock] EXCEPT !.status = "CONNECTED"] \in SockRecord
    BY <1>1, <1>3 DEF SockRecord, SockStatus
  <2> QED
    BY <1>1, <1>3, <1>4, <2>1
<1>7. toApp' \in Seq(Calls)
  BY <1>3, <1>4, ReplyType DEF Op, TypeOK
<1> QED
  BY <1>1, <1>2, <1>5, <1>6, <1>7, FifoType DEF SockSide, Fifos, TypeOK

\* A call that is made is one an application can make, and is counted.
LEMMA MakesType ==
  ASSUME TypeOK, NEW op \in Op, NEW s \in Sock \cup {0}, Makes(op, s)
  PROVE  /\ call = NoCall /\ call' = [op |-> op, sock |-> s] /\ call' \in Calls
         /\ calls' \in [Op -> Nat] /\ UNCHANGED <<toSock, clist>>
<1>1. calls \in [Op -> Nat]
  BY DEF TypeOK
<1>2. calls' \in [Op -> Nat]
  BY <1>1 DEF Makes
<1> QED
  BY <1>2 DEF Makes, Calls

LEMMA RequestTypes ==
  ASSUME TypeOK, NEW ty \in RequestType, NEW s \in Sock, NEW c \in Connection,
         SendTCPRequest(ty, s, c)
  PROVE  toTcp' \in Seq(Message) /\ tcpq' \in Seq([type : RequestType, sock : Sock])
<1>1. Msg(ty, c, 0) \in Message
  <2>1. 0 \in 0..MaxUnread
    BY BoundsAssumption
  <2> QED
    BY <2>1, MsgType
<1>2. tcpq' = Append(tcpq, [type |-> ty, sock |-> s])
  BY DEF SendTCPRequest, Recorded
<1>3. [type |-> ty, sock |-> s] \in [type : RequestType, sock : Sock]
  OBVIOUS
<1>4. \A D : \A queue \in Seq(D), m \in D : Append(queue, m) \in Seq(D)
  OBVIOUS
<1>5. tcpq' \in Seq([type : RequestType, sock : Sock])
  <2>1. tcpq \in Seq([type : RequestType, sock : Sock])
    BY DEF TypeOK
  <2> QED
    BY <1>2, <1>3, <1>4, <2>1, Zenon
<1> QED
  BY <1>1, <1>5, FifoType DEF SendTCPRequest, TypeOK

LEMMA AppTypes ==
  ASSUME TypeOK, ProcessAppRequest
  PROVE  SockSide /\ Fifos /\ call' \in Calls /\ calls' \in [Op -> Nat] /\ UNCHANGED clist
<1>0. /\ socks \in [Sock -> SockRecord] /\ owner \in [Ports -> Sock \cup {0}]
      /\ tcpq \in Seq([type : RequestType, sock : Sock]) /\ toApp \in Seq(Calls)
      /\ toTcp \in Seq(Message) /\ toSock \in Seq(Message) /\ BinSize \in Nat
  BY BoundsAssumption DEF TypeOK
<1>1. \A s \in Sock : socks[s] \in SockRecord /\ socks[s].conn \in Connection
  BY <1>0 DEF SockRecord
<1>2. ASSUME NEW s \in Sock, NEW x \in SockRecord, socks' = [socks EXCEPT ![s] = x]
      PROVE  socks' \in [Sock -> SockRecord]
  BY <1>0, <1>2
<1>3. ASSUME NEW s \in Sock, NEW st \in SockStatus
      PROVE  [socks[s] EXCEPT !.status = st] \in SockRecord
  BY <1>1 DEF SockRecord
<1>4. CASE AppSocket
  <2> DEFINE s == LowestOf(FreeSocks)
  <2>1. s \in Sock
    BY <1>4, FreeSocksFacts DEF AppSocket
  <2>2. Makes("SOCKET", 0) /\ toApp' = Reply("SOCKET", s)
        /\ socks' = [socks EXCEPT ![s] = [socks[s] EXCEPT !.status = "UNBOUND"]]
        /\ UNCHANGED <<owner, tcpq, toTcp>>
    BY <1>4 DEF AppSocket
  <2> HIDE DEF s
  <2>3. socks' \in [Sock -> SockRecord]
    BY <1>2, <1>3, <2>1, <2>2 DEF SockStatus
  <2>4. toApp' \in Seq(Calls)
    BY <2>1, <2>2, ReplyType DEF Op
  <2>5. call' \in Calls /\ calls' \in [Op -> Nat] /\ UNCHANGED <<toSock, clist>>
    BY <2>2, MakesType DEF Op
  <2> QED
    BY <1>0, <2>2, <2>3, <2>4, <2>5 DEF SockSide, Fifos
<1>5. ASSUME NEW s \in Sock, NEW p \in Ports, AppBind(s, p)
      PROVE  SockSide /\ Fifos /\ call' \in Calls /\ calls' \in [Op -> Nat] /\ UNCHANGED clist
  <2>1. [socks[s] EXCEPT !.status = "BOUND", !.conn.port = p] \in SockRecord
    BY <1>1 DEF SockRecord, Connection, SockStatus
  <2>2. socks' = [socks EXCEPT ![s] = [socks[s] EXCEPT !.status = "BOUND", !.conn.port = p]]
    BY <1>5 DEF AppBind
  <2>3. owner' \in [Ports -> Sock \cup {0}]
    BY <1>0, <1>5 DEF AppBind
  <2>4. toApp' \in Seq(Calls)
    BY <1>5, ReplyType DEF AppBind, Op
  <2>5. call' \in Calls /\ calls' \in [Op -> Nat] /\ UNCHANGED <<toSock, clist>>
    BY <1>5, MakesType DEF AppBind, Op
  <2> QED
    BY <1>0, <1>2, <1>5, <2>1, <2>2, <2>3, <2>4, <2>5 DEF AppBind, SockSide, Fifos
<1>6. ASSUME NEW s \in Sock, AppListen(s)
      PROVE  SockSide /\ Fifos /\ call' \in Calls /\ calls' \in [Op -> Nat] /\ UNCHANGED clist
  <2>1. [socks[s] EXCEPT !.status = "LISTENING", !.conn.end = AnyEnd] \in SockRecord
    BY <1>1 DEF SockRecord, Connection, SockStatus
  <2>2. socks' = [socks EXCEPT ![s] =
                    [socks[s] EXCEPT !.status = "LISTENING", !.conn.end = AnyEnd]]
    BY <1>6 DEF AppListen
  <2>3. toApp' \in Seq(Calls)
    BY <1>6, ReplyType DEF AppListen, Op
  <2>4. call' \in Calls /\ calls' \in [Op -> Nat] /\ UNCHANGED <<toSock, clist>>
    BY <1>6, MakesType DEF AppListen, Op
  <2> QED
    BY <1>0, <1>2, <1>6, <2>1, <2>2, <2>3, <2>4 DEF AppListen, SockSide, Fifos
<1>7. ASSUME NEW s \in Sock, AppAccept(s)
      PROVE  SockSide /\ Fifos /\ call' \in Calls /\ calls' \in [Op -> Nat] /\ UNCHANGED clist
  <2>1. toTcp' \in Seq(Message) /\ tcpq' \in Seq([type : RequestType, sock : Sock])
    BY <1>1, <1>7, RequestTypes DEF AppAccept, RequestType
  <2>2. socks' = [socks EXCEPT ![s] = [socks[s] EXCEPT !.status = "ACCEPT_PENDING"]]
    BY <1>7 DEF AppAccept
  <2>3. call' \in Calls /\ calls' \in [Op -> Nat] /\ UNCHANGED <<toSock, clist>>
    BY <1>7, MakesType DEF AppAccept, Op
  <2>4. socks' \in [Sock -> SockRecord]
    BY <1>2, <1>3, <2>2 DEF SockStatus
  <2> QED
    BY <1>0, <1>7, <2>1, <2>3, <2>4 DEF AppAccept, SockSide, Fifos
<1>8. ASSUME NEW s \in Sock, NEW r \in Remote, AppConnect(s, r)
      PROVE  SockSide /\ Fifos /\ call' \in Calls /\ calls' \in [Op -> Nat] /\ UNCHANGED clist
  <2>1. socks' \in [Sock -> SockRecord] /\ owner' \in [Ports -> Sock \cup {0}]
    <3>1. CASE socks[s].status = "UNBOUND" /\ FreePorts # {}
               /\ LET p == LowestOf(FreePorts)
                  IN  /\ owner' = [owner EXCEPT ![p] = s]
                      /\ socks' = [socks EXCEPT ![s].status = "CONNECT_PENDING",
                                                ![s].conn = [port |-> p, end |-> r]]
      <4> DEFINE p == LowestOf(FreePorts)
      <4>1. p \in Ports
        BY <3>1, FreePortsFacts
      <4>2. /\ owner' = [owner EXCEPT ![p] = s]
            /\ socks' = [socks EXCEPT ![s] = [socks[s] EXCEPT !.status = "CONNECT_PENDING",
                                                !.conn = [port |-> p, end |-> r]]]
        BY <3>1
      <4> HIDE DEF p
      <4>3. [socks[s] EXCEPT !.status = "CONNECT_PENDING",
                             !.conn = [port |-> p, end |-> r]] \in SockRecord
        BY <1>1, <4>1 DEF SockRecord, Connection, SockStatus
      <4> QED
        BY <1>0, <1>2, <4>1, <4>2, <4>3
    <3>2. CASE socks' = [socks EXCEPT ![s].status = "CONNECT_PENDING", ![s].conn.end = r]
               /\ UNCHANGED owner
      <4>1. [socks[s] EXCEPT !.status = "CONNECT_PENDING", !.conn.end = r] \in SockRecord
        BY <1>1 DEF SockRecord, Connection, SockStatus
      <4>2. socks' = [socks EXCEPT ![s] =
                        [socks[s] EXCEPT !.status = "CONNECT_PENDING", !.conn.end = r]]
        BY <3>2
      <4> QED
        BY <1>0, <1>2, <3>2, <4>1, <4>2
    <3> QED
      BY <1>8, <3>1, <3>2 DEF AppConnect
  <2>2. socks'[s].conn \in Connection
    BY <2>1 DEF SockRecord
  <2>3. toTcp' \in Seq(Message) /\ tcpq' \in Seq([type : RequestType, sock : Sock])
    BY <1>8, <2>2, RequestTypes DEF AppConnect, RequestType
  <2>4. call' \in Calls /\ calls' \in [Op -> Nat] /\ UNCHANGED <<toSock, clist>>
    BY <1>8, MakesType DEF AppConnect, Op
  <2> QED
    BY <1>0, <1>8, <2>1, <2>3, <2>4 DEF AppConnect, SockSide, Fifos
<1>9. ASSUME NEW s \in Sock, AppRead(s)
      PROVE  SockSide /\ Fifos /\ call' \in Calls /\ calls' \in [Op -> Nat] /\ UNCHANGED clist
  <2>1. \/ UNCHANGED socks /\ toApp' = Reply("READ", s)
        \/ socks' = [socks EXCEPT ![s] = [socks[s] EXCEPT !.status = "READ_PENDING"]]
           /\ UNCHANGED toApp
    BY <1>9 DEF AppRead
  <2>2. socks' \in [Sock -> SockRecord]
    BY <1>0, <1>2, <1>3, <2>1 DEF SockStatus
  <2>3. toApp' \in Seq(Calls)
    BY <1>0, <2>1, ReplyType DEF Op
  <2>4. call' \in Calls /\ calls' \in [Op -> Nat] /\ UNCHANGED <<toSock, clist>>
    BY <1>9, MakesType DEF AppRead, Op
  <2> QED
    BY <1>0, <1>9, <2>2, <2>3, <2>4 DEF AppRead, SockSide, Fifos
<1>10. ASSUME NEW s \in Sock, AppWrite(s)
       PROVE  SockSide /\ Fifos /\ call' \in Calls /\ calls' \in [Op -> Nat] /\ UNCHANGED clist
  <2>1. toTcp' \in Seq(Message) /\ tcpq' \in Seq([type : RequestType, sock : Sock])
    BY <1>1, <1>10, RequestTypes DEF AppWrite, RequestType
  <2>2. socks' = [socks EXCEPT ![s] = [socks[s] EXCEPT !.status = "WRITE_PENDING"]]
    BY <1>10 DEF AppWrite
  <2>3. call' \in Calls /\ calls' \in [Op -> Nat] /\ UNCHANGED <<toSock, clist>>
    BY <1>10, MakesType DEF AppWrite, Op
  <2>4. socks' \in [Sock -> SockRecord]
    BY <1>2, <1>3, <2>2 DEF SockStatus
  <2> QED
    BY <1>0, <1>10, <2>1, <2>3, <2>4 DEF AppWrite, SockSide, Fifos
<1>11. ASSUME NEW s \in Sock, AppClose(s)
       PROVE  SockSide /\ Fifos /\ call' \in Calls /\ calls' \in [Op -> Nat] /\ UNCHANGED clist
  <2>1. toTcp' \in Seq(Message) /\ tcpq' \in Seq([type : RequestType, sock : Sock])
    BY <1>1, <1>11, RequestTypes DEF AppClose, RequestType
  <2>2. Closed \in SockRecord
    BY <1>0 DEF Closed, SockRecord, Connection, Unconnected, SockStatus
  <2>3. call' \in Calls /\ calls' \in [Op -> Nat] /\ UNCHANGED <<toSock, clist>>
    BY <1>11, MakesType DEF AppClose, Op
  <2>4. socks' \in [Sock -> SockRecord]
    BY <1>2, <1>11, <2>2 DEF AppClose
  <2>5. toApp' \in Seq(Calls)
    BY <1>11, ReplyType DEF AppClose, Op
  <2> QED
    BY <1>0, <1>11, <2>1, <2>3, <2>4, <2>5 DEF AppClose, SockSide, Fifos
<1> QED
  BY <1>4, <1>5, <1>6, <1>7, <1>8, <1>9, <1>10, <1>11 DEF ProcessAppRequest

LEMMA TypeStep ==
  ASSUME TypeOK, [Next]_vars
  PROVE  TypeOK'
<1>1. CASE TcpModule
  <2>1. UNCHANGED <<sockSide, toApp, appSide>>
    BY <1>1, ZenonT(60) DEF TcpModule, TakeSyn, TellSock, TakeData, CloseFurther, IgnoreRequest,
                DoRequest, TakeStatus, TakesRequest
  <2> QED
    BY <1>1, <2>1, TcpTypes DEF TypeOK, sockSide, appSide
<1>2. CASE HandleTCPWrite
  <2>1. UNCHANGED <<clist, appSide>>
    BY <1>2 DEF HandleTCPWrite, WriteForNobody, WriteToBin, WriteToReader, WriteToAccept,
                WriteToAcceptFull, WriteToConnect, WriteDropped, WriteFor
  <2> QED
    BY <1>2, <2>1, WriteTypes DEF TypeOK, appSide, SockSide, Fifos
<1>3. CASE HandleTCPStatus
  <2>1. UNCHANGED <<clist, appSide>>
    BY <1>3 DEF HandleTCPStatus
  <2> QED
    BY <1>3, <2>1, StatusTypes DEF TypeOK, appSide, SockSide, Fifos
<1>4. CASE ProcessAppRequest
  BY <1>4, AppTypes DEF TypeOK, SockSide, Fifos
<1>5. CASE AppReturn
  <2>1. toApp' \in Seq(Calls)
    BY <1>5 DEF AppReturn, TypeOK
  <2> QED
    BY <1>5, <2>1 DEF AppReturn, TypeOK, sockSide
<1>6. CASE UNCHANGED vars
  BY <1>6 DEF TypeOK, vars, sockSide, appSide
<1> QED
  BY <1>1, <1>2, <1>3, <1>4, <1>5, <1>6 DEF Next, SockModule

-----------------------------------------------------------------------------
(* Calls and their answers.                                                *)

\* PendingIsAwaited, status by status.
LEMMA PendingFacts ==
  ASSUME PendingIsAwaited, NEW s \in Sock
  PROVE  /\ socks[s].status = "ACCEPT_PENDING" =>
              call = [op |-> "ACCEPT", sock |-> s] /\ toApp = <<>>
         /\ socks[s].status = "CONNECT_PENDING" =>
              call = [op |-> "CONNECT", sock |-> s] /\ toApp = <<>>
         /\ socks[s].status = "READ_PENDING" =>
              call = [op |-> "READ", sock |-> s] /\ toApp = <<>>
         /\ socks[s].status = "WRITE_PENDING" =>
              call = [op |-> "WRITE", sock |-> s] /\ toApp = <<>>
BY DEF PendingIsAwaited, PendingFor

\* A pending status needs a call to that effect.
Pending == {"ACCEPT_PENDING", "CONNECT_PENDING", "READ_PENDING", "WRITE_PENDING"}

LEMMA PendingByStatus ==
  ASSUME \A s \in Sock :
           /\ socks[s].status = "ACCEPT_PENDING" =>
                call = [op |-> "ACCEPT", sock |-> s] /\ toApp = <<>>
           /\ socks[s].status = "CONNECT_PENDING" =>
                call = [op |-> "CONNECT", sock |-> s] /\ toApp = <<>>
           /\ socks[s].status = "READ_PENDING" =>
                call = [op |-> "READ", sock |-> s] /\ toApp = <<>>
           /\ socks[s].status = "WRITE_PENDING" =>
                call = [op |-> "WRITE", sock |-> s] /\ toApp = <<>>
  PROVE  PendingIsAwaited
BY DEF PendingIsAwaited, PendingFor

\* The answer to the pending call of socket s: it is the first one, nobody else
\* is pending afterwards, and no WRITE is unanswered.
LEMMA AnswerStep ==
  ASSUME TypeOK, CallInv, NEW s \in Sock, toApp = <<>>,
         NEW op \in Op, NEW t \in Sock,
         call = [op |-> op, sock |-> s], op = "ACCEPT" \/ t = s,
         toApp' = Reply(op, t), UNCHANGED call,
         socks'[s].status \notin Pending,
         \A u \in Sock \ {s} : socks'[u].status \in Pending =>
                                 socks'[u].status = socks[u].status,
         \A i \in DOMAIN tcpq' : tcpq'[i].type # "WRITE"
  PROVE  CallInv' /\ Library!Answer
<1>2. [op |-> op, sock |-> t] \in Calls /\ SameCall([op |-> op, sock |-> t], call)
  BY DEF Calls, SameCall
<1>3. toApp' = <<[op |-> op, sock |-> t]>>
  BY DEF Reply
<1>4. call # NoCall
  BY NoCallAssumption DEF Calls
<1>5. AnswerRight'
  BY <1>2, <1>3, <1>4 DEF AnswerRight, SameCall
<1>6. \A u \in Sock : socks'[u].status \notin Pending
  <2> SUFFICES ASSUME NEW u \in Sock, socks'[u].status \in Pending PROVE FALSE
    OBVIOUS
  <2>1. u # s /\ socks[u].status \in Pending
    OBVIOUS
  <2>2. call.sock = u
    BY <2>1, PendingFacts DEF CallInv, Pending
  <2> QED
    BY <2>1, <2>2
<1>7. PendingIsAwaited'
  BY <1>6 DEF PendingIsAwaited, PendingFor, Pending
<1>8. WriteRecorded'
  BY DEF WriteRecorded
<1>9. Library!Answer
  BY <1>2, <1>3, <1>4 DEF Library!Answer
<1> QED
  BY <1>5, <1>7, <1>8, <1>9 DEF CallInv

\* While the application waits for nothing, nothing is pending.
LEMMA NothingPending ==
  ASSUME CallInv, call = NoCall \/ toApp # <<>>
  PROVE  /\ \A s \in Sock : socks[s].status \notin Pending
         /\ \A i \in DOMAIN tcpq : tcpq[i].sock \in Sock => tcpq[i].type # "WRITE"
         /\ call = NoCall => toApp = <<>>
<1>1. \A s \in Sock : socks[s].status \notin Pending
  <2> SUFFICES ASSUME NEW s \in Sock, socks[s].status \in Pending PROVE FALSE
    OBVIOUS
  <2>1. toApp = <<>> /\ \E op \in Op : call = [op |-> op, sock |-> s]
    BY PendingFacts DEF CallInv, Pending, Op
  <2>2. call # NoCall
    BY <2>1, NoCallAssumption DEF Calls
  <2> QED
    BY <2>1, <2>2
<1>2. \A i \in DOMAIN tcpq : tcpq[i].sock \in Sock => tcpq[i].type # "WRITE"
  <2> SUFFICES ASSUME NEW i \in DOMAIN tcpq, tcpq[i].sock \in Sock, tcpq[i].type = "WRITE"
               PROVE  FALSE
    OBVIOUS
  <2>1. call = [op |-> "WRITE", sock |-> tcpq[i].sock] /\ toApp = <<>>
    BY DEF CallInv, WriteRecorded
  <2>2. call # NoCall
    BY <2>1, NoCallAssumption DEF Calls, Op
  <2> QED
    BY <2>1, <2>2
<1> QED
  BY <1>1, <1>2 DEF CallInv, AnswerRight

\* A call that is answered by the handler that takes it.
LEMMA AnsweredAtOnce ==
  ASSUME TypeOK, CallInv, NEW op \in Op, NEW s \in Sock \cup {0}, Makes(op, s),
         NEW t \in Sock, op = "SOCKET" \/ t = s, toApp' = Reply(op, t),
         \A u \in Sock : socks'[u].status \in Pending => socks'[u].status = socks[u].status,
         \A i \in DOMAIN tcpq' : tcpq'[i].type # "WRITE"
  PROVE  CallInv' /\ Library!Make
<1>1. call = NoCall /\ call' = [op |-> op, sock |-> s] /\ call' \in Calls
  BY MakesType
<1>2. toApp = <<>> /\ \A u \in Sock : socks'[u].status \notin Pending
  BY <1>1, NothingPending
<1>3. [op |-> op, sock |-> t] \in Calls /\ SameCall([op |-> op, sock |-> t], call')
  BY <1>1 DEF Calls, SameCall
<1>4. toApp' = <<[op |-> op, sock |-> t]>>
  BY <1>2 DEF Reply
<1>5. AnswerRight'
  BY <1>1, <1>3, <1>4, NoCallAssumption DEF AnswerRight, SameCall
<1>6. PendingIsAwaited' /\ WriteRecorded'
  BY <1>2 DEF PendingIsAwaited, PendingFor, Pending, WriteRecorded
<1>7. Library!Make
  BY <1>1, <1>2, <1>3, <1>4 DEF Library!Make
<1> QED
  BY <1>5, <1>6, <1>7 DEF CallInv

\* A call that waits for tcp_module.
LEMMA AnsweredLater ==
  ASSUME TypeOK, CallInv, NEW op \in DOMAIN PendingFor, NEW s \in Sock, Makes(op, s),
         UNCHANGED toApp, socks'[s].status = PendingFor[op],
         \A u \in Sock \ {s} : socks'[u].status \in Pending =>
                                 socks'[u].status = socks[u].status,
         \A i \in DOMAIN tcpq' : tcpq'[i].type = "WRITE" =>
           op = "WRITE" /\ tcpq'[i].sock = s
             /\ \A j \in DOMAIN tcpq' : tcpq'[j].type = "WRITE" => j = i
  PROVE  CallInv' /\ Library!Make
<1>0. op \in Op
  BY DEF PendingFor, Op
<1>1. call = NoCall /\ call' = [op |-> op, sock |-> s] /\ call' \in Calls
  BY <1>0, MakesType
<1>2. toApp' = <<>> /\ toApp = <<>> /\ \A u \in Sock \ {s} : socks'[u].status \notin Pending
  BY <1>1, NothingPending
<1>3. PendingIsAwaited'
  <2> SUFFICES ASSUME NEW o \in DOMAIN PendingFor, NEW u \in Sock,
                      socks'[u].status = PendingFor[o]
               PROVE  call' = [op |-> o, sock |-> u] /\ toApp' = <<>>
    BY DEF PendingIsAwaited
  <2>1. u = s
    BY <1>2 DEF PendingFor, Pending
  <2>2. o = op
    BY <2>1 DEF PendingFor
  <2> QED
    BY <1>1, <1>2, <2>1, <2>2
<1>4. WriteRecorded'
  BY <1>1, <1>2 DEF WriteRecorded
<1>5. AnswerRight'
  BY <1>2 DEF AnswerRight
<1>6. Library!Make
  BY <1>1, <1>2 DEF Library!Make
<1> QED
  BY <1>3, <1>4, <1>5, <1>6 DEF CallInv

\* Steps that leave every call as it is.
LEMMA CallUnmoved ==
  ASSUME CallInv, UNCHANGED <<tcpq, toApp, call>>,
         \A s \in Sock : socks'[s].status \in Pending => socks'[s].status = socks[s].status
  PROVE  CallInv' /\ UNCHANGED <<call, toApp>>
<1>1. \A s \in Sock :
        /\ socks'[s].status = "ACCEPT_PENDING" =>
             call' = [op |-> "ACCEPT", sock |-> s] /\ toApp' = <<>>
        /\ socks'[s].status = "CONNECT_PENDING" =>
             call' = [op |-> "CONNECT", sock |-> s] /\ toApp' = <<>>
        /\ socks'[s].status = "READ_PENDING" =>
             call' = [op |-> "READ", sock |-> s] /\ toApp' = <<>>
        /\ socks'[s].status = "WRITE_PENDING" =>
             call' = [op |-> "WRITE", sock |-> s] /\ toApp' = <<>>
  BY PendingFacts DEF CallInv, Pending
<1>2. PendingIsAwaited'
  BY <1>1 DEF PendingIsAwaited, PendingFor
<1> QED
  BY <1>2 DEF CallInv, AnswerRight, WriteRecorded, SameCall

Moved == Library!Next \/ UNCHANGED <<call, toApp>>

LEMMA WriteCalls ==
  ASSUME TypeOK, CallInv, HandleTCPWrite
  PROVE  CallInv' /\ Moved
<1>0. socks \in [Sock -> SockRecord]
  BY DEF TypeOK
<1>1. CASE WriteForNobody
  BY <1>1, CallUnmoved DEF WriteForNobody, sockSide, appSide, Moved
<1>2. ASSUME NEW s \in Sock, WriteToBin(s)
      PROVE  CallInv' /\ Moved
  <2>1. \A u \in Sock : socks'[u].status = socks[u].status
    BY <1>0, <1>2 DEF WriteToBin, SockRecord
  <2> QED
    BY <1>2, <2>1, CallUnmoved DEF WriteToBin, WriteFor, appSide, Moved
<1>3. ASSUME NEW s \in Sock, WriteDropped(s)
      PROVE  CallInv' /\ Moved
  BY <1>3, CallUnmoved DEF WriteDropped, WriteFor, appSide, Moved
<1>4. ASSUME NEW s \in Sock, WriteToAcceptFull(s)
      PROVE  CallInv' /\ Moved
  <2>1. \A u \in Sock : socks'[u].status = IF u = s THEN "LISTENING" ELSE socks[u].status
    BY <1>0, <1>4 DEF WriteToAcceptFull, SockRecord
  <2>2. \A u \in Sock : socks'[u].status \in Pending => socks'[u].status = socks[u].status
    BY <2>1 DEF Pending
  <2> QED
    BY <1>4, <2>2, CallUnmoved DEF WriteToAcceptFull, WriteFor, appSide, Moved
<1>5. ASSUME NEW s \in Sock, NEW op \in Op, op # "WRITE",
             call = [op |-> op, sock |-> s], toApp = <<>>, UNCHANGED <<tcpq, call>>,
             NEW t \in Sock, op = "ACCEPT" \/ t = s, toApp' = Reply(op, t),
             socks'[s].status \notin Pending,
             \A u \in Sock \ {s} : socks'[u].status \in Pending =>
                                     socks'[u].status = socks[u].status
      PROVE  CallInv' /\ Moved
  <2>1. \A i \in DOMAIN tcpq' : tcpq'[i].type # "WRITE"
    BY <1>5 DEF CallInv, WriteRecorded
  <2> QED
    BY <1>5, <2>1, AnswerStep DEF Moved, Library!Next
<1>6. ASSUME NEW s \in Sock, WriteToReader(s)
      PROVE  CallInv' /\ Moved
  <2>1. call = [op |-> "READ", sock |-> s] /\ toApp = <<>>
    BY <1>6, PendingFacts DEF WriteToReader, WriteFor, CallInv
  <2>2. \A u \in Sock : socks'[u].status = IF u = s THEN "CONNECTED" ELSE socks[u].status
    BY <1>0, <1>6 DEF WriteToReader, SockRecord
  <2>3. UNCHANGED <<tcpq, call>> /\ toApp' = Reply("READ", s)
    BY <1>6 DEF WriteToReader, WriteFor, appSide
  <2>4. socks'[s].status \notin Pending /\ \A u \in Sock \ {s} : socks'[u].status = socks[u].status
    BY <2>2 DEF Pending
  <2>5. "READ" \in Op
    BY DEF Op
  <2> QED
    BY <1>5, <2>1, <2>3, <2>4, <2>5
<1>7. ASSUME NEW s \in Sock, WriteToConnect(s)
      PROVE  CallInv' /\ Moved
  <2>1. call = [op |-> "CONNECT", sock |-> s] /\ toApp = <<>>
    BY <1>7, PendingFacts DEF WriteToConnect, WriteFor, CallInv
  <2>2. \A u \in Sock : socks'[u].status = IF u = s THEN "CONNECTED" ELSE socks[u].status
    BY <1>0, <1>7 DEF WriteToConnect, SockRecord
  <2>3. UNCHANGED <<tcpq, call>> /\ toApp' = Reply("CONNECT", s)
    BY <1>7 DEF WriteToConnect, WriteFor, appSide
  <2>4. socks'[s].status \notin Pending /\ \A u \in Sock \ {s} : socks'[u].status = socks[u].status
    BY <2>2 DEF Pending
  <2>5. "CONNECT" \in Op
    BY DEF Op
  <2> QED
    BY <1>5, <2>1, <2>3, <2>4, <2>5
<1>8. ASSUME NEW s \in Sock, WriteToAccept(s)
      PROVE  CallInv' /\ Moved
  <2> DEFINE new == LowestOf(FreeSocks)
  <2>1. call = [op |-> "ACCEPT", sock |-> s] /\ toApp = <<>>
    BY <1>8, PendingFacts DEF WriteToAccept, WriteFor, CallInv
  <2>2. new \in Sock /\ socks[new].status = "FREE"
    BY <1>8, FreeSocksFacts DEF WriteToAccept
  <2>3. /\ socks[s].status = "ACCEPT_PENDING"
        /\ socks' = [socks EXCEPT ![s].status = "LISTENING",
                       ![new] = [status |-> "CONNECTED", bin |-> 0,
                                 conn |-> Head(toSock).conn]]
        /\ toApp' = Reply("ACCEPT", new) /\ UNCHANGED <<tcpq, call>>
    BY <1>8 DEF WriteToAccept, WriteFor, appSide
  <2> HIDE DEF new
  <2>4. \A u \in Sock : socks'[u].status = CASE u = s -> "LISTENING"
                                             [] u = new -> "CONNECTED"
                                             [] OTHER -> socks[u].status
    BY <1>0, <2>2, <2>3 DEF SockRecord
  <2>5. /\ socks'[s].status \notin Pending
        /\ \A u \in Sock \ {s} : socks'[u].status \in Pending =>
                                   socks'[u].status = socks[u].status
    BY <2>4 DEF Pending
  <2>6. "ACCEPT" \in Op
    BY DEF Op
  <2> QED
    BY <1>5, <2>1, <2>2, <2>3, <2>5, <2>6
<1> QED
  BY <1>1, <1>2, <1>3, <1>4, <1>6, <1>7, <1>8 DEF HandleTCPWrite

LEMMA StatusCalls ==
  ASSUME TypeOK, CallInv, HandleTCPStatus
  PROVE  CallInv' /\ Moved
<1> DEFINE q == Head(tcpq)
<1>0. /\ socks \in [Sock -> SockRecord]
      /\ tcpq \in Seq([type : RequestType, sock : Sock]) /\ tcpq # <<>>
      /\ tcpq' = Tail(tcpq) /\ UNCHANGED call
  BY DEF TypeOK, HandleTCPStatus, appSide
<1>1. 1 \in DOMAIN tcpq /\ q = tcpq[1] /\ q.sock \in Sock
  <2>1. \A D : \A queue \in Seq(D) : queue # <<>> =>
          1 \in DOMAIN queue /\ Head(queue) = queue[1] /\ queue[1] \in D
    OBVIOUS
  <2>2. 1 \in DOMAIN tcpq /\ q = tcpq[1] /\ tcpq[1] \in [type : RequestType, sock : Sock]
    BY <1>0, <2>1, Zenon
  <2> QED
    BY <2>2
<1>2. \A i \in DOMAIN tcpq' : i + 1 \in DOMAIN tcpq /\ tcpq'[i] = tcpq[i + 1] /\ i + 1 # 1
  BY <1>0
<1> HIDE DEF q
<1>3. CASE q.type = "WRITE"
  <2>1. call = [op |-> "WRITE", sock |-> q.sock] /\ toApp = <<>>
        /\ \A j \in DOMAIN tcpq : tcpq[j].type = "WRITE" => j = 1
    BY <1>1, <1>3 DEF CallInv, WriteRecorded
  <2>2. \A i \in DOMAIN tcpq' : tcpq'[i].type # "WRITE"
    BY <1>2, <2>1
  <2>3. socks' = [socks EXCEPT ![q.sock].status = "CONNECTED"]
        /\ toApp' = Reply("WRITE", q.sock)
    BY <1>3 DEF HandleTCPStatus, PassedOn, q
  <2>4. \A u \in Sock : socks'[u].status = IF u = q.sock THEN "CONNECTED" ELSE socks[u].status
    BY <1>0, <1>1, <2>3 DEF SockRecord
  <2>5. /\ socks'[q.sock].status \notin Pending
        /\ \A u \in Sock \ {q.sock} : socks'[u].status = socks[u].status
    BY <1>1, <2>4 DEF Pending
  <2>6. "WRITE" \in Op /\ UNCHANGED call
    BY <1>0 DEF Op
  <2> QED
    BY <1>1, <2>1, <2>2, <2>3, <2>5, <2>6, AnswerStep DEF Moved, Library!Next
<1>4. CASE q.type # "WRITE"
  <2>1. UNCHANGED <<socks, toApp>>
    BY <1>4 DEF HandleTCPStatus, PassedOn, q
  <2>2. WriteRecorded'
    <3> SUFFICES ASSUME NEW i \in DOMAIN tcpq', tcpq'[i].type = "WRITE"
                 PROVE  /\ call = [op |-> "WRITE", sock |-> tcpq'[i].sock] /\ toApp = <<>>
                        /\ \A j \in DOMAIN tcpq' : tcpq'[j].type = "WRITE" => j = i
      BY <1>0, <2>1 DEF WriteRecorded
    <3>1. i + 1 \in DOMAIN tcpq /\ tcpq[i + 1].type = "WRITE"
          /\ tcpq'[i].sock = tcpq[i + 1].sock
      BY <1>2
    <3>2. /\ call = [op |-> "WRITE", sock |-> tcpq[i + 1].sock] /\ toApp = <<>>
          /\ \A j \in DOMAIN tcpq : tcpq[j].type = "WRITE" => j = i + 1
      BY <3>1 DEF CallInv, WriteRecorded
    <3>3. \A j \in DOMAIN tcpq' : tcpq'[j].type = "WRITE" => j + 1 = i + 1
      BY <1>2, <3>2
    <3>4. DOMAIN tcpq' \subseteq Nat
      BY <1>0
    <3> QED
      BY <3>1, <3>2, <3>3, <3>4
  <2>3. AnswerRight'
    BY <1>0, <2>1 DEF CallInv, AnswerRight, SameCall
  <2>4. PendingIsAwaited'
    BY <1>0, <2>1 DEF CallInv, PendingIsAwaited, PendingFor
  <2> QED
    BY <1>0, <2>1, <2>2, <2>3, <2>4 DEF CallInv, Moved
<1> QED
  BY <1>3, <1>4

LEMMA RecordType ==
  ASSUME TypeOK
  PROVE  \A i \in DOMAIN tcpq : tcpq[i].type \in RequestType /\ tcpq[i].sock \in Sock
<1>1. \A D : \A queue \in Seq(D) : \A i \in DOMAIN queue : queue[i] \in D
  OBVIOUS
<1>2. \A i \in DOMAIN tcpq : tcpq[i] \in [type : RequestType, sock : Sock]
  BY <1>1, Zenon DEF TypeOK
<1> QED
  BY <1>2

\* The records in tcpq after a request is sent.
LEMMA RecordAppended ==
  ASSUME TypeOK, CallInv, call = NoCall, NEW ty \in RequestType, NEW s \in Sock, NEW c,
         SendTCPRequest(ty, s, c)
  PROVE  \A i \in DOMAIN tcpq' : tcpq'[i].type = "WRITE" =>
           ty = "WRITE" /\ tcpq'[i].sock = s
             /\ \A j \in DOMAIN tcpq' : tcpq'[j].type = "WRITE" => j = i
<1>1. tcpq' = Append(tcpq, [type |-> ty, sock |-> s])
  BY DEF SendTCPRequest, Recorded
<1>2. \A i \in DOMAIN tcpq : tcpq[i].type # "WRITE"
  BY RecordType, NothingPending
<1>3. Len(tcpq) \in Nat /\ DOMAIN tcpq = 1..Len(tcpq)
  BY DEF TypeOK
<1>4. /\ DOMAIN tcpq' = 1..(Len(tcpq) + 1)
      /\ \A i \in 1..Len(tcpq) : tcpq'[i] = tcpq[i]
      /\ tcpq'[Len(tcpq) + 1] = [type |-> ty, sock |-> s]
  BY <1>1, <1>3 DEF TypeOK
<1>5. \A i \in DOMAIN tcpq' : tcpq'[i].type = "WRITE" => i = Len(tcpq) + 1
  BY <1>2, <1>3, <1>4
<1> QED
  BY <1>4, <1>5

LEMMA AppCalls ==
  ASSUME TypeOK, CallInv, ProcessAppRequest
  PROVE  CallInv' /\ Moved
<1>0. socks \in [Sock -> SockRecord]
  BY DEF TypeOK
<1>a. ASSUME UNCHANGED tcpq, call = NoCall
      PROVE  \A i \in DOMAIN tcpq' : tcpq'[i].type # "WRITE"
  BY <1>a, RecordType, NothingPending
<1>b. Library!Make => Moved
  BY DEF Moved, Library!Next
<1>1. CASE AppSocket
  <2> DEFINE t == LowestOf(FreeSocks)
  <2>1. t \in Sock
    BY <1>1, FreeSocksFacts DEF AppSocket
  <2>2. /\ Makes("SOCKET", 0) /\ call = NoCall /\ toApp' = Reply("SOCKET", t)
        /\ socks' = [socks EXCEPT ![t].status = "UNBOUND"] /\ UNCHANGED tcpq
    BY <1>1 DEF AppSocket, Makes
  <2> HIDE DEF t
  <2>3. \A u \in Sock : socks'[u].status = IF u = t THEN "UNBOUND" ELSE socks[u].status
    BY <1>0, <2>1, <2>2 DEF SockRecord
  <2>4. \A u \in Sock : socks'[u].status \in Pending => socks'[u].status = socks[u].status
    BY <2>3 DEF Pending
  <2>5. "SOCKET" \in Op /\ 0 \in Sock \cup {0}
    BY DEF Op
  <2> QED
    BY <1>a, <1>b, <2>1, <2>2, <2>4, <2>5, AnsweredAtOnce
<1>2. ASSUME NEW s \in Sock, NEW op \in Op, Makes(op, s), toApp' = Reply(op, s),
             UNCHANGED tcpq,
             \A u \in Sock : socks'[u].status \in Pending => socks'[u].status = socks[u].status
      PROVE  CallInv' /\ Moved
  <2>1. call = NoCall /\ s \in Sock \cup {0}
    BY <1>2 DEF Makes
  <2> QED
    BY <1>2, <1>a, <1>b, <2>1, AnsweredAtOnce
<1>3. ASSUME NEW s \in Sock, NEW p \in Ports, AppBind(s, p)
      PROVE  CallInv' /\ Moved
  <2>1. \A u \in Sock : socks'[u].status = IF u = s THEN "BOUND" ELSE socks[u].status
    BY <1>0, <1>3 DEF AppBind, SockRecord
  <2>2. \A u \in Sock : socks'[u].status \in Pending => socks'[u].status = socks[u].status
    BY <2>1 DEF Pending
  <2>3. "BIND" \in Op
    BY DEF Op
  <2> QED
    BY <1>2, <1>3, <2>2, <2>3 DEF AppBind
<1>4. ASSUME NEW s \in Sock, AppListen(s)
      PROVE  CallInv' /\ Moved
  <2>1. \A u \in Sock : socks'[u].status = IF u = s THEN "LISTENING" ELSE socks[u].status
    BY <1>0, <1>4 DEF AppListen, SockRecord
  <2>2. \A u \in Sock : socks'[u].status \in Pending => socks'[u].status = socks[u].status
    BY <2>1 DEF Pending
  <2>3. "LISTEN" \in Op
    BY DEF Op
  <2> QED
    BY <1>2, <1>4, <2>2, <2>3 DEF AppListen
<1>5. ASSUME NEW s \in Sock, NEW op \in DOMAIN PendingFor, Makes(op, s), UNCHANGED toApp,
             NEW c, \/ UNCHANGED tcpq
                    \/ op \in RequestType /\ SendTCPRequest(op, s, c),
             \A u \in Sock :
               socks'[u].status = IF u = s THEN PendingFor[op] ELSE socks[u].status
      PROVE  CallInv' /\ Moved
  <2>1. call = NoCall
    BY <1>5 DEF Makes
  <2>2. \A i \in DOMAIN tcpq' : tcpq'[i].type = "WRITE" =>
          op = "WRITE" /\ tcpq'[i].sock = s
            /\ \A j \in DOMAIN tcpq' : tcpq'[j].type = "WRITE" => j = i
    BY <1>5, <1>a, <2>1, RecordAppended
  <2> QED
    BY <1>5, <1>b, <2>2, AnsweredLater
<1>6. ASSUME NEW s \in Sock, AppAccept(s)
      PROVE  CallInv' /\ Moved
  <2>1. \A u \in Sock : socks'[u].status = IF u = s THEN "ACCEPT_PENDING" ELSE socks[u].status
    BY <1>0, <1>6 DEF AppAccept, SockRecord
  <2>2. "ACCEPT" \in DOMAIN PendingFor /\ "ACCEPT" \in RequestType
        /\ PendingFor["ACCEPT"] = "ACCEPT_PENDING"
    BY DEF PendingFor, RequestType
  <2>3. Makes("ACCEPT", s) /\ UNCHANGED toApp /\ SendTCPRequest("ACCEPT", s, socks[s].conn)
    BY <1>6 DEF AppAccept
  <2> QED
    BY <1>5, <2>1, <2>2, <2>3
<1>7. ASSUME NEW s \in Sock, NEW r \in Remote, AppConnect(s, r)
      PROVE  CallInv' /\ Moved
  <2>1. \A u \in Sock : socks'[u].status = IF u = s THEN "CONNECT_PENDING" ELSE socks[u].status
    BY <1>0, <1>7 DEF AppConnect, SockRecord
  <2>2. "CONNECT" \in DOMAIN PendingFor /\ "CONNECT" \in RequestType
        /\ PendingFor["CONNECT"] = "CONNECT_PENDING"
    BY DEF PendingFor, RequestType
  <2>3. Makes("CONNECT", s) /\ UNCHANGED toApp /\ SendTCPRequest("CONNECT", s, socks'[s].conn)
    BY <1>7 DEF AppConnect
  <2> QED
    BY <1>5, <2>1, <2>2, <2>3
<1>8. ASSUME NEW s \in Sock, AppRead(s)
      PROVE  CallInv' /\ Moved
  <2>1. Makes("READ", s) /\ UNCHANGED tcpq
    BY <1>8 DEF AppRead
  <2>2. CASE toApp' = Reply("READ", s) /\ UNCHANGED socks
    BY <1>2, <2>1, <2>2 DEF Op
  <2>3. CASE socks' = [socks EXCEPT ![s].status = "READ_PENDING"] /\ UNCHANGED toApp
    <3>1. \A u \in Sock : socks'[u].status = IF u = s THEN "READ_PENDING" ELSE socks[u].status
      BY <1>0, <2>3 DEF SockRecord
    <3>2. "READ" \in DOMAIN PendingFor /\ PendingFor["READ"] = "READ_PENDING"
      BY DEF PendingFor
    <3> QED
      BY <1>5, <2>1, <2>3, <3>1, <3>2
  <2> QED
    BY <1>8, <2>2, <2>3 DEF AppRead
<1>9. ASSUME NEW s \in Sock, AppWrite(s)
      PROVE  CallInv' /\ Moved
  <2>1. \A u \in Sock : socks'[u].status = IF u = s THEN "WRITE_PENDING" ELSE socks[u].status
    BY <1>0, <1>9 DEF AppWrite, SockRecord
  <2>2. "WRITE" \in DOMAIN PendingFor /\ "WRITE" \in RequestType
        /\ PendingFor["WRITE"] = "WRITE_PENDING"
    BY DEF PendingFor, RequestType
  <2>3. Makes("WRITE", s) /\ UNCHANGED toApp /\ SendTCPRequest("WRITE", s, socks[s].conn)
    BY <1>9 DEF AppWrite
  <2> QED
    BY <1>5, <2>1, <2>2, <2>3
<1>10. ASSUME NEW s \in Sock, AppClose(s)
       PROVE  CallInv' /\ Moved
  <2>1. Makes("CLOSE", s) /\ call = NoCall /\ toApp' = Reply("CLOSE", s)
        /\ SendTCPRequest("CLOSE", s, socks[s].conn)
    BY <1>10 DEF AppClose, Makes
  <2>2. \A u \in Sock : socks'[u].status = IF u = s THEN "FREE" ELSE socks[u].status
    BY <1>0, <1>10 DEF AppClose, Closed
  <2>3. \A u \in Sock : socks'[u].status \in Pending => socks'[u].status = socks[u].status
    BY <2>2 DEF Pending
  <2>4. "CLOSE" \in Op /\ "CLOSE" \in RequestType /\ s \in Sock \cup {0}
    BY DEF Op, RequestType
  <2>5. \A i \in DOMAIN tcpq' : tcpq'[i].type # "WRITE"
    BY <2>1, <2>4, RecordAppended
  <2> QED
    BY <1>b, <2>1, <2>3, <2>4, <2>5, AnsweredAtOnce
<1> QED
  BY <1>1, <1>3, <1>4, <1>6, <1>7, <1>8, <1>9, <1>10 DEF ProcessAppRequest

LEMMA ReturnCalls ==
  ASSUME TypeOK, CallInv, AppReturn
  PROVE  CallInv' /\ Moved
<1>1. /\ call # NoCall /\ toApp # <<>> /\ call' = NoCall /\ toApp' = Tail(toApp)
      /\ UNCHANGED <<socks, tcpq>>
  BY DEF AppReturn, sockSide
<1>2. toApp' = <<>>
  BY <1>1 DEF CallInv, AnswerRight
<1>3. \A s \in Sock : socks'[s].status \notin Pending
  BY <1>1, NothingPending
<1>4. \A i \in DOMAIN tcpq' : tcpq'[i].type # "WRITE"
  BY <1>1 DEF CallInv, WriteRecorded
<1>5. Library!Return
  BY <1>1 DEF Library!Return
<1> QED
  BY <1>2, <1>3, <1>4, <1>5 DEF CallInv, AnswerRight, PendingIsAwaited, PendingFor, Pending,
     WriteRecorded, Moved, Library!Next

LEMMA CallStep ==
  ASSUME TypeOK, CallInv, [Next]_vars
  PROVE  CallInv' /\ Moved
<1>1. CASE TcpModule
  <2>1. UNCHANGED <<sockSide, toApp, appSide>>
    BY <1>1, ZenonT(60) DEF TcpModule, TakeSyn, TellSock, TakeData, CloseFurther, IgnoreRequest,
                DoRequest, TakeStatus, TakesRequest
  <2> QED
    BY <2>1, CallUnmoved DEF sockSide, appSide, Moved
<1>2. CASE UNCHANGED vars
  BY <1>2, CallUnmoved DEF vars, sockSide, appSide, Moved
<1> QED
  BY <1>1, <1>2, WriteCalls, StatusCalls, AppCalls, ReturnCalls DEF Next, SockModule

-----------------------------------------------------------------------------
(* Every STATUS meets a record.                                            *)

\* What a message more, and one less, adds to what is counted.
LEMMA Counted ==
  ASSUME NEW queue \in Seq(Message), NEW m \in Message
  PROVE  /\ Requests(queue) \in Nat /\ Statuses(queue) \in Nat
         /\ Requests(Append(queue, m)) =
              Requests(queue) + (IF m.type \in RequestType THEN 1 ELSE 0)
         /\ Statuses(Append(queue, m)) =
              Statuses(queue) + (IF m.type = "STATUS" THEN 1 ELSE 0)
<1>1. m.type \in {"STATUS"} <=> m.type = "STATUS"
  OBVIOUS
<1> QED
  BY <1>1, CountType, CountAppend DEF Requests, Statuses

LEMMA Uncounted ==
  ASSUME NEW queue \in Seq(Message), queue # <<>>
  PROVE  /\ Requests(queue) \in Nat /\ Statuses(queue) \in Nat
         /\ Requests(Tail(queue)) \in Nat /\ Statuses(Tail(queue)) \in Nat
         /\ Requests(queue) =
              Requests(Tail(queue)) + (IF Head(queue).type \in RequestType THEN 1 ELSE 0)
         /\ Statuses(queue) =
              Statuses(Tail(queue)) + (IF Head(queue).type = "STATUS" THEN 1 ELSE 0)
<1>1. Head(queue).type \in {"STATUS"} <=> Head(queue).type = "STATUS"
  OBVIOUS
<1>2. Tail(queue) \in Seq(Message)
  BY FifoType
<1> QED
  BY <1>1, <1>2, CountType, CountTail DEF Requests, Statuses

LEMMA StatusStep ==
  ASSUME TypeOK, StatusHasRecord, [Next]_vars
  PROVE  StatusHasRecord'
<1> DEFINE Balance == Requests(toTcp) + Statuses(toSock) <= Len(tcpq)
<1>0. /\ toTcp \in Seq(Message) /\ toSock \in Seq(Message) /\ Len(tcpq) \in Nat
      /\ Requests(toTcp) \in Nat /\ Statuses(toSock) \in Nat
      /\ Requests(toTcp) + Statuses(toSock) <= Len(tcpq)
      /\ clist \in Seq(TcpRecord) /\ MaxUnread \in Nat
  <2>1. toTcp \in Seq(Message) /\ toSock \in Seq(Message) /\ Len(tcpq) \in Nat
        /\ clist \in Seq(TcpRecord) /\ MaxUnread \in Nat
    BY BoundsAssumption DEF TypeOK
  <2>2. Requests(toTcp) \in Nat /\ Statuses(toSock) \in Nat
    BY <2>1, CountType DEF Requests, Statuses
  <2> QED
    BY <2>1, <2>2 DEF StatusHasRecord
<1>a. \A ty, c, n : Msg(ty, c, n).type = ty
  BY DEF Msg
<1>1. ASSUME Statuses(toSock') = Statuses(toSock), UNCHANGED <<toTcp, tcpq>>
      PROVE  StatusHasRecord'
  BY <1>0, <1>1 DEF StatusHasRecord
<1>2. ASSUME NEW c, NEW f, TypeOK', TakeSyn(c, f) \/ TellSock(c, f) \/ TakeData(c, f)
                             \/ CloseFurther(c, f)
      PROVE  StatusHasRecord'
  <2>1. UNCHANGED <<toTcp, tcpq>>
    BY <1>2 DEF TakeSyn, TellSock, TakeData, CloseFurther, sockSide
  <2>2. CASE UNCHANGED toSock
    BY <1>1, <2>1, <2>2
  <2>3. ASSUME NEW conn \in Connection, NEW n \in 0..MaxUnread,
               toSock' = Append(toSock, Msg("WRITE", conn, n))
        PROVE  StatusHasRecord'
    <3>1. Msg("WRITE", conn, n) \in Message /\ Msg("WRITE", conn, n).type # "STATUS"
      BY <1>a, MsgType DEF RequestType
    <3> QED
      BY <1>0, <1>1, <2>1, <2>3, <3>1, Counted
  <2>4. CASE TellSock(c, f)
    <3>1. clist[Found(c)].conn \in Connection /\ 0 \in 0..MaxUnread
      BY <1>0, <2>4, FoundFacts DEF TellSock, TcpRecord
    <3> QED
      BY <2>3, <2>4, <3>1 DEF TellSock
  <2>5. CASE TakeData(c, f)
    <3>1. clist[Found(c)].conn \in Connection /\ clist[Found(c)].unread \in 0..MaxUnread
      BY <2>5, FoundFacts DEF TakeData, TcpRecord
    <3>2. 1 \in 0..MaxUnread
      BY <1>0, <2>5, <3>1 DEF TakeData
    <3> QED
      BY <2>2, <2>3, <2>5, <3>1, <3>2 DEF TakeData
  <2> QED
    BY <1>2, <2>2, <2>4, <2>5 DEF TakeSyn, CloseFurther
<1>3. CASE TakesRequest /\ (IgnoreRequest \/ DoRequest \/ TakeStatus)
  <2>1. /\ toTcp # <<>> /\ toTcp' = Tail(toTcp) /\ UNCHANGED tcpq
        /\ Request = Head(toTcp) /\ Request \in Message
        /\ Requests(toTcp') \in Nat
        /\ Requests(toTcp) = Requests(toTcp') + (IF Request.type \in RequestType THEN 1 ELSE 0)
    BY <1>0, <1>3, RequestFacts, Uncounted DEF TakesRequest, sockSide, Request
  <2>2. CASE IgnoreRequest
    BY <1>0, <2>1, <2>2 DEF IgnoreRequest, StatusHasRecord
  <2>3. CASE DoRequest
    <3>1. Request.type \in RequestType /\ Candidates[Chosen].conn \in Connection
      BY <2>1, <2>3, RequestFacts DEF DoRequest, TcpRecord
    <3>2. Msg("STATUS", Candidates[Chosen].conn, 0) \in Message
      <4>1. 0 \in 0..MaxUnread
        BY <1>0
      <4> QED
        BY <3>1, <4>1, MsgType
    <3>3. Statuses(toSock') = Statuses(toSock) + 1
      BY <1>0, <1>a, <2>3, <3>2, Counted DEF DoRequest
    <3> QED
      BY <1>0, <2>1, <3>1, <3>3 DEF StatusHasRecord
  <2>4. CASE TakeStatus
    <3> DEFINE left == Max({0, clist[Chosen].unread - Request.bytes})
    <3>1. toSock' = IF left = 0 THEN toSock
                    ELSE Append(toSock, Msg("WRITE", clist[Chosen].conn, left))
      BY <2>4 DEF TakeStatus
    <3>2. clist[Chosen] \in TcpRecord
      BY <2>1, <2>4, RequestFacts DEF TakeStatus
    <3>3. left \in 0..MaxUnread
      <4>1. clist[Chosen].unread \in 0..MaxUnread /\ Request.bytes \in 0..MaxUnread
        BY <2>1, <3>2 DEF TcpRecord, Message
      <4>2. clist[Chosen].unread - Request.bytes \in Int
            /\ clist[Chosen].unread - Request.bytes <= MaxUnread
        BY <1>0, <4>1
      <4> QED
        BY <1>0, <4>2, MaxOfTwo
    <3> HIDE DEF left
    <3>4. Msg("WRITE", clist[Chosen].conn, left) \in Message
          /\ Msg("WRITE", clist[Chosen].conn, left).type # "STATUS"
      BY <1>a, <3>2, <3>3, MsgType DEF TcpRecord, RequestType
    <3>5. Statuses(toSock') = Statuses(toSock)
      BY <1>0, <3>1, <3>4, Counted
    <3> QED
      BY <1>0, <2>1, <3>5 DEF StatusHasRecord
  <2> QED
    BY <1>3, <2>2, <2>3, <2>4
<1>4. CASE HandleTCPWrite
  <2>1. /\ toSock # <<>> /\ Head(toSock).type = "WRITE" /\ UNCHANGED tcpq
        /\ \E n : Consumed(n)
    BY <1>4 DEF HandleTCPWrite, WriteForNobody, WriteToBin, WriteToReader, WriteToAccept,
           WriteToAcceptFull, WriteToConnect, WriteDropped, WriteFor, FromTcp, sockSide
  <2>2. PICK n : Consumed(n)
    BY <2>1
  <2> DEFINE m == Msg("STATUS", Head(toSock).conn, n)
  <2>3. toSock' = Tail(toSock) /\ toTcp' = Append(toTcp, m)
    BY <2>2 DEF Consumed
  <2>4. m.type \notin RequestType
    BY <1>a DEF RequestType
  <2>5. m \in Message
    <3>1. toTcp' \in Seq(Message)
      BY <1>4, WriteTypes DEF Fifos
    <3> HIDE DEF m
    <3>2. toTcp'[Len(toTcp) + 1] = m /\ Len(toTcp) + 1 \in DOMAIN toTcp'
      BY <1>0, <2>3
    <3> QED
      BY <3>1, <3>2
  <2> HIDE DEF m
  <2>6. Requests(toTcp') = Requests(toTcp)
    BY <1>0, <2>3, <2>4, <2>5, Counted
  <2>7. Statuses(toSock') \in Nat /\ Statuses(toSock') <= Statuses(toSock)
    BY <1>0, <2>1, <2>3, Uncounted, SMTT(30)
  <2> QED
    BY <1>0, <2>1, <2>6, <2>7 DEF StatusHasRecord
<1>5. CASE HandleTCPStatus
  <2>1. /\ toSock # <<>> /\ Head(toSock).type = "STATUS" /\ tcpq # <<>>
        /\ toSock' = Tail(toSock) /\ tcpq' = Tail(tcpq) /\ UNCHANGED toTcp
    BY <1>5 DEF HandleTCPStatus, FromTcp
  <2>2. Statuses(toSock') \in Nat /\ Statuses(toSock) = Statuses(toSock') + 1
    BY <1>0, <2>1, Uncounted
  <2>3. Len(tcpq') = Len(tcpq) - 1
    BY <2>1 DEF TypeOK
  <2> QED
    BY <1>0, <2>1, <2>2, <2>3 DEF StatusHasRecord
<1>6. CASE ProcessAppRequest
  <2>1. UNCHANGED toSock
    BY <1>6, AppTypes DEF ProcessAppRequest, Makes, AppSocket, AppBind, AppListen, AppAccept,
           AppConnect, AppRead, AppWrite, AppClose
  <2>2. CASE UNCHANGED <<toTcp, tcpq>>
    BY <1>1, <2>1, <2>2
  <2>3. ASSUME NEW ty \in RequestType, NEW s, NEW c, SendTCPRequest(ty, s, c)
        PROVE  StatusHasRecord'
    <3>1. toTcp' = Append(toTcp, Msg(ty, c, 0)) /\ Len(tcpq') = Len(tcpq) + 1
      BY <1>0, <2>3 DEF SendTCPRequest, Recorded, TypeOK
    <3> DEFINE m == Msg(ty, c, 0)
    <3>2. m \in Message
      <4>1. toTcp' \in Seq(Message)
        BY <1>6, AppTypes DEF Fifos
      <4>2. toTcp' = Append(toTcp, m)
        BY <3>1
      <4> HIDE DEF m
      <4>3. toTcp'[Len(toTcp) + 1] = m /\ Len(toTcp) + 1 \in DOMAIN toTcp'
        BY <1>0, <4>2
      <4> QED
        BY <4>1, <4>3
    <3>3. m.type = ty
      BY <1>a
    <3> HIDE DEF m
    <3>4. Requests(toTcp') = Requests(toTcp) + 1
      BY <1>0, <3>1, <3>2, <3>3, Counted DEF m
    <3> QED
      BY <1>0, <2>1, <3>1, <3>4 DEF StatusHasRecord
  <2>4. {"ACCEPT", "CONNECT", "WRITE", "CLOSE"} \subseteq RequestType
    BY DEF RequestType
  <2> QED
    BY <1>6, <2>2, <2>3, <2>4 DEF ProcessAppRequest, AppSocket, AppBind, AppListen, AppAccept,
           AppConnect, AppRead, AppWrite, AppClose
<1>7. CASE AppReturn
  BY <1>1, <1>7 DEF AppReturn, sockSide
<1>8. CASE UNCHANGED vars
  BY <1>1, <1>8 DEF vars, sockSide
<1>9. CASE TcpModule
  <2>1. TypeOK'
    BY TypeStep
  <2> QED
    BY <1>2, <1>3, <1>9, <2>1 DEF TcpModule, IgnoreRequest, DoRequest, TakeStatus
<1> QED
  BY <1>4, <1>5, <1>6, <1>7, <1>8, <1>9 DEF Next, SockModule

-----------------------------------------------------------------------------
LEMMA SockInvStep ==
  ASSUME SockInv, [Next]_vars
  PROVE  SockInv'
BY TypeStep, CallStep, StatusStep DEF SockInv

LEMMA SockInvariant == Spec => []SockInv
<1>1. SockInv /\ [Next]_vars => SockInv'
  BY SockInvStep
<1> QED
  BY <1>1, SockInvInit, PTL DEF Spec

\* The sockets, the ports, the connection records and all messages and answers
\* have their types.
THEOREM SocketTypeCorrect == Spec => []TypeOK
<1>1. SockInv => TypeOK
  BY DEF SockInv
<1> QED
  BY <1>1, SockInvariant, PTL

\* A socket is pending only for the call the application waits for.
THEOREM PendingIsCalled == Spec => []PendingIsAwaited
<1>1. SockInv => PendingIsAwaited
  BY DEF SockInv, CallInv
<1> QED
  BY <1>1, SockInvariant, PTL

\* HandleTCPStatus always finds a record in tcpq, however many connections there
\* are and whatever tcp_module makes of the requests.
THEOREM StatusFindsRecord == Spec => []StatusHasRecord
<1>1. SockInv => StatusHasRecord
  BY DEF SockInv
<1> QED
  BY <1>1, SockInvariant, PTL

\* sock_module and tcp_module together keep the contract of the library: one
\* answer to each call, after it and to it.
THEOREM LibraryServed == Spec => CallsInOrder
<1>1. Init => Library!Init
  BY DEF Init, Library!Init
<1>2. SockInv /\ [Next]_vars => [Library!Next]_<<call, toApp>>
  BY CallStep DEF SockInv, Moved
<1> QED
  BY <1>1, <1>2, SockInvariant, PTL DEF Spec, CallsInOrder, Library!Spec

-----------------------------------------------------------------------------
(***************************************************************************)
(* A connect that is never orphaned.                                       *)
(*                                                                         *)
(* The argument is about ports.  associateConnection would give the request*)
(* to any record that matches it, so there must be none: a port that has no*)
(* owner, or whose socket is only bound, is seen nowhere, neither in a     *)
(* record nor in a message.  From the request on, the record, and then the *)
(* WRITE that ends the call, are each made before the other is gone.       *)
(***************************************************************************)
PortsIn(queue) == {queue[i].conn.port : i \in DOMAIN queue}

Seen == PortsIn(clist) \cup PortsIn(toTcp) \cup PortsIn(toSock)

\* No other socket has the port of s.
Alone(s) == \A t \in Sock \ {s} : socks[t].conn.port # socks[s].conn.port

NamedPorts ==
  /\ NoPort \notin PortsIn(clist)
  /\ \A i \in DOMAIN toTcp :
       toTcp[i].type \in {"CONNECT", "ACCEPT"} => toTcp[i].conn.port # NoPort
  /\ \A s \in Sock :
       socks[s].status \in {"BOUND", "LISTENING", "ACCEPT_PENDING", "CONNECT_PENDING"} =>
         socks[s].conn.port # NoPort

FreshPorts ==
  /\ \A p \in Ports : owner[p] = 0 =>
       p \notin Seen /\ \A s \in Sock : socks[s].conn.port # p
  /\ \A s \in Sock : socks[s].status = "BOUND" =>
       Alone(s) /\ socks[s].conn.port \notin Seen

\* The three stages of a connect: its request is under way, and the last one;
\* its record waits for a SYN and an ACK; the WRITE that ends it is under way.
Asked(c) ==
  /\ c.port \notin PortsIn(clist)
  /\ \E i \in DOMAIN toTcp :
       /\ toTcp[i].type = "CONNECT" /\ toTcp[i].conn = c
       /\ \A j \in DOMAIN toTcp : /\ j < i => toTcp[j].conn.port # c.port
                                  /\ j > i => toTcp[j].type = "STATUS"

Opening(c) ==
  /\ \A j \in DOMAIN toTcp : toTcp[j].type = "STATUS"
  /\ \E i \in DOMAIN clist : clist[i].conn = c /\ clist[i].state = "SYN_SENT"

Opened(c) == IsUnderWay("WRITE", c, toSock)

InStage(c) == Asked(c) \/ Opening(c) \/ Opened(c)

Connecting ==
  \A s \in Sock : socks[s].status = "CONNECT_PENDING" => Alone(s) /\ InStage(socks[s].conn)

ConnectInv == NamedPorts /\ FreshPorts /\ Connecting

-----------------------------------------------------------------------------
(* The ports in a FIFO and in the list of records.                         *)

LEMMA PortsAppend ==
  ASSUME NEW D, NEW queue \in Seq(D), NEW m \in D
  PROVE  PortsIn(Append(queue, m)) = PortsIn(queue) \cup {m.conn.port}
<1> DEFINE longer == Append(queue, m)
<1>1. /\ DOMAIN queue = 1..Len(queue) /\ DOMAIN longer = 1..(Len(queue) + 1)
      /\ Len(queue) \in Nat /\ longer[Len(queue) + 1] = m
      /\ \A i \in 1..Len(queue) : longer[i] = queue[i]
  OBVIOUS
<1> HIDE DEF longer
<1>2. PortsIn(longer) = PortsIn(queue) \cup {m.conn.port}
  BY <1>1 DEF PortsIn
<1> QED
  BY <1>2 DEF longer

LEMMA PortsTail ==
  ASSUME NEW D, NEW queue \in Seq(D), queue # <<>>
  PROVE  /\ PortsIn(Tail(queue)) \subseteq PortsIn(queue)
         /\ Head(queue).conn.port \in PortsIn(queue)
<1> DEFINE rest == Tail(queue)
<1>1. /\ \A i \in DOMAIN rest : i + 1 \in DOMAIN queue /\ rest[i] = queue[i + 1]
      /\ 1 \in DOMAIN queue /\ Head(queue) = queue[1]
  OBVIOUS
<1> HIDE DEF rest
<1>2. PortsIn(rest) \subseteq PortsIn(queue)
  BY <1>1 DEF PortsIn
<1> QED
  BY <1>1, <1>2 DEF PortsIn, rest

LEMMA PortsClean ==
  ASSUME NEW list \in Seq(TcpRecord)
  PROVE  PortsIn(Clean(list)) \subseteq PortsIn(list)
<1>1. \A i \in DOMAIN Clean(list) : \E j \in DOMAIN list : Clean(list)[i] = list[j]
  BY CleanFacts
<1> QED
  BY <1>1 DEF PortsIn

\* A transition changes the state of one record and nothing else.
LEMMA GotoFacts ==
  ASSUME NEW list \in Seq(TcpRecord), NEW i \in DOMAIN list, NEW tr
  PROVE  /\ DOMAIN Goto(i, tr, list) = DOMAIN list
         /\ \A j \in DOMAIN list : Goto(i, tr, list)[j].conn = list[j].conn
         /\ \A j \in DOMAIN list \ {i} : Goto(i, tr, list)[j] = list[j]
         /\ Goto(i, tr, list)[i].state = NextState[tr]
         /\ PortsIn(Goto(i, tr, list)) = PortsIn(list)
<1>1. \A j \in DOMAIN list : list[j] \in TcpRecord
  OBVIOUS
<1>2. Goto(i, tr, list) = [list EXCEPT ![i] = [list[i] EXCEPT !.state = NextState[tr]]]
  BY DEF Goto
<1>3. /\ DOMAIN Goto(i, tr, list) = DOMAIN list
      /\ \A j \in DOMAIN list \ {i} : Goto(i, tr, list)[j] = list[j]
      /\ Goto(i, tr, list)[i] = [list[i] EXCEPT !.state = NextState[tr]]
  BY <1>2
<1>4. /\ Goto(i, tr, list)[i].conn = list[i].conn
      /\ Goto(i, tr, list)[i].state = NextState[tr]
  BY <1>1, <1>3 DEF TcpRecord
<1>5. \A j \in DOMAIN list : Goto(i, tr, list)[j].conn = list[j].conn
  BY <1>3, <1>4
<1> QED
  BY <1>3, <1>4, <1>5 DEF PortsIn

\* A segment finds a record of its own port.
LEMMA FoundPort ==
  ASSUME TypeOK, NoPort \notin PortsIn(clist), NEW p \in Ports, NEW c, c.port = p,
         Found(c) # 0
  PROVE  clist[Found(c)].conn.port = p /\ Found(c) \in DOMAIN clist
<1>1. /\ Found(c) \in DOMAIN clist
      /\ \/ Exact(clist[Found(c)], c)
         \/ MatchesSource(clist[Found(c)].conn, c)
  <2>1. clist \in Seq(TcpRecord) /\ Found(c) = Associate(clist, c)
    BY DEF TypeOK, Found
  <2>2. Found(c) \in 0..Len(clist)
    BY <2>1, AssociateFacts
  <2>3. \/ Exact(clist[Found(c)], c)
        \/ MatchesSource(clist[Found(c)].conn, c)
    BY <2>1, AssociateFacts
  <2> QED
    BY <2>1, <2>2, <2>3
<1>2. MatchesSource(clist[Found(c)].conn, c)
  BY <1>1 DEF Exact, Matches
<1>3. clist[Found(c)].conn.port # NoPort /\ p # NoPort
  BY <1>1, PortsAssumption DEF PortsIn
<1> QED
  BY <1>1, <1>2, <1>3 DEF MatchesSource

-----------------------------------------------------------------------------
(* What tcp_module does to the ports.                                      *)

\* The record a CONNECT or an ACCEPT adds has the request's port.
LEMMA CandidatePorts ==
  ASSUME TypeOK, toTcp # <<>>
  PROVE  PortsIn(Candidates) =
           IF Request.type \in {"CONNECT", "ACCEPT"}
           THEN PortsIn(clist) \cup {Request.conn.port} ELSE PortsIn(clist)
<1> DEFINE r == [conn |-> Request.conn, state |-> "CLOSED", unread |-> 0]
<1>1. Candidates = IF Request.type \in {"CONNECT", "ACCEPT"} THEN Append(clist, r) ELSE clist
  BY DEF Candidates
<1>2. r.conn.port = Request.conn.port
  OBVIOUS
<1>3. clist \in Seq(TcpRecord) /\ r \in TcpRecord
  <2>1. Request.conn \in Connection /\ 0 \in 0..MaxUnread
    BY RequestFacts, BoundsAssumption DEF Message
  <2> QED
    BY <2>1 DEF TypeOK, TcpRecord, State
<1> HIDE DEF r
<1>4. PortsIn(Append(clist, r)) = PortsIn(clist) \cup {r.conn.port}
  BY <1>3, PortsAppend
<1> QED
  BY <1>1, <1>2, <1>4

\* A segment leaves the ports as they are, and the requests.
LEMMA SegmentPorts ==
  ASSUME TypeOK, NoPort \notin PortsIn(clist), NEW p \in Ports, NEW c, c.port = p, NEW f,
         TypeOK',
         TakeSyn(c, f) \/ TellSock(c, f) \/ TakeData(c, f) \/ CloseFurther(c, f)
  PROVE  /\ PortsIn(clist') \subseteq PortsIn(clist)
         /\ PortsIn(toSock') \subseteq PortsIn(toSock) \cup PortsIn(clist)
         /\ UNCHANGED <<toTcp, sockSide, toApp, call>>
<1> DEFINE i == Found(c)
<1>1. i \in DOMAIN clist /\ clist[i].conn.port = p /\ p \in PortsIn(clist)
  <2>1. Selected(c, f) # "ignore"
    BY DEF TakeSyn, TellSock, TakeData, CloseFurther
  <2>2. Found(c) # 0
    BY <2>1 DEF Selected
  <2> QED
    BY <2>2, FoundPort DEF PortsIn
<1>2. clist \in Seq(TcpRecord) /\ toSock \in Seq(Message) /\ toSock' \in Seq(Message)
      /\ clist[i] \in TcpRecord
  BY <1>1 DEF TypeOK
<1>3. UNCHANGED <<toTcp, sockSide, toApp, call>>
  BY DEF TakeSyn, TellSock, TakeData, CloseFurther, appSide
<1>4. ASSUME NEW n, toSock' = Append(toSock, Msg("WRITE", clist[i].conn, n))
      PROVE  PortsIn(toSock') \subseteq PortsIn(toSock) \cup PortsIn(clist)
  <2> DEFINE m == Msg("WRITE", clist[i].conn, n)
  <2>1. m.conn.port = p
    BY <1>1 DEF Msg
  <2>2. toSock' = Append(toSock, m)
    BY <1>4
  <2> HIDE DEF m
  <2>3. \A k \in DOMAIN toSock' : toSock'[k] = m \/ (k \in DOMAIN toSock /\ toSock'[k] = toSock[k])
    BY <1>2, <2>2
  <2> QED
    BY <1>1, <2>1, <2>3 DEF PortsIn
<1>5. CASE TakeSyn(c, f)
  <2> DEFINE list == [clist EXCEPT ![i].conn = c]
  <2>1. /\ DOMAIN list = DOMAIN clist
        /\ \A k \in DOMAIN clist : list[k].conn = IF k = i THEN c ELSE clist[k].conn
    BY <1>1, <1>2 DEF TcpRecord
  <2>2. clist' = Goto(i, "SynRcvd", list)
    BY <1>5 DEF TakeSyn
  <2> HIDE DEF list, i
  <2>3. /\ DOMAIN clist' = DOMAIN list
        /\ \A k \in DOMAIN list : clist'[k].conn = list[k].conn
    <3>1. clist' = [list EXCEPT ![i] = [list[i] EXCEPT !.state = NextState["SynRcvd"]]]
      BY <2>2 DEF Goto
    <3>2. clist' \in Seq(TcpRecord)
      BY DEF TypeOK
    <3>3. DOMAIN clist' = DOMAIN list
      BY <3>1
    <3>4. \A k \in DOMAIN list : clist'[k] \in TcpRecord
      BY <3>2, <3>3
    <3> QED
      BY <3>1, <3>3, <3>4 DEF TcpRecord
  <2>4. PortsIn(clist') \subseteq PortsIn(clist)
    BY <1>1, <2>1, <2>3 DEF PortsIn
  <2> QED
    BY <1>3, <1>5, <2>4 DEF TakeSyn
<1>6. CASE TellSock(c, f)
  BY <1>1, <1>2, <1>3, <1>4, <1>6, GotoFacts DEF TellSock
<1>7. CASE TakeData(c, f)
  <2>1. clist' = [clist EXCEPT ![i] = [clist[i] EXCEPT !.unread = clist[i].unread + 1]]
    BY <1>7 DEF TakeData
  <2>2. /\ DOMAIN clist' = DOMAIN clist
        /\ \A k \in DOMAIN clist : clist'[k].conn = clist[k].conn
    BY <1>1, <1>2, <2>1 DEF TcpRecord
  <2>3. PortsIn(clist') = PortsIn(clist)
    BY <2>2 DEF PortsIn
  <2> QED
    BY <1>3, <1>4, <1>7, <2>3 DEF TakeData
<1>8. CASE CloseFurther(c, f)
  <2>1. Selected(c, f) \in DOMAIN NextState
    BY <1>8 DEF CloseFurther, NextState
  <2>2. Goto(i, Selected(c, f), clist) \in Seq(TcpRecord)
    BY <1>1, <1>2, <2>1, GotoType
  <2>3. PortsIn(clist') \subseteq PortsIn(clist)
    BY <1>1, <1>2, <1>8, <2>2, GotoFacts, PortsClean DEF CloseFurther
  <2> QED
    BY <1>3, <1>8, <2>3 DEF CloseFurther
<1> QED
  BY <1>5, <1>6, <1>7, <1>8

\* A request takes its port along, if it is to be connected or accepted.
LEMMA RequestPorts ==
  ASSUME TypeOK, TypeOK', IgnoreRequest \/ DoRequest \/ TakeStatus
  PROVE  /\ toTcp # <<>> /\ toTcp' = Tail(toTcp)
         /\ UNCHANGED <<sockSide, toApp, call>>
         /\ PortsIn(clist') \subseteq PortsIn(Candidates)
         /\ PortsIn(toSock') \subseteq PortsIn(toSock) \cup PortsIn(Candidates)
<1>1. toTcp # <<>> /\ toTcp' = Tail(toTcp) /\ UNCHANGED <<sockSide, toApp, call>>
  BY DEF IgnoreRequest, DoRequest, TakeStatus, TakesRequest, appSide
<1>2. /\ Candidates \in Seq(TcpRecord)
      /\ Wanted # "ignore" => Chosen \in DOMAIN Candidates
      /\ Wanted = "LoopStatus" => Candidates = clist
      /\ Wanted \in {"ignore", "LoopStatus"} \cup DOMAIN NextState
  BY <1>1, RequestFacts
<1>3. toSock \in Seq(Message)
  BY DEF TypeOK
<1>4. ASSUME NEW ty, NEW n, NEW i \in DOMAIN Candidates,
             toSock' = Append(toSock, Msg(ty, Candidates[i].conn, n))
      PROVE  PortsIn(toSock') \subseteq PortsIn(toSock) \cup PortsIn(Candidates)
  <2> DEFINE m == Msg(ty, Candidates[i].conn, n)
  <2>1. m.conn.port \in PortsIn(Candidates)
    BY DEF Msg, PortsIn
  <2>2. toSock' = Append(toSock, m)
    BY <1>4
  <2> HIDE DEF m
  <2>3. \A k \in DOMAIN toSock' : toSock'[k] = m \/ (k \in DOMAIN toSock /\ toSock'[k] = toSock[k])
    BY <1>3, <2>2
  <2> QED
    BY <2>1, <2>3 DEF PortsIn
<1>5. CASE IgnoreRequest
  BY <1>1, <1>2, <1>5, PortsClean DEF IgnoreRequest
<1>6. CASE DoRequest
  <2>1. Wanted \in DOMAIN NextState /\ Chosen \in DOMAIN Candidates
    BY <1>2, <1>6 DEF DoRequest
  <2>2. Goto(Chosen, Wanted, Candidates) \in Seq(TcpRecord)
        /\ PortsIn(Goto(Chosen, Wanted, Candidates)) = PortsIn(Candidates)
    BY <1>2, <2>1, GotoType, GotoFacts
  <2>3. PortsIn(clist') \subseteq PortsIn(Candidates)
    BY <1>6, <2>2, PortsClean DEF DoRequest
  <2> QED
    BY <1>1, <1>4, <1>6, <2>1, <2>3 DEF DoRequest
<1>7. CASE TakeStatus
  <2> DEFINE left == Max({0, clist[Chosen].unread - Request.bytes})
  <2>1. Chosen \in DOMAIN clist /\ Candidates = clist /\ clist \in Seq(TcpRecord)
    BY <1>2, <1>7 DEF TakeStatus
  <2>2. /\ clist' = [clist EXCEPT ![Chosen] = [clist[Chosen] EXCEPT !.unread = left]]
        /\ toSock' = IF left = 0 THEN toSock
                     ELSE Append(toSock, Msg("WRITE", clist[Chosen].conn, left))
    BY <1>7 DEF TakeStatus
  <2> HIDE DEF left
  <2>3. /\ DOMAIN clist' = DOMAIN clist
        /\ \A k \in DOMAIN clist : clist'[k].conn = clist[k].conn
    BY <2>1, <2>2 DEF TcpRecord
  <2>4. PortsIn(clist') = PortsIn(clist)
    BY <2>3 DEF PortsIn
  <2>5. PortsIn(toSock') \subseteq PortsIn(toSock) \cup PortsIn(Candidates)
    BY <1>4, <2>1, <2>2
  <2> QED
    BY <1>1, <2>1, <2>4, <2>5
<1> QED
  BY <1>5, <1>6, <1>7

\* No step of tcp_module makes a port seen, and records keep having ports.
LEMMA TcpPorts ==
  ASSUME TypeOK, TypeOK', NamedPorts, TcpModule
  PROVE  Seen' \subseteq Seen /\ NamedPorts' /\ UNCHANGED <<sockSide, toApp, call>>
<1>1. ASSUME NEW p \in Ports, NEW r \in Remote, NEW f, NEW c, c = [port |-> p, end |-> r],
             TakeSyn(c, f) \/ TellSock(c, f) \/ TakeData(c, f) \/ CloseFurther(c, f)
      PROVE  Seen' \subseteq Seen /\ NamedPorts' /\ UNCHANGED <<sockSide, toApp, call>>
  <2>1. c.port = p
    BY <1>1
  <2>2. /\ PortsIn(clist') \subseteq PortsIn(clist)
        /\ PortsIn(toSock') \subseteq PortsIn(toSock) \cup PortsIn(clist)
        /\ UNCHANGED <<toTcp, sockSide, toApp, call>>
    BY <1>1, <2>1, SegmentPorts DEF NamedPorts
  <2>3. PortsIn(toTcp') = PortsIn(toTcp)
    BY <2>2
  <2>4. Seen' \subseteq Seen
    BY <2>2, <2>3 DEF Seen
  <2>5. UNCHANGED <<socks, toTcp>>
    BY <2>2 DEF sockSide
  <2>6. NamedPorts'
    BY <2>2, <2>5 DEF NamedPorts
  <2> QED
    BY <2>2, <2>4, <2>6
<1>2. CASE IgnoreRequest \/ DoRequest \/ TakeStatus
  <2>1. /\ toTcp # <<>> /\ toTcp' = Tail(toTcp)
        /\ UNCHANGED <<sockSide, toApp, call>>
        /\ PortsIn(clist') \subseteq PortsIn(Candidates)
        /\ PortsIn(toSock') \subseteq PortsIn(toSock) \cup PortsIn(Candidates)
    BY <1>2, RequestPorts
  <2>2. /\ toTcp \in Seq(Message) /\ Request = Head(toTcp)
        /\ PortsIn(toTcp') \subseteq PortsIn(toTcp) /\ Request.conn.port \in PortsIn(toTcp)
    BY <2>1, PortsTail DEF TypeOK, Request
  <2>3. PortsIn(Candidates) =
          IF Request.type \in {"CONNECT", "ACCEPT"}
          THEN PortsIn(clist) \cup {Request.conn.port} ELSE PortsIn(clist)
    BY <2>1, CandidatePorts
  <2>4. Seen' \subseteq Seen
    BY <2>1, <2>2, <2>3 DEF Seen
  <2>5. /\ \A i \in DOMAIN toTcp' : i + 1 \in DOMAIN toTcp /\ toTcp'[i] = toTcp[i + 1]
        /\ 1 \in DOMAIN toTcp /\ Request = toTcp[1]
    BY <2>1, <2>2
  <2>6. NoPort \notin PortsIn(clist')
    BY <2>1, <2>3, <2>5 DEF NamedPorts
  <2>7. UNCHANGED socks
    BY <2>1 DEF sockSide
  <2>8. NamedPorts'
    BY <2>5, <2>6, <2>7 DEF NamedPorts
  <2> QED
    BY <2>1, <2>4, <2>8
<1> QED
  BY <1>1, <1>2 DEF TcpModule

-----------------------------------------------------------------------------
(* The stages of a connect, while tcp_module steps.                        *)

LEMMA UnderWayAppend ==
  ASSUME NEW queue \in Seq(Message), NEW m \in Message, NEW ty, NEW c
  PROVE  /\ IsUnderWay(ty, c, queue) => IsUnderWay(ty, c, Append(queue, m))
         /\ m.type = ty /\ m.conn = c => IsUnderWay(ty, c, Append(queue, m))
<1> DEFINE longer == Append(queue, m)
<1>1. /\ \A i \in DOMAIN queue : i \in DOMAIN longer /\ longer[i] = queue[i]
      /\ Len(queue) + 1 \in DOMAIN longer /\ longer[Len(queue) + 1] = m
  OBVIOUS
<1> HIDE DEF longer
<1>2. /\ IsUnderWay(ty, c, queue) => IsUnderWay(ty, c, longer)
      /\ m.type = ty /\ m.conn = c => IsUnderWay(ty, c, longer)
  BY <1>1 DEF IsUnderWay
<1> QED
  BY <1>2 DEF longer

\* What is in a FIFO stays there, as tcp_module only appends to it.
LEMMA OpenedStays ==
  ASSUME TypeOK, TypeOK', TcpModule, NEW c, Opened(c)
  PROVE  Opened(c)'
<1>1. toSock' = toSock \/ \E m : toSock' = Append(toSock, m)
  BY ZenonT(60) DEF TcpModule, TakeSyn, TellSock, TakeData, CloseFurther, IgnoreRequest, DoRequest,
         TakeStatus
<1>2. ASSUME NEW m, toSock' = Append(toSock, m)
      PROVE  Opened(c)'
  <2>1. m \in Message
    <3>1. toSock' \in Seq(Message) /\ toSock \in Seq(Message)
      BY DEF TypeOK
    <3>2. toSock'[Len(toSock) + 1] = m /\ Len(toSock) + 1 \in DOMAIN toSock'
      BY <1>2, <3>1
    <3> QED
      BY <3>1, <3>2
  <2>2. toSock \in Seq(Message)
    BY DEF TypeOK
  <2> QED
    BY <1>2, <2>1, <2>2, UnderWayAppend DEF Opened
<1> QED
  BY <1>1, <1>2 DEF Opened

IsOpening(r, c) == r.conn = c /\ r.state = "SYN_SENT"

\* A record in SYN_SENT stays in the list unless it is chosen.
LEMMA OpeningKept ==
  ASSUME NEW list \in Seq(TcpRecord), NEW i \in DOMAIN list, NEW c, IsOpening(list[i], c),
         NEW k \in DOMAIN list, k # i, NEW tr \in DOMAIN NextState
  PROVE  \E j \in DOMAIN Clean(Goto(k, tr, list)) : IsOpening(Clean(Goto(k, tr, list))[j], c)
<1> DEFINE after == Goto(k, tr, list)
<1>1. after \in Seq(TcpRecord) /\ i \in DOMAIN after /\ after[i] = list[i]
  BY GotoType, GotoFacts
<1> HIDE DEF after
<1>2. \E j \in DOMAIN Clean(after) : Clean(after)[j] = after[i]
  BY <1>1, CleanFacts DEF IsOpening
<1> QED
  BY <1>1, <1>2 DEF after

LEMMA OpeningSegment ==
  ASSUME TypeOK, TypeOK', NEW d, NEW f,
         TakeSyn(d, f) \/ TellSock(d, f) \/ TakeData(d, f) \/ CloseFurther(d, f),
         NEW c, NEW i \in DOMAIN clist, IsOpening(clist[i], c)
  PROVE  Opened(c)' \/ \E j \in DOMAIN clist' : IsOpening(clist'[j], c)
<1> DEFINE k == Found(d)
<1>1. k \in DOMAIN clist /\ clist[k] \in TcpRecord /\ Selected(d, f) # "ignore"
      /\ clist \in Seq(TcpRecord) /\ toSock \in Seq(Message) /\ MaxUnread \in Nat
  <2>1. Selected(d, f) # "ignore"
    BY DEF TakeSyn, TellSock, TakeData, CloseFurther
  <2> QED
    BY <2>1, FoundFacts, BoundsAssumption DEF TypeOK
<1>2. Selected(d, f) = OnPacket(clist[k].state, f)
  BY <1>1 DEF Selected
<1>3. CASE k = i
  <2>1. Selected(d, f) = "SynSentEstablished"
    BY <1>1, <1>2, <1>3 DEF IsOpening, OnPacket
  <2>2. toSock' = Append(toSock, Msg("WRITE", clist[k].conn, 0))
    BY <2>1 DEF TakeSyn, TellSock, TakeData, CloseFurther
  <2>3. Msg("WRITE", c, 0) \in Message /\ clist[k].conn = c
    <3>1. clist[k].conn = c /\ c \in Connection /\ 0 \in 0..MaxUnread
      BY <1>1, <1>3 DEF IsOpening, TcpRecord
    <3> QED
      BY <3>1, MsgType DEF RequestType
  <2>4. Msg("WRITE", c, 0).type = "WRITE" /\ Msg("WRITE", c, 0).conn = c
    BY DEF Msg
  <2> QED
    BY <1>1, <2>2, <2>3, <2>4, UnderWayAppend DEF Opened
<1>4. CASE k # i
  <2>1. CASE TakeSyn(d, f)
    <3>1. clist' = Goto(k, "SynRcvd", [clist EXCEPT ![k].conn = d])
      BY <2>1 DEF TakeSyn
    <3> HIDE DEF k
    <3>2. i \in DOMAIN clist' /\ clist'[i] = clist[i]
      BY <1>1, <1>4, <3>1 DEF Goto
    <3> QED
      BY <3>2
  <2>2. CASE TellSock(d, f)
    <3>1. clist' = Goto(k, Selected(d, f), clist)
      BY <2>2 DEF TellSock
    <3> HIDE DEF k
    <3>2. i \in DOMAIN clist' /\ clist'[i] = clist[i]
      BY <1>1, <1>4, <3>1, GotoFacts
    <3> QED
      BY <3>2
  <2>3. CASE TakeData(d, f)
    <3>1. clist' = [clist EXCEPT ![k].unread = clist[k].unread + 1]
      BY <2>3 DEF TakeData
    <3> HIDE DEF k
    <3>2. i \in DOMAIN clist' /\ clist'[i] = clist[i]
      BY <1>1, <1>4, <3>1
    <3> QED
      BY <3>2
  <2>4. CASE CloseFurther(d, f)
    <3>1. Selected(d, f) \in DOMAIN NextState
          /\ clist' = Clean(Goto(k, Selected(d, f), clist))
      BY <2>4 DEF CloseFurther, NextState
    <3> HIDE DEF k
    <3> QED
      BY <1>1, <1>4, <3>1, OpeningKept
  <2> QED
    BY <2>1, <2>2, <2>3, <2>4
<1> QED
  BY <1>3, <1>4

\* While the record waits, only STATUS messages are under way, and none is for it.
LEMMA OpeningRequest ==
  ASSUME TypeOK, TypeOK', IgnoreRequest \/ DoRequest \/ TakeStatus, NEW c, Opening(c)
  PROVE  Opening(c)'
<1>1. /\ toTcp # <<>> /\ toTcp' = Tail(toTcp) /\ toTcp \in Seq(Message)
      /\ clist \in Seq(TcpRecord)
  BY DEF IgnoreRequest, DoRequest, TakeStatus, TakesRequest, TypeOK
<1>2. /\ \A i \in DOMAIN toTcp' : i + 1 \in DOMAIN toTcp /\ toTcp'[i] = toTcp[i + 1]
      /\ 1 \in DOMAIN toTcp /\ Request = toTcp[1]
  BY <1>1 DEF Request
<1>3. \A j \in DOMAIN toTcp' : toTcp'[j].type = "STATUS"
  BY <1>2 DEF Opening
<1>4. Request.type = "STATUS" /\ Candidates = clist
  BY <1>2 DEF Opening, Candidates
<1>5. PICK i \in DOMAIN clist : IsOpening(clist[i], c)
  BY DEF Opening, IsOpening
<1>6. \E j \in DOMAIN clist' : IsOpening(clist'[j], c)
  <2>1. CASE IgnoreRequest
    <3>1. \E j \in DOMAIN Clean(clist) : Clean(clist)[j] = clist[i]
      BY <1>1, <1>5, CleanFacts DEF IsOpening
    <3> QED
      BY <1>4, <1>5, <2>1, <3>1 DEF IgnoreRequest
  <2>2. CASE DoRequest
    <3>1. Request.type \in RequestType
      BY <1>1, <2>2, RequestFacts DEF DoRequest
    <3> QED
      BY <1>4, <3>1 DEF RequestType
  <2>3. CASE TakeStatus
    <3> DEFINE left == Max({0, clist[Chosen].unread - Request.bytes})
    <3>1. clist' = [clist EXCEPT ![Chosen].unread = left]
      BY <2>3 DEF TakeStatus
    <3> HIDE DEF left
    <3>2. clist[Chosen].state = "ESTABLISHED"
      BY <1>4, <2>3 DEF TakeStatus, Wanted, OnRequest
    <3>3. i \in DOMAIN clist' /\ clist'[i] = clist[i]
      BY <1>1, <1>5, <3>1, <3>2 DEF IsOpening
    <3> QED
      BY <1>5, <3>3
  <2> QED
    BY <2>1, <2>2, <2>3
<1> QED
  BY <1>3, <1>6 DEF Opening, IsOpening

\* The request chooses the record it brings, as no other has its port, and the
\* record waits for a SYN and an ACK from then on.
LEMMA ConnectTaken ==
  ASSUME TypeOK, NamedPorts, IgnoreRequest \/ DoRequest \/ TakeStatus,
         NEW c, c.port # NoPort, c.port \notin PortsIn(clist),
         Request.type = "CONNECT", Request.conn = c
  PROVE  \E j \in DOMAIN clist' : IsOpening(clist'[j], c)
<1> DEFINE r == [conn |-> c, state |-> "CLOSED", unread |-> 0]
           n == Len(clist) + 1
<1>1. toTcp # <<>> /\ clist \in Seq(TcpRecord)
  BY DEF IgnoreRequest, DoRequest, TakeStatus, TakesRequest, TypeOK
<1>2. Candidates = Append(clist, r) /\ Candidates \in Seq(TcpRecord)
  BY <1>1, RequestFacts DEF Candidates
<1>3. r.conn = c /\ r.state = "CLOSED"
  OBVIOUS
<1> HIDE DEF r
<1>4. /\ DOMAIN Candidates = 1..n /\ n \in Nat /\ Candidates[n] = r
      /\ \A i \in 1..n : i # n => i \in DOMAIN clist /\ Candidates[i] = clist[i]
  BY <1>1, <1>2
<1>5. Exact(Candidates[n], c)
  BY <1>3, <1>4 DEF Exact, Matches, MatchesSource, MatchesDest
<1>6. Chosen \in 1..n /\ Exact(Candidates[Chosen], c)
  <2>1. n \in DOMAIN Candidates /\ Chosen = Associate(Candidates, c)
    BY <1>4 DEF Chosen
  <2> QED
    BY <1>2, <1>5, <2>1, AssociateFacts
<1>7. Chosen = n
  <2> SUFFICES ASSUME Chosen # n PROVE FALSE
    OBVIOUS
  <2>1. Chosen \in DOMAIN clist /\ Candidates[Chosen] = clist[Chosen]
    BY <1>4, <1>6
  <2>2. clist[Chosen].conn.port = NoPort \/ clist[Chosen].conn.port = c.port
    BY <1>6, <2>1 DEF Exact, Matches, MatchesSource
  <2> QED
    BY <2>1, <2>2 DEF NamedPorts, PortsIn
<1>8. Wanted = "SynSent"
  BY <1>3, <1>4, <1>7 DEF Wanted, OnRequest, NoPort
<1>9. clist' = Clean(Goto(n, "SynSent", Candidates))
  BY <1>7, <1>8 DEF IgnoreRequest, DoRequest, TakeStatus
<1> DEFINE after == Goto(n, "SynSent", Candidates)
<1>10. "SynSent" \in DOMAIN NextState /\ NextState["SynSent"] = "SYN_SENT"
  BY DEF NextState
<1>11. after \in Seq(TcpRecord) /\ n \in DOMAIN after /\ IsOpening(after[n], c)
  <2>1. n \in DOMAIN Candidates
    BY <1>4
  <2>2. after \in Seq(TcpRecord)
    BY <1>2, <1>10, <2>1, GotoType
  <2>3. n \in DOMAIN after /\ after[n].conn = Candidates[n].conn
        /\ after[n].state = NextState["SynSent"]
    <3>1. Candidates \in Seq(TcpRecord)
      BY <1>2
    <3> HIDE DEF n
    <3>2. /\ DOMAIN Goto(n, "SynSent", Candidates) = DOMAIN Candidates
          /\ Goto(n, "SynSent", Candidates)[n].conn = Candidates[n].conn
          /\ Goto(n, "SynSent", Candidates)[n].state = NextState["SynSent"]
      BY <2>1, <3>1, GotoFacts
    <3> QED
      BY <2>1, <3>2
  <2> HIDE DEF after
  <2> QED
    BY <1>3, <1>4, <1>10, <2>2, <2>3 DEF IsOpening
<1> HIDE DEF after
<1>12. \E j \in DOMAIN Clean(after) : Clean(after)[j] = after[n]
  BY <1>11, CleanFacts DEF IsOpening
<1> QED
  BY <1>9, <1>11, <1>12 DEF after

LEMMA AskedRequest ==
  ASSUME TypeOK, TypeOK', NamedPorts, IgnoreRequest \/ DoRequest \/ TakeStatus,
         NEW c, c.port # NoPort, Asked(c)
  PROVE  Asked(c)' \/ Opening(c)'
<1>1. /\ toTcp # <<>> /\ toTcp' = Tail(toTcp) /\ toTcp \in Seq(Message)
      /\ PortsIn(clist') \subseteq PortsIn(Candidates)
  BY RequestPorts DEF TypeOK
<1>2. /\ DOMAIN toTcp = 1..Len(toTcp) /\ DOMAIN toTcp' = 1..(Len(toTcp) - 1)
      /\ Len(toTcp) \in Nat /\ Request = toTcp[1] /\ 1 \in DOMAIN toTcp
      /\ \A j \in DOMAIN toTcp' : j + 1 \in DOMAIN toTcp /\ toTcp'[j] = toTcp[j + 1]
  BY <1>1 DEF Request
<1>3. PICK i \in DOMAIN toTcp :
        /\ toTcp[i].type = "CONNECT" /\ toTcp[i].conn = c
        /\ \A j \in DOMAIN toTcp : /\ j < i => toTcp[j].conn.port # c.port
                                   /\ j > i => toTcp[j].type = "STATUS"
  BY DEF Asked
<1>4. CASE i = 1
  <2>1. \A j \in DOMAIN toTcp' : toTcp'[j].type = "STATUS"
    BY <1>2, <1>3, <1>4
  <2>2. \E j \in DOMAIN clist' : IsOpening(clist'[j], c)
    BY <1>2, <1>3, <1>4, ConnectTaken DEF Asked
  <2> QED
    BY <2>1, <2>2 DEF Opening, IsOpening
<1>5. CASE i # 1
  <2>1. i - 1 \in DOMAIN toTcp' /\ toTcp'[i - 1] = toTcp[i] /\ 1 < i
    BY <1>2, <1>5
  <2>2. Request.conn.port # c.port
    BY <1>2, <1>3, <2>1
  <2>3. c.port \notin PortsIn(clist')
    BY <1>1, <2>2, CandidatePorts DEF Asked
  <2>4. \A j \in DOMAIN toTcp' : /\ j < i - 1 => toTcp'[j].conn.port # c.port
                                 /\ j > i - 1 => toTcp'[j].type = "STATUS"
    BY <1>2, <1>3
  <2> QED
    BY <1>3, <2>1, <2>3, <2>4 DEF Asked
<1> QED
  BY <1>4, <1>5

LEMMA TcpStage ==
  ASSUME TypeOK, TypeOK', NamedPorts, TcpModule, NEW c, c.port # NoPort, InStage(c)
  PROVE  InStage(c)'
<1>1. CASE Opened(c)
  BY <1>1, OpenedStays DEF InStage
<1>2. CASE IgnoreRequest \/ DoRequest \/ TakeStatus
  BY <1>1, <1>2, AskedRequest, OpeningRequest DEF InStage
<1>3. ASSUME NEW p \in Ports, NEW r \in Remote, NEW f, NEW d, d = [port |-> p, end |-> r],
             TakeSyn(d, f) \/ TellSock(d, f) \/ TakeData(d, f) \/ CloseFurther(d, f)
      PROVE  InStage(c)'
  <2>1. d.port = p
    BY <1>3
  <2>2. PortsIn(clist') \subseteq PortsIn(clist) /\ UNCHANGED toTcp
    BY <1>3, <2>1, SegmentPorts DEF NamedPorts
  <2>3. CASE Asked(c)
    BY <2>2, <2>3 DEF Asked, InStage
  <2>4. CASE Opening(c)
    <3>1. PICK i \in DOMAIN clist : IsOpening(clist[i], c)
      BY <2>4 DEF Opening, IsOpening
    <3>2. Opened(c)' \/ \E j \in DOMAIN clist' : IsOpening(clist'[j], c)
      BY <1>3, <3>1, OpeningSegment
    <3> QED
      BY <2>2, <2>4, <3>2 DEF Opening, IsOpening, InStage
  <2> QED
    BY <1>1, <2>3, <2>4 DEF InStage
<1> QED
  BY <1>2, <1>3 DEF TcpModule

-----------------------------------------------------------------------------
(* sock_module and the messages of tcp_module.                             *)

PortStatus == {"BOUND", "LISTENING", "ACCEPT_PENDING", "CONNECT_PENDING"}

\* What a step may do to the sockets: ports change to ports already seen only,
\* and no socket comes to be bound, or to connect, by it.
SocksKept ==
  \A u \in Sock :
    /\ socks'[u].conn.port = socks[u].conn.port \/ socks'[u].conn.port \in Seen
    /\ socks'[u].status \in PortStatus =>
         socks[u].status \in PortStatus /\ socks'[u].conn.port = socks[u].conn.port
    /\ socks'[u].status \in {"BOUND", "CONNECT_PENDING"} => socks'[u].status = socks[u].status

LEMMA FreshKept ==
  ASSUME FreshPorts, SocksKept, Seen' \subseteq Seen, UNCHANGED owner
  PROVE  FreshPorts'
<1>1. ASSUME NEW p \in Ports, owner'[p] = 0
      PROVE  p \notin Seen' /\ \A s \in Sock : socks'[s].conn.port # p
  BY <1>1 DEF FreshPorts, SocksKept
<1>2. ASSUME NEW s \in Sock, socks'[s].status = "BOUND"
      PROVE  Alone(s)' /\ socks'[s].conn.port \notin Seen'
  <2>1. socks[s].status = "BOUND" /\ socks'[s].conn.port = socks[s].conn.port
    BY <1>2 DEF SocksKept, PortStatus
  <2>2. Alone(s) /\ socks[s].conn.port \notin Seen
    BY <2>1 DEF FreshPorts
  <2> QED
    BY <2>1, <2>2 DEF Alone, SocksKept
<1> QED
  BY <1>1, <1>2 DEF FreshPorts

LEMMA NamedKept ==
  ASSUME NamedPorts, SocksKept, UNCHANGED clist, toTcp \in Seq(Message),
         UNCHANGED toTcp \/ \E m : m.type = "STATUS" /\ toTcp' = Append(toTcp, m)
  PROVE  NamedPorts'
<1>1. \A i \in DOMAIN toTcp' :
        toTcp'[i].type \in {"CONNECT", "ACCEPT"} =>
          i \in DOMAIN toTcp /\ toTcp'[i] = toTcp[i]
  <2>1. CASE UNCHANGED toTcp
    BY <2>1
  <2>2. ASSUME NEW m, m.type = "STATUS", toTcp' = Append(toTcp, m)
        PROVE  \A i \in DOMAIN toTcp' :
                 toTcp'[i].type \in {"CONNECT", "ACCEPT"} =>
                   i \in DOMAIN toTcp /\ toTcp'[i] = toTcp[i]
    BY <2>2
  <2> QED
    BY <2>1, <2>2
<1> QED
  BY <1>1 DEF NamedPorts, SocksKept, PortStatus

\* A message that is not the one the connect waits for leaves it where it is.
LEMMA ConsumedStage ==
  ASSUME TypeOK, toSock # <<>>, NEW n, Consumed(n), UNCHANGED clist,
         NEW c, Head(toSock).conn # c, InStage(c)
  PROVE  InStage(c)'
<1> DEFINE m == Msg("STATUS", Head(toSock).conn, n)
<1>1. toSock' = Tail(toSock) /\ toTcp' = Append(toTcp, m) /\ m.type = "STATUS"
  BY DEF Consumed, Msg
<1> HIDE DEF m
<1>2. /\ DOMAIN toTcp = 1..Len(toTcp) /\ DOMAIN toTcp' = 1..(Len(toTcp) + 1)
      /\ Len(toTcp) \in Nat /\ toTcp'[Len(toTcp) + 1] = m
      /\ \A j \in 1..Len(toTcp) : toTcp'[j] = toTcp[j]
  BY <1>1 DEF TypeOK
<1>3. CASE Asked(c)
  <2>1. PICK i \in DOMAIN toTcp :
          /\ toTcp[i].type = "CONNECT" /\ toTcp[i].conn = c
          /\ \A j \in DOMAIN toTcp : /\ j < i => toTcp[j].conn.port # c.port
                                     /\ j > i => toTcp[j].type = "STATUS"
    BY <1>3 DEF Asked
  <2>2. /\ i \in DOMAIN toTcp' /\ toTcp'[i].type = "CONNECT" /\ toTcp'[i].conn = c
        /\ \A j \in DOMAIN toTcp' : /\ j < i => toTcp'[j].conn.port # c.port
                                    /\ j > i => toTcp'[j].type = "STATUS"
    BY <1>1, <1>2, <2>1
  <2> QED
    BY <1>3, <2>2 DEF Asked, InStage
<1>4. CASE Opening(c)
  <2>1. \A j \in DOMAIN toTcp' : toTcp'[j].type = "STATUS"
    BY <1>1, <1>2, <1>4 DEF Opening
  <2> QED
    BY <1>4, <2>1 DEF Opening, InStage
<1>5. CASE Opened(c)
  <2>1. PICK i \in DOMAIN toSock : toSock[i].type = "WRITE" /\ toSock[i].conn = c
    BY <1>5 DEF Opened, IsUnderWay
  <2>2. i # 1
    BY <2>1
  <2>3. i - 1 \in DOMAIN toSock' /\ toSock'[i - 1] = toSock[i]
    BY <1>1, <2>1, <2>2 DEF TypeOK
  <2> QED
    BY <2>1, <2>3 DEF Opened, IsUnderWay, InStage
<1> QED
  BY <1>3, <1>4, <1>5 DEF InStage

\* A stage of a connection is one of the socket that has it.
LEMMA StageOf ==
  ASSUME NEW s, NEW c, c = socks'[s].conn, InStage(c)'
  PROVE  InStage(socks[s].conn)'
BY DEF InStage, Asked, Opening, Opened, IsUnderWay

\* The WRITE that ends a connect finds the socket that connects.
LEMMA ConnectFound ==
  ASSUME CallInv, NEW s \in Sock, socks[s].status = "CONNECT_PENDING", Alone(s)
  PROVE  FindConnection(socks[s].conn) = s
<1> DEFINE c == socks[s].conn
<1>1. s \in FoundBy(c)
  BY DEF FoundBy
<1>2. ASSUME NEW t \in FoundBy(c)
      PROVE  t = s
  <2>1. t \in Sock /\ (socks[t].conn = c \/ socks[t].status = "ACCEPT_PENDING")
    BY DEF FoundBy
  <2>2. socks[t].status # "ACCEPT_PENDING"
    <3>1. call = [op |-> "CONNECT", sock |-> s]
      BY PendingFacts DEF CallInv
    <3>2. socks[t].status = "ACCEPT_PENDING" => call = [op |-> "ACCEPT", sock |-> t]
      BY <2>1, PendingFacts DEF CallInv
    <3> QED
      BY <3>1, <3>2
  <2> QED
    BY <2>1, <2>2 DEF Alone
<1>3. FoundBy(c) = {s}
  BY <1>1, <1>2
<1>4. LowestOf({s}) = s
  <2>1. {s} \subseteq Nat
    BY DEF Sock
  <2>2. LowestOf({s}) \in {s}
    BY <2>1, LowestFacts
  <2> QED
    BY <2>2
<1> QED
  BY <1>3, <1>4 DEF FindConnection

LEMMA WriteConnects ==
  ASSUME TypeOK, TypeOK', CallInv, ConnectInv, HandleTCPWrite
  PROVE  ConnectInv'
<1>0. /\ socks \in [Sock -> SockRecord] /\ toSock \in Seq(Message) /\ toTcp \in Seq(Message)
      /\ \A u \in Sock : socks[u] \in SockRecord
  BY DEF TypeOK
<1>1. /\ toSock # <<>> /\ UNCHANGED <<clist, owner>>
      /\ \E n : Consumed(n)
  BY DEF HandleTCPWrite, WriteForNobody, WriteToBin, WriteToReader, WriteToAccept,
         WriteToAcceptFull, WriteToConnect, WriteDropped, WriteFor, FromTcp, sockSide
<1>2. PICK n : Consumed(n)
  BY <1>1
<1>3. /\ toSock' = Tail(toSock)
      /\ \E m : m.type = "STATUS" /\ m.conn = Head(toSock).conn /\ toTcp' = Append(toTcp, m)
  BY <1>2 DEF Consumed, Msg
<1> DEFINE d == Head(toSock).conn
<1>4. d.port \in Seen /\ PortsIn(toSock') \subseteq PortsIn(toSock)
  BY <1>0, <1>1, <1>3, PortsTail DEF Seen
<1>5. Seen' \subseteq Seen
  <2>1. PICK m : m.type = "STATUS" /\ m.conn = d /\ toTcp' = Append(toTcp, m)
    BY <1>3
  <2> HIDE DEF d
  <2>2. \A k \in DOMAIN toTcp' : toTcp'[k] = m \/ (k \in DOMAIN toTcp /\ toTcp'[k] = toTcp[k])
    BY <1>0, <2>1
  <2>3. PortsIn(toTcp') \subseteq PortsIn(toTcp) \cup {d.port}
    BY <2>1, <2>2 DEF PortsIn
  <2>4. PortsIn(clist') = PortsIn(clist)
    BY <1>1
  <2> QED
    BY <1>4, <2>3, <2>4 DEF Seen, d
<1> HIDE DEF d
\* Each handler: what it does to the sockets, and to one that connects.
<1>6. SocksKept /\ \A s \in Sock :
        socks'[s].status = "CONNECT_PENDING" =>
          /\ d # socks[s].conn
          /\ \A u \in Sock : socks'[u].conn = socks[u].conn
  <2>a. ASSUME UNCHANGED socks
        PROVE  SocksKept
    BY <2>a DEF SocksKept
  <2>b. ASSUME NEW s \in Sock, socks[s].status = "CONNECT_PENDING", d = socks[s].conn
        PROVE  FindConnection(d) = s
    BY <2>b, ConnectFound DEF ConnectInv, Connecting
  <2>c. ASSUME NEW s \in Sock, NEW t \in Sock, t = FindConnection(d),
               socks[t].status # "CONNECT_PENDING", socks[s].status = "CONNECT_PENDING"
        PROVE  d # socks[s].conn
    BY <2>b, <2>c
  <2>d. ASSUME NEW t \in Sock, NEW s \in Sock, socks[s].status = "CONNECT_PENDING",
               socks[t].status \in Pending
        PROVE  t = s
    <3>1. call = [op |-> "CONNECT", sock |-> s]
      BY <2>d, PendingFacts DEF CallInv
    <3>2. call.sock = t
      BY <2>d, PendingFacts DEF CallInv, Pending
    <3> QED
      BY <3>1, <3>2
  <2>1. CASE WriteForNobody
    <3>1. UNCHANGED socks /\ FindConnection(d) = 0
      BY <2>1 DEF WriteForNobody, sockSide, d
    <3>2. 0 \notin Sock
      BY DEF Sock
    <3> QED
      BY <2>a, <2>b, <3>1, <3>2
  <2>2. ASSUME NEW t \in Sock, WriteToBin(t)
        PROVE  SocksKept /\ \A s \in Sock :
                 socks'[s].status = "CONNECT_PENDING" =>
                   d # socks[s].conn /\ \A u \in Sock : socks'[u].conn = socks[u].conn
    <3>1. \A u \in Sock : socks'[u].conn = socks[u].conn /\ socks'[u].status = socks[u].status
      BY <1>0, <2>2 DEF WriteToBin, SockRecord
    <3>2. t = FindConnection(d) /\ socks[t].status = "CONNECTED"
      BY <2>2 DEF WriteToBin, WriteFor, d
    <3>3. SocksKept
      BY <3>1 DEF SocksKept
    <3> QED
      BY <2>c, <3>1, <3>2, <3>3
  <2>3. ASSUME NEW t \in Sock, WriteDropped(t)
        PROVE  SocksKept /\ \A s \in Sock :
                 socks'[s].status = "CONNECT_PENDING" =>
                   d # socks[s].conn /\ \A u \in Sock : socks'[u].conn = socks[u].conn
    <3>1. t = FindConnection(d) /\ socks[t].status # "CONNECT_PENDING" /\ UNCHANGED socks
      BY <2>3 DEF WriteDropped, WriteFor, d
    <3> QED
      BY <2>a, <2>c, <3>1
  <2>4. ASSUME NEW t \in Sock, socks[t].status \in Pending, NEW st,
               st \in {"CONNECTED", "LISTENING"},
               st = "LISTENING" => socks[t].status = "ACCEPT_PENDING",
               \A u \in Sock \ {t} : /\ socks'[u].status \in {socks[u].status, "CONNECTED"}
                                     /\ socks'[u].conn \in {socks[u].conn, d},
               \A u \in Sock \ {t} : socks'[u].status # "CONNECTED" =>
                                       socks'[u].conn = socks[u].conn,
               socks'[t].status = st, socks'[t].conn \in {socks[t].conn, d},
               st = "LISTENING" => socks'[t].conn = socks[t].conn
        PROVE  SocksKept /\ \A s \in Sock :
                 socks'[s].status = "CONNECT_PENDING" =>
                   d # socks[s].conn /\ \A u \in Sock : socks'[u].conn = socks[u].conn
    <3>1. \A s \in Sock : socks'[s].status # "CONNECT_PENDING"
      <4> SUFFICES ASSUME NEW s \in Sock, socks'[s].status = "CONNECT_PENDING" PROVE FALSE
        OBVIOUS
      <4>1. s # t /\ socks[s].status = "CONNECT_PENDING"
        BY <2>4
      <4> QED
        BY <2>d, <2>4, <4>1
    <3>2. SocksKept
      BY <1>4, <2>4 DEF SocksKept, PortStatus
    <3> QED
      BY <3>1, <3>2
  <2>5. ASSUME NEW t \in Sock, WriteToReader(t)
        PROVE  SocksKept /\ \A s \in Sock :
                 socks'[s].status = "CONNECT_PENDING" =>
                   d # socks[s].conn /\ \A u \in Sock : socks'[u].conn = socks[u].conn
    <3>1. socks[t].status = "READ_PENDING"
          /\ \A u \in Sock : /\ socks'[u].conn = socks[u].conn
                             /\ socks'[u].status = IF u = t THEN "CONNECTED" ELSE socks[u].status
      BY <1>0, <2>5 DEF WriteToReader, WriteFor, SockRecord
    <3> QED
      BY <2>4, <3>1 DEF Pending
  <2>6. ASSUME NEW t \in Sock, WriteToAcceptFull(t)
        PROVE  SocksKept /\ \A s \in Sock :
                 socks'[s].status = "CONNECT_PENDING" =>
                   d # socks[s].conn /\ \A u \in Sock : socks'[u].conn = socks[u].conn
    <3>1. socks[t].status = "ACCEPT_PENDING"
          /\ \A u \in Sock : /\ socks'[u].conn = socks[u].conn
                             /\ socks'[u].status = IF u = t THEN "LISTENING" ELSE socks[u].status
      BY <1>0, <2>6 DEF WriteToAcceptFull, WriteFor, SockRecord
    <3> QED
      BY <2>4, <3>1 DEF Pending
  <2>7. ASSUME NEW t \in Sock, WriteToConnect(t)
        PROVE  SocksKept /\ \A s \in Sock :
                 socks'[s].status = "CONNECT_PENDING" =>
                   d # socks[s].conn /\ \A u \in Sock : socks'[u].conn = socks[u].conn
    <3>1. /\ socks[t].status = "CONNECT_PENDING"
          /\ socks' = [socks EXCEPT ![t].status = "CONNECTED", ![t].conn = d]
      BY <2>7 DEF WriteToConnect, WriteFor, d
    <3>2. \A u \in Sock : /\ socks'[u].conn = IF u = t THEN d ELSE socks[u].conn
                          /\ socks'[u].status = IF u = t THEN "CONNECTED" ELSE socks[u].status
      BY <1>0, <3>1 DEF SockRecord
    <3> QED
      BY <2>4, <3>1, <3>2, ZenonT(60) DEF Pending
  <2>8. ASSUME NEW t \in Sock, WriteToAccept(t)
        PROVE  SocksKept /\ \A s \in Sock :
                 socks'[s].status = "CONNECT_PENDING" =>
                   d # socks[s].conn /\ \A u \in Sock : socks'[u].conn = socks[u].conn
    <3> DEFINE new == LowestOf(FreeSocks)
    <3>1. new \in Sock /\ socks[new].status = "FREE"
      BY <2>8, FreeSocksFacts DEF WriteToAccept
    <3>2. /\ socks[t].status = "ACCEPT_PENDING"
          /\ socks' = [socks EXCEPT ![t].status = "LISTENING",
                         ![new] = [status |-> "CONNECTED", bin |-> 0, conn |-> d]]
      BY <2>8 DEF WriteToAccept, WriteFor, d
    <3> HIDE DEF new
    <3>3. \A u \in Sock : /\ socks'[u].conn = IF u = new THEN d ELSE socks[u].conn
                          /\ socks'[u].status = CASE u = new -> "CONNECTED"
                                                  [] u = t -> "LISTENING"
                                                  [] OTHER -> socks[u].status
      BY <1>0, <3>1, <3>2 DEF SockRecord
    <3>4. new # t
      BY <3>1, <3>2
    <3>5. /\ socks[t].status \in Pending
          /\ socks'[t].status = "LISTENING" /\ socks'[t].conn = socks[t].conn
      BY <3>2, <3>3, <3>4 DEF Pending
    <3>6. \A u \in Sock \ {t} : /\ socks'[u].status \in {socks[u].status, "CONNECTED"}
                                /\ socks'[u].conn \in {socks[u].conn, d}
                                /\ socks'[u].status # "CONNECTED" =>
                                     socks'[u].conn = socks[u].conn
      BY <3>3
    <3> QED
      BY <2>4, <3>2, <3>5, <3>6
  <2> QED
    BY <2>1, <2>2, <2>3, <2>5, <2>6, <2>7, <2>8 DEF HandleTCPWrite
<1>7. FreshPorts'
  BY <1>1, <1>5, <1>6, FreshKept DEF ConnectInv
<1>8. NamedPorts'
  BY <1>0, <1>1, <1>3, <1>6, NamedKept DEF ConnectInv
<1>9. Connecting'
  <2> SUFFICES ASSUME NEW s \in Sock, socks'[s].status = "CONNECT_PENDING"
               PROVE  Alone(s)' /\ InStage(socks[s].conn)'
    BY DEF Connecting
  <2>1. socks[s].status = "CONNECT_PENDING" /\ d # socks[s].conn
        /\ \A u \in Sock : socks'[u].conn = socks[u].conn
    BY <1>6 DEF SocksKept
  <2>2. Alone(s) /\ InStage(socks[s].conn)
    BY <2>1 DEF ConnectInv, Connecting
  <2>3. PICK c : c = socks[s].conn
    OBVIOUS
  <2>4. InStage(c)'
    BY <1>0, <1>1, <1>2, <2>1, <2>2, <2>3, ConsumedStage DEF d
  <2> QED
    BY <2>1, <2>2, <2>3, <2>4, StageOf DEF Alone
<1> QED
  BY <1>7, <1>8, <1>9 DEF ConnectInv

\* A socket that connects, and connects on, is in a stage if its connection is.
LEMMA ConnectingKept ==
  ASSUME Connecting, UNCHANGED <<clist, toTcp>>,
         \A u \in Sock : socks'[u].conn = socks[u].conn,
         \A u \in Sock : socks'[u].status = "CONNECT_PENDING" =>
                           socks[u].status = "CONNECT_PENDING",
         \A c : Opened(c) => Opened(c)'
  PROVE  Connecting'
<1> SUFFICES ASSUME NEW s \in Sock, socks'[s].status = "CONNECT_PENDING"
             PROVE  Alone(s)' /\ InStage(socks[s].conn)'
  BY DEF Connecting
<1>1. Alone(s) /\ InStage(socks[s].conn)
  BY DEF Connecting
<1>2. PICK c : c = socks[s].conn
  OBVIOUS
<1>3. InStage(c)'
  BY <1>1, <1>2 DEF InStage, Asked, Opening
<1> QED
  BY <1>1, <1>2, <1>3, StageOf DEF Alone

LEMMA StatusConnects ==
  ASSUME TypeOK, CallInv, ConnectInv, HandleTCPStatus
  PROVE  ConnectInv'
<1> DEFINE q == Head(tcpq)
<1>0. /\ socks \in [Sock -> SockRecord] /\ toSock \in Seq(Message) /\ toTcp \in Seq(Message)
      /\ toSock # <<>> /\ Head(toSock).type = "STATUS" /\ toSock' = Tail(toSock)
      /\ UNCHANGED <<owner, toTcp, clist>>
      /\ \/ UNCHANGED socks
         \/ socks' = [socks EXCEPT ![q.sock].status = "CONNECTED"]
  BY DEF TypeOK, HandleTCPStatus, FromTcp
<1> HIDE DEF q
<1>1. \A u \in Sock : /\ socks'[u].conn = socks[u].conn
                      /\ socks'[u].status \in {socks[u].status, "CONNECTED"}
  BY <1>0, ZenonT(60) DEF SockRecord
<1>2. SocksKept
  BY <1>1 DEF SocksKept, PortStatus
<1>3. Seen' \subseteq Seen
  <2>1. PortsIn(toSock') \subseteq PortsIn(toSock)
    BY <1>0, PortsTail
  <2>2. PortsIn(toTcp') = PortsIn(toTcp) /\ PortsIn(clist') = PortsIn(clist)
    BY <1>0
  <2> QED
    BY <2>1, <2>2 DEF Seen
<1>4. ASSUME NEW c, Opened(c)
      PROVE  Opened(c)'
  <2>1. PICK i \in DOMAIN toSock : toSock[i].type = "WRITE" /\ toSock[i].conn = c
    BY <1>4 DEF Opened, IsUnderWay
  <2>2. i # 1
    BY <1>0, <2>1
  <2>3. i - 1 \in DOMAIN toSock' /\ toSock'[i - 1] = toSock[i]
    BY <1>0, <2>1, <2>2
  <2> QED
    BY <2>1, <2>3 DEF Opened, IsUnderWay
<1>5. FreshPorts'
  BY <1>0, <1>2, <1>3, FreshKept DEF ConnectInv
<1>6. NamedPorts'
  BY <1>0, <1>2, NamedKept DEF ConnectInv
<1>7. Connecting'
  BY <1>0, <1>1, <1>4, ConnectingKept DEF ConnectInv
<1> QED
  BY <1>5, <1>6, <1>7 DEF ConnectInv

-----------------------------------------------------------------------------
(* The application's requests.                                             *)

\* A request to tcp_module has the port of its socket.
LEMMA SentPorts ==
  ASSUME TypeOK, NEW ty \in RequestType, NEW s \in Sock, NEW c \in Connection,
         SendTCPRequest(ty, s, c), UNCHANGED <<clist, toSock>>
  PROVE  /\ Seen' = Seen \cup {c.port}
         /\ DOMAIN toTcp' = 1..(Len(toTcp) + 1) /\ DOMAIN toTcp = 1..Len(toTcp)
         /\ Len(toTcp) \in Nat
         /\ toTcp'[Len(toTcp) + 1].type = ty /\ toTcp'[Len(toTcp) + 1].conn = c
         /\ \A j \in 1..Len(toTcp) : toTcp'[j] = toTcp[j]
<1> DEFINE m == Msg(ty, c, 0)
<1>1. m.type = ty /\ m.conn = c /\ m.conn.port = c.port /\ toTcp' = Append(toTcp, m)
  BY DEF Msg, SendTCPRequest
<1>2. m \in Message
  <2>1. 0 \in 0..MaxUnread
    BY BoundsAssumption
  <2> QED
    BY <2>1, MsgType
<1>3. toTcp \in Seq(Message)
  BY DEF TypeOK
<1> HIDE DEF m
<1>4. PortsIn(toTcp') = PortsIn(toTcp) \cup {c.port}
  BY <1>1, <1>2, <1>3, PortsAppend
<1>5. Seen' = Seen \cup {c.port}
  BY <1>4 DEF Seen
<1>6. /\ DOMAIN toTcp' = 1..(Len(toTcp) + 1) /\ DOMAIN toTcp = 1..Len(toTcp)
      /\ Len(toTcp) \in Nat /\ toTcp'[Len(toTcp) + 1] = m
      /\ \A j \in 1..Len(toTcp) : toTcp'[j] = toTcp[j]
  BY <1>1, <1>2, <1>3
<1> QED
  BY <1>1, <1>5, <1>6

\* Requests that leave the ports of the sockets alone, or take one away.
LEMMA RequestKeeps ==
  ASSUME TypeOK, ConnectInv, NEW s \in Sock, UNCHANGED <<clist, toSock, owner>>,
         \/ UNCHANGED toTcp
         \/ \E ty \in RequestType : /\ SendTCPRequest(ty, s, socks[s].conn)
                                    /\ ty # "CONNECT"
                                    /\ ty = "ACCEPT" => socks[s].conn.port # NoPort,
         \A u \in Sock \ {s} : socks'[u] = socks[u],
         socks'[s].conn.port \in {socks[s].conn.port, NoPort},
         socks'[s].status \notin {"BOUND", "CONNECT_PENDING"},
         socks'[s].status \in PortStatus => socks'[s].conn.port # NoPort,
         \A u \in Sock : socks[u].status # "CONNECT_PENDING"
  PROVE  ConnectInv'
<1>0. toTcp \in Seq(Message) /\ socks[s].conn \in Connection
  BY DEF TypeOK, SockRecord
<1>1. Seen' \subseteq Seen \cup {socks[s].conn.port}
  <2>1. CASE UNCHANGED toTcp
    BY <2>1 DEF Seen
  <2> QED
    BY <1>0, <2>1, SentPorts
<1>2. NamedPorts'
  <2>1. \A i \in DOMAIN toTcp' :
          toTcp'[i].type \in {"CONNECT", "ACCEPT"} => toTcp'[i].conn.port # NoPort
    <3>1. CASE UNCHANGED toTcp
      BY <3>1 DEF ConnectInv, NamedPorts
    <3>2. ASSUME NEW ty \in RequestType, SendTCPRequest(ty, s, socks[s].conn),
                 ty # "CONNECT", ty = "ACCEPT" => socks[s].conn.port # NoPort
          PROVE  \A i \in DOMAIN toTcp' :
                   toTcp'[i].type \in {"CONNECT", "ACCEPT"} => toTcp'[i].conn.port # NoPort
      BY <1>0, <3>2, SentPorts DEF ConnectInv, NamedPorts
    <3> QED
      BY <3>1, <3>2
  <2>2. NoPort \notin PortsIn(clist')
    BY DEF ConnectInv, NamedPorts
  <2>3. \A u \in Sock : socks'[u].status \in PortStatus => socks'[u].conn.port # NoPort
    BY DEF ConnectInv, NamedPorts, PortStatus
  <2> QED
    BY <2>1, <2>2, <2>3 DEF NamedPorts, PortStatus
<1>3. FreshPorts'
  <2>1. ASSUME NEW p \in Ports, owner'[p] = 0
        PROVE  p \notin Seen' /\ \A u \in Sock : socks'[u].conn.port # p
    <3>1. p # NoPort
      BY PortsAssumption
    <3> QED
      BY <1>1, <2>1, <3>1 DEF ConnectInv, FreshPorts
  <2>2. ASSUME NEW u \in Sock, socks'[u].status = "BOUND"
        PROVE  Alone(u)' /\ socks'[u].conn.port \notin Seen'
    <3>1. u # s /\ socks[u].status = "BOUND" /\ socks'[u] = socks[u]
      BY <2>2
    <3>2. Alone(u) /\ socks[u].conn.port \notin Seen /\ socks[u].conn.port # NoPort
      BY <3>1 DEF ConnectInv, FreshPorts, NamedPorts
    <3> QED
      BY <1>1, <3>1, <3>2 DEF Alone
  <2> QED
    BY <2>1, <2>2 DEF FreshPorts
<1>4. Connecting'
  BY DEF Connecting
<1> QED
  BY <1>2, <1>3, <1>4 DEF ConnectInv

\* A port that nobody owned is the socket's alone.
LEMMA BindConnects ==
  ASSUME TypeOK, ConnectInv, NEW s \in Sock, NEW p \in Ports, owner[p] = 0,
         owner' = [owner EXCEPT ![p] = s], UNCHANGED <<clist, toSock, toTcp>>,
         \A u \in Sock \ {s} : socks'[u] = socks[u],
         socks'[s].conn.port = p, socks'[s].status = "BOUND",
         \A u \in Sock : socks[u].status # "CONNECT_PENDING"
  PROVE  ConnectInv'
<1>1. p \notin Seen /\ p # NoPort /\ \A u \in Sock : socks[u].conn.port # p
  BY PortsAssumption DEF ConnectInv, FreshPorts
<1>2. Seen' = Seen
  BY DEF Seen
<1>3. NamedPorts'
  BY <1>1 DEF ConnectInv, NamedPorts, PortStatus
<1>4. FreshPorts'
  <2>1. ASSUME NEW o \in Ports, owner'[o] = 0
        PROVE  o \notin Seen' /\ \A u \in Sock : socks'[u].conn.port # o
    <3>1. o # p /\ owner[o] = 0
      BY <2>1 DEF TypeOK, Sock
    <3> QED
      BY <1>2, <3>1 DEF ConnectInv, FreshPorts
  <2>2. ASSUME NEW u \in Sock, socks'[u].status = "BOUND"
        PROVE  Alone(u)' /\ socks'[u].conn.port \notin Seen'
    <3>1. CASE u = s
      BY <1>1, <1>2, <3>1 DEF Alone
    <3>2. CASE u # s
      BY <1>1, <1>2, <2>2, <3>2 DEF ConnectInv, FreshPorts, Alone
    <3> QED
      BY <3>1, <3>2
  <2> QED
    BY <2>1, <2>2 DEF FreshPorts
<1>5. Connecting'
  BY DEF Connecting
<1> QED
  BY <1>3, <1>4, <1>5 DEF ConnectInv

\* A connect starts in the first stage: its port is seen nowhere.
LEMMA ConnectStarts ==
  ASSUME TypeOK, TypeOK', CallInv, ConnectInv, NEW s \in Sock, NEW r \in Remote,
         AppConnect(s, r)
  PROVE  ConnectInv'
<1>0. /\ socks \in [Sock -> SockRecord] /\ call = NoCall /\ UNCHANGED <<clist, toSock>>
      /\ SendTCPRequest("CONNECT", s, socks'[s].conn) /\ toTcp \in Seq(Message)
      /\ socks'[s].conn \in Connection
  <2>1. socks'[s] \in SockRecord
    BY DEF TypeOK
  <2> QED
    BY <2>1 DEF AppConnect, Makes, TypeOK, SockRecord
<1>1. \A u \in Sock : socks[u].status # "CONNECT_PENDING"
  BY <1>0, NothingPending DEF Pending
<1>2. PICK c : c = socks'[s].conn
  OBVIOUS
<1> DEFINE p == c.port
<1>3. /\ p # NoPort /\ p \notin Seen
      /\ \A u \in Sock \ {s} : socks[u].conn.port # p
      /\ \A u \in Sock \ {s} : socks'[u] = socks[u]
      /\ socks'[s].status = "CONNECT_PENDING"
      /\ owner'[p] # 0 \/ p \notin Ports
      /\ \A o \in Ports : owner'[o] = 0 => owner[o] = 0
  <2>1. CASE socks[s].status = "UNBOUND" /\ FreePorts # {}
             /\ LET o == LowestOf(FreePorts)
                IN  /\ owner' = [owner EXCEPT ![o] = s]
                    /\ socks' = [socks EXCEPT ![s].status = "CONNECT_PENDING",
                                              ![s].conn = [port |-> o, end |-> r]]
    <3> DEFINE o == LowestOf(FreePorts)
    <3>1. o \in Ports /\ owner[o] = 0
      BY <2>1, FreePortsFacts
    <3>2. /\ owner' = [owner EXCEPT ![o] = s]
          /\ socks' = [socks EXCEPT ![s] = [socks[s] EXCEPT !.status = "CONNECT_PENDING",
                                              !.conn = [port |-> o, end |-> r]]]
      BY <2>1
    <3> HIDE DEF o
    <3>3. o # NoPort /\ o \notin Seen /\ \A u \in Sock : socks[u].conn.port # o
      BY <3>1, PortsAssumption DEF ConnectInv, FreshPorts
    <3>4. socks'[s].conn.port = o /\ socks'[s].status = "CONNECT_PENDING"
      BY <1>0, <3>2 DEF SockRecord
    <3>5. owner'[o] # 0 /\ \A x \in Ports : owner'[x] = 0 => owner[x] = 0
      BY <3>1, <3>2 DEF TypeOK, Sock
    <3>6. \A u \in Sock \ {s} : socks'[u] = socks[u]
      BY <1>0, <3>2
    <3> QED
      BY <1>2, <3>3, <3>4, <3>5, <3>6
  <2>2. CASE socks[s].status = "BOUND" /\ UNCHANGED owner
             /\ socks' = [socks EXCEPT ![s].status = "CONNECT_PENDING", ![s].conn.end = r]
    <3>1. socks' = [socks EXCEPT ![s] = [socks[s] EXCEPT !.status = "CONNECT_PENDING",
                                                         !.conn.end = r]]
      BY <2>2
    <3>2. /\ socks'[s].conn.port = socks[s].conn.port /\ socks'[s].status = "CONNECT_PENDING"
          /\ \A u \in Sock \ {s} : socks'[u] = socks[u]
      BY <1>0, <3>1 DEF SockRecord, Connection
    <3>3. p # NoPort /\ p \notin Seen /\ \A u \in Sock \ {s} : socks[u].conn.port # p
      BY <1>2, <2>2, <3>2 DEF ConnectInv, FreshPorts, NamedPorts, Alone
    <3>4. p \in Ports => owner[p] # 0
      BY <1>2, <3>2 DEF ConnectInv, FreshPorts
    <3> QED
      BY <2>2, <3>2, <3>3, <3>4
  <2> QED
    BY <2>1, <2>2 DEF AppConnect
<1> HIDE DEF p
<1>4. /\ Seen' = Seen \cup {p}
      /\ DOMAIN toTcp' = 1..(Len(toTcp) + 1) /\ DOMAIN toTcp = 1..Len(toTcp)
      /\ Len(toTcp) \in Nat
      /\ toTcp'[Len(toTcp) + 1].type = "CONNECT" /\ toTcp'[Len(toTcp) + 1].conn = c
      /\ \A j \in 1..Len(toTcp) : toTcp'[j] = toTcp[j]
  <2>1. "CONNECT" \in RequestType /\ c \in Connection /\ SendTCPRequest("CONNECT", s, c)
    BY <1>0, <1>2 DEF RequestType
  <2> QED
    BY <1>0, <2>1, SentPorts DEF p
<1>5. NamedPorts'
  <2>1. \A i \in DOMAIN toTcp' :
          toTcp'[i].type \in {"CONNECT", "ACCEPT"} => toTcp'[i].conn.port # NoPort
    BY <1>3, <1>4 DEF ConnectInv, NamedPorts, p
  <2>2. \A u \in Sock : socks'[u].status \in PortStatus => socks'[u].conn.port # NoPort
    BY <1>2, <1>3 DEF ConnectInv, NamedPorts, PortStatus, p
  <2> QED
    BY <1>0, <2>1, <2>2 DEF ConnectInv, NamedPorts, PortStatus
<1>6. FreshPorts'
  <2>1. ASSUME NEW o \in Ports, owner'[o] = 0
        PROVE  o \notin Seen' /\ \A u \in Sock : socks'[u].conn.port # o
    BY <1>2, <1>3, <1>4, <2>1 DEF ConnectInv, FreshPorts, p
  <2>2. ASSUME NEW u \in Sock, socks'[u].status = "BOUND"
        PROVE  Alone(u)' /\ socks'[u].conn.port \notin Seen'
    <3>1. u # s /\ socks[u].status = "BOUND" /\ socks'[u] = socks[u]
      BY <1>3, <2>2
    <3>2. Alone(u) /\ socks[u].conn.port \notin Seen /\ socks[u].conn.port # p
      BY <1>3, <3>1 DEF ConnectInv, FreshPorts
    <3> QED
      BY <1>2, <1>3, <1>4, <3>1, <3>2 DEF Alone, p
  <2> QED
    BY <2>1, <2>2 DEF FreshPorts
<1>7. Connecting'
  <2> SUFFICES ASSUME NEW u \in Sock, socks'[u].status = "CONNECT_PENDING"
               PROVE  Alone(u)' /\ InStage(socks[u].conn)'
    BY DEF Connecting
  <2>1. u = s
    BY <1>1, <1>3
  <2>2. Alone(s)'
    BY <1>2, <1>3 DEF Alone, p
  <2>3. Asked(c)'
    <3>1. c.port \notin PortsIn(clist') /\ \A j \in 1..Len(toTcp) : toTcp[j].conn.port # c.port
      BY <1>0, <1>3, <1>4 DEF Seen, PortsIn, p
    <3>2. Len(toTcp) + 1 \in DOMAIN toTcp'
          /\ \A j \in DOMAIN toTcp' :
               /\ j < Len(toTcp) + 1 => toTcp'[j].conn.port # c.port
               /\ ~ (j > Len(toTcp) + 1)
      BY <1>4, <3>1
    <3> QED
      BY <1>4, <3>1, <3>2 DEF Asked
  <2> QED
    BY <1>2, <2>1, <2>2, <2>3, StageOf DEF InStage
<1> QED
  BY <1>5, <1>6, <1>7 DEF ConnectInv

LEMMA AppConnects ==
  ASSUME TypeOK, TypeOK', CallInv, ConnectInv, ProcessAppRequest
  PROVE  ConnectInv'
<1>0. /\ call = NoCall /\ UNCHANGED <<toSock, clist>>
      /\ socks \in [Sock -> SockRecord]
  <2>1. socks \in [Sock -> SockRecord]
    BY DEF TypeOK
  <2> QED
    BY <2>1 DEF ProcessAppRequest, AppSocket, AppBind, AppListen, AppAccept, AppConnect, AppRead,
                AppWrite, AppClose, Makes
<1>1. \A u \in Sock : socks[u].status # "CONNECT_PENDING"
  BY <1>0, NothingPending DEF Pending
<1>2. {"ACCEPT", "WRITE", "CLOSE"} \subseteq RequestType
  BY DEF RequestType
<1>3. CASE AppSocket
  <2> DEFINE s == LowestOf(FreeSocks)
  <2>1. s \in Sock
    BY <1>3, FreeSocksFacts DEF AppSocket
  <2>2. socks' = [socks EXCEPT ![s].status = "UNBOUND"] /\ UNCHANGED <<owner, toTcp>>
    BY <1>3 DEF AppSocket
  <2> HIDE DEF s
  <2>3. /\ \A u \in Sock \ {s} : socks'[u] = socks[u]
        /\ socks'[s].conn = socks[s].conn /\ socks'[s].status = "UNBOUND"
    BY <1>0, <2>1, <2>2 DEF SockRecord
  <2> QED
    BY <1>0, <1>1, <2>1, <2>2, <2>3, RequestKeeps DEF PortStatus
<1>4. ASSUME NEW s \in Sock, NEW p \in Ports, AppBind(s, p)
      PROVE  ConnectInv'
  <2>1. owner[p] = 0 /\ owner' = [owner EXCEPT ![p] = s] /\ UNCHANGED toTcp
    BY <1>4 DEF AppBind
  <2>2. /\ \A u \in Sock \ {s} : socks'[u] = socks[u]
        /\ socks'[s].conn.port = p /\ socks'[s].status = "BOUND"
    BY <1>0, <1>4 DEF AppBind, SockRecord, Connection
  <2> QED
    BY <1>0, <1>1, <2>1, <2>2, BindConnects
<1>5. ASSUME NEW s \in Sock, AppListen(s)
      PROVE  ConnectInv'
  <2>1. UNCHANGED <<owner, toTcp>> /\ socks[s].status = "BOUND"
    BY <1>5 DEF AppListen
  <2>2. /\ \A u \in Sock \ {s} : socks'[u] = socks[u]
        /\ socks'[s].conn.port = socks[s].conn.port /\ socks'[s].status = "LISTENING"
    BY <1>0, <1>5 DEF AppListen, SockRecord, Connection
  <2>3. socks[s].conn.port # NoPort
    BY <2>1 DEF ConnectInv, NamedPorts
  <2> QED
    BY <1>0, <1>1, <2>1, <2>2, <2>3, RequestKeeps
<1>6. ASSUME NEW s \in Sock, AppAccept(s)
      PROVE  ConnectInv'
  <2>1. /\ UNCHANGED owner /\ socks[s].status = "LISTENING"
        /\ SendTCPRequest("ACCEPT", s, socks[s].conn)
    BY <1>6 DEF AppAccept
  <2>2. /\ \A u \in Sock \ {s} : socks'[u] = socks[u]
        /\ socks'[s].conn = socks[s].conn /\ socks'[s].status = "ACCEPT_PENDING"
    BY <1>0, <1>6 DEF AppAccept, SockRecord
  <2>3. socks[s].conn.port # NoPort
    BY <2>1 DEF ConnectInv, NamedPorts
  <2> QED
    BY <1>0, <1>1, <1>2, <2>1, <2>2, <2>3, RequestKeeps
<1>7. ASSUME NEW s \in Sock, AppRead(s)
      PROVE  ConnectInv'
  <2>1. UNCHANGED <<owner, toTcp>>
    BY <1>7 DEF AppRead
  <2>2. /\ \A u \in Sock \ {s} : socks'[u] = socks[u]
        /\ socks'[s].conn = socks[s].conn
        /\ socks'[s].status \in {"CONNECTED", "READ_PENDING"}
    BY <1>0, <1>7 DEF AppRead, SockRecord
  <2> QED
    BY <1>0, <1>1, <2>1, <2>2, RequestKeeps DEF PortStatus
<1>8. ASSUME NEW s \in Sock, AppWrite(s)
      PROVE  ConnectInv'
  <2>1. UNCHANGED owner /\ SendTCPRequest("WRITE", s, socks[s].conn)
    BY <1>8 DEF AppWrite
  <2>2. /\ \A u \in Sock \ {s} : socks'[u] = socks[u]
        /\ socks'[s].conn = socks[s].conn /\ socks'[s].status = "WRITE_PENDING"
    BY <1>0, <1>8 DEF AppWrite, SockRecord
  <2> QED
    BY <1>0, <1>1, <1>2, <2>1, <2>2, RequestKeeps DEF PortStatus
<1>9. ASSUME NEW s \in Sock, AppClose(s)
      PROVE  ConnectInv'
  <2>1. UNCHANGED owner /\ SendTCPRequest("CLOSE", s, socks[s].conn)
    BY <1>9 DEF AppClose
  <2>2. /\ \A u \in Sock \ {s} : socks'[u] = socks[u]
        /\ socks'[s].conn.port = NoPort /\ socks'[s].status = "FREE"
    BY <1>0, <1>9 DEF AppClose, Closed, Unconnected
  <2> QED
    BY <1>0, <1>1, <1>2, <2>1, <2>2, RequestKeeps DEF PortStatus
<1> QED
  BY <1>3, <1>4, <1>5, <1>6, <1>7, <1>8, <1>9, ConnectStarts DEF ProcessAppRequest

-----------------------------------------------------------------------------
LEMMA ConnectInvInit == Init => ConnectInv
<1> SUFFICES ASSUME Init PROVE ConnectInv
  OBVIOUS
<1>1. PortsIn(<<>>) = {}
  BY DEF PortsIn
<1>2. Seen = {}
  BY <1>1 DEF Init, Seen
<1>3. \A s \in Sock : socks[s].status = "FREE" /\ socks[s].conn.port = NoPort
  BY DEF Init, Closed, Unconnected
<1>4. \A p \in Ports : p # NoPort
  BY PortsAssumption
<1> QED
  BY <1>1, <1>2, <1>3, <1>4 DEF Init, ConnectInv, NamedPorts, FreshPorts, Connecting

LEMMA ConnectInvStep ==
  ASSUME SockInv, ConnectInv, [Next]_vars
  PROVE  ConnectInv'
<1>0. TypeOK /\ TypeOK' /\ CallInv
  BY TypeStep DEF SockInv
<1>1. CASE TcpModule
  <2>1. Seen' \subseteq Seen /\ NamedPorts' /\ UNCHANGED <<sockSide, toApp, call>>
    BY <1>0, <1>1, TcpPorts DEF ConnectInv
  <2>2. UNCHANGED <<socks, owner>>
    BY <2>1 DEF sockSide
  <2>3. FreshPorts'
    BY <2>1, <2>2 DEF ConnectInv, FreshPorts, Alone
  <2>4. Connecting'
    <3> SUFFICES ASSUME NEW s \in Sock, socks'[s].status = "CONNECT_PENDING"
                 PROVE  Alone(s)' /\ InStage(socks[s].conn)'
      BY DEF Connecting
    <3>1. Alone(s) /\ InStage(socks[s].conn) /\ socks[s].conn.port # NoPort
      BY <2>2 DEF ConnectInv, Connecting, NamedPorts
    <3>2. PICK c : c = socks[s].conn
      OBVIOUS
    <3>3. InStage(c)'
      BY <1>0, <1>1, <3>1, <3>2, TcpStage DEF ConnectInv
    <3> QED
      BY <2>2, <3>1, <3>2, <3>3, StageOf DEF Alone
  <2> QED
    BY <2>1, <2>3, <2>4 DEF ConnectInv
<1>2. CASE AppReturn \/ UNCHANGED vars
  <2>1. UNCHANGED <<socks, owner, clist, toTcp, toSock>>
    BY <1>2 DEF AppReturn, vars, sockSide
  <2>2. \A c : Opened(c) => Opened(c)'
    BY <2>1 DEF Opened, IsUnderWay
  <2>3. Connecting'
    BY <2>1, <2>2, ConnectingKept DEF ConnectInv
  <2> QED
    BY <2>1, <2>3 DEF ConnectInv, NamedPorts, FreshPorts, Alone, Seen
<1> QED
  BY <1>0, <1>1, <1>2, WriteConnects, StatusConnects, AppConnects DEF Next, SockModule

LEMMA ConnectInvSuffices == ConnectInv => ConnectServed
<1> SUFFICES ASSUME ConnectInv, NEW s \in Sock, socks[s].status = "CONNECT_PENDING",
                    ~ IsUnderWay("CONNECT", socks[s].conn, toTcp)
             PROVE  \/ \E i \in DOMAIN clist :
                         clist[i].conn = socks[s].conn /\ clist[i].state = "SYN_SENT"
                    \/ IsUnderWay("WRITE", socks[s].conn, toSock)
  BY DEF ConnectServed
<1>1. InStage(socks[s].conn)
  BY DEF ConnectInv, Connecting
<1> QED
  BY <1>1 DEF InStage, Asked, Opening, Opened, IsUnderWay

\* A connect that tcp_module has taken waits for its SYN and ACK, or is about to
\* return, whatever other connections there are and whatever segments arrive.
THEOREM ConnectNeverOrphaned == Spec => []ConnectServed
<1>1. SockInv /\ ConnectInv /\ [Next]_vars => ConnectInv'
  BY ConnectInvStep
<1> QED
  BY <1>1, ConnectInvInit, ConnectInvSuffices, SockInvariant, PTL DEF Spec
=============================================================================
