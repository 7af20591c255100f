-------------------------- MODULE TCPOrder_proofs ---------------------------
(***************************************************************************)
(* The proof that FreshInOrder holds of TCPConnection, for all values of   *)
(* its constants: whatever is lost, doubled or moved, and however often    *)
(* sock_module drops data or tcp_module sends it up again.                 *)
(*                                                                         *)
(* Each of the two directions is described by itself, from the writer's    *)
(* application to the reader's.  A byte is its place in the stream, so all *)
(* that is said of a buffer or a FIFO is said of the bytes it holds.       *)
(***************************************************************************)
EXTENDS TCPConnection_proofs, SequenceTheorems

BytesOf(s) == {s[i] : i \in DOMAIN s}

\* The writer's application has written `wrote' bytes, of which tcp_module has
\* taken e; the others are those of the one WRITE that may be under way.
WriteRight(q, wrote, e) ==
  wrote = e + Len(q.data) /\ \A j \in DOMAIN q.data : q.data[j] = e + j
AskedRight(tt, wrote, e) ==
  /\ \A i, j \in DOMAIN tt : tt[i].type = "WRITE" /\ tt[j].type = "WRITE" => i = j
  /\ NoneOf(tt, {"WRITE"}) => e = wrote
  /\ \A i \in DOMAIN tt : tt[i].type = "WRITE" => WriteRight(tt[i], wrote, e)

\* While connected, what the send loop has not reached yet (beyond the bytes
\* under way) is the end of what was taken, byte after byte.
BufferRight(t, e) ==
  /\ t.state = "ESTABLISHED" =>
       \A i \in DOMAIN t.sendBuf :
         i > Unacked(t) => t.sendBuf[i] + Len(t.sendBuf) = e + i
  /\ t.state \in {"LISTEN", "SYN_SENT", "SYN_RCVD"} => t.sendBuf = <<>>

\* x comes before all that the writer has still to send.
Gone(x, t, e) ==
  /\ x <= e
  /\ t.state = "ESTABLISHED" /\ Len(t.sendBuf) > Unacked(t) =>
       x + Len(t.sendBuf) <= e + Unacked(t)

\* The bytes of a sequence of segments, and those the reader's host has.
Carried(s) == {x \in Nat : \E i \in DOMAIN s : x \in BytesOf(s[i].data)}
Held(got, ts, buf) ==
  {x \in Nat : \/ x \in BytesOf(got) \/ x \in BytesOf(buf)
               \/ \E i \in DOMAIN ts : x \in BytesOf(ts[i].data)}

\* Segments carry consecutive bytes, and those with later numbers later bytes;
\* two have the same number only if they are the same segment twice.
DataRight(p) ==
  p.data # <<>> =>
    /\ p.flags = {"ACK"} /\ Len(p.data) <= MSS
    /\ \A i \in DOMAIN p.data : p.data[i] + 1 = p.data[1] + i
PairRight(p, q, same) ==
  p.data # <<>> /\ q.data # <<>> =>
    /\ p.seq < q.seq => \A a \in BytesOf(p.data), b \in BytesOf(q.data) : a < b
    /\ p.seq = q.seq => p.data = q.data /\ (same \/ "duplicate" \in Faults)
SegmentsRight(s) ==
  /\ \A i \in DOMAIN s : DataRight(s[i])
  /\ \A i, j \in DOMAIN s : PairRight(s[i], s[j], i = j)

\* A segment the reader may still accept brings bytes that are in turn.
Later(X, p, n) ==
  p.data # <<>> /\ p.seq > n => \A x \in X, d \in BytesOf(p.data) : x < d + Slack
ReaderRight(s, X, n) == \A i \in DOMAIN s : Later(X, s[i], n)

\* What is on its way up is in turn, and each of its parts holds all of the
\* parts before it that come later in the stream than it begins.
InTurn(s) == \A i, j \in DOMAIN s : i < j => s[i] < s[j] + Slack
Follows(c, d) ==
  \A y \in BytesOf(d) : y \in BytesOf(c) \/ \A x \in BytesOf(c) : x < y + Slack
StreamRight(got, ts, buf) ==
  /\ InTurn(buf) /\ Follows(got, buf)
  /\ \A i \in DOMAIN ts : /\ InTurn(ts[i].data) /\ Follows(got, ts[i].data)
                          /\ Follows(ts[i].data, buf)
  /\ \A i, j \in DOMAIN ts : i < j => Follows(ts[i].data, ts[j].data)

Fresh1(got) ==
  \A i \in DOMAIN got :
    \/ \E j \in 1..(i - 1) : got[j] = got[i]
    \/ \A j \in 1..(i - 1) : got[j] < got[i] + Slack

\* One direction: the writer's record, requests and bytes written, the segments,
\* the reader's last_recvd, application, messages and receive buffer.
Direction(t, tt, wrote, s, n, got, ts, buf) ==
  /\ \E e \in Nat :
       /\ AskedRight(tt, wrote, e) /\ BufferRight(t, e)
       /\ \A x \in Carried(s) \cup Held(got, ts, buf) : Gone(x, t, e)
  /\ SegmentsRight(s)
  /\ ReaderRight(s, Held(got, ts, buf), n)
  /\ StreamRight(got, ts, buf)
  /\ Fresh1(got)

Towards(h) ==
  Direction(tcb[Peer(h)], toTcp[Peer(h)], app[Peer(h)].wrote, net[h],
            tcb[h].lastRecvd, app[h].got, toSock[h], tcb[h].recvBuf)

StreamInv == \A h \in Host : Towards(h)

-----------------------------------------------------------------------------
(* Sequences of bytes.                                                     *)
ShiftsBack(v, m, k, e, i) == v + m = e + (i + k) => v + (m - k) = e + i
LEMMA ShiftBack == \A v, m, k, e, i \in Nat : ShiftsBack(v, m, k, e, i)
BY DEF ShiftsBack

NextToIt(v, w, m, e, i, u) ==
  v + m = e + (i + u) /\ w + m = e + (1 + u) => v + 1 = w + i
LEMMA InARow == \A v, w, m, e, i, u \in Nat : NextToIt(v, w, m, e, i, u)
BY DEF NextToIt

LEMMA EarlierPlaces == \A n \in Nat : \A i \in 1..n : 1..(i - 1) \subseteq 1..n
OBVIOUS

LEMMA SlackFacts == Slack \in Nat /\ Slack >= 1 /\ ("duplicate" \in Faults => Slack = MSS)
BY MSSAssumption DEF Slack

LEMMA BytesFacts ==
  ASSUME NEW s \in Seq(Nat), NEW r \in Seq(Nat)
  PROVE  /\ BytesOf(s) \subseteq Nat /\ BytesOf(<<>>) = {}
         /\ BytesOf(s \o r) = BytesOf(s) \cup BytesOf(r)
<1>1. BytesOf(s) \subseteq Nat /\ BytesOf(<<>>) = {}
  BY DEF BytesOf
<1>2. /\ \A i \in DOMAIN s : i \in DOMAIN (s \o r) /\ (s \o r)[i] = s[i]
      /\ \A i \in DOMAIN r : i + Len(s) \in DOMAIN (s \o r) /\ (s \o r)[i + Len(s)] = r[i]
      /\ \A i \in DOMAIN (s \o r) : \/ i \in DOMAIN s /\ (s \o r)[i] = s[i]
                                    \/ i - Len(s) \in DOMAIN r /\ (s \o r)[i] = r[i - Len(s)]
  OBVIOUS
<1> DEFINE q == s \o r
<1>3. BytesOf(q) = BytesOf(s) \cup BytesOf(r)
  <2>1. \A i \in DOMAIN s : s[i] \in BytesOf(q)
    BY <1>2 DEF BytesOf
  <2>2. \A i \in DOMAIN r : r[i] \in BytesOf(q)
    BY <1>2 DEF BytesOf
  <2>3. \A i \in DOMAIN q : q[i] \in BytesOf(s) \cup BytesOf(r)
    BY <1>2 DEF BytesOf
  <2> HIDE DEF q
  <2> QED
    BY <2>1, <2>2, <2>3 DEF BytesOf
<1> QED
  BY <1>1, <1>3

LEMMA JoinFacts ==
  ASSUME NEW b \in Seq(Nat), NEW d \in Seq(Nat)
  PROVE  /\ b \o d \in Seq(Nat) /\ Len(b \o d) = Len(b) + Len(d)
         /\ \A i \in DOMAIN (b \o d) :
              \/ i \in DOMAIN b /\ (b \o d)[i] = b[i]
              \/ i - Len(b) \in DOMAIN d /\ (b \o d)[i] = d[i - Len(b)]
OBVIOUS

LEMMA PartFacts ==
  ASSUME NEW b \in Seq(Nat), NEW a \in Nat, NEW z \in Nat, a <= z, z <= Len(b)
  PROVE  /\ SubSeq(b, a + 1, z) \in Seq(Nat) /\ Len(SubSeq(b, a + 1, z)) = z - a
         /\ \A i \in DOMAIN SubSeq(b, a + 1, z) :
              i + a \in DOMAIN b /\ SubSeq(b, a + 1, z)[i] = b[i + a]
<1>1. \A i \in (a + 1)..z : b[i] \in Nat
  OBVIOUS
<1> DEFINE r == SubSeq(b, a + 1, z)
<1>2. /\ r \in Seq(Nat) /\ Len(r) = IF a + 1 <= z THEN z - (a + 1) + 1 ELSE 0
      /\ \A i \in 1..(z - (a + 1) + 1) : r[i] = b[(a + 1) + i - 1]
  BY <1>1, a + 1 \in Int, z \in Int, SubSeqProperties
<1> HIDE DEF r
<1>3. Len(r) = z - a /\ DOMAIN r = 1..(z - a)
  BY <1>2
<1>4. ASSUME NEW i \in DOMAIN r
      PROVE  i + a \in DOMAIN b /\ r[i] = b[i + a]
  <2>1. i \in Nat /\ i >= 1 /\ i + a <= z /\ (a + 1) + i - 1 = i + a
    BY <1>3
  <2>2. r[i] = b[(a + 1) + i - 1]
    BY <1>2, <1>3, <2>1, SMTT(30)
  <2>3. i + a \in 1..Len(b) /\ DOMAIN b = 1..Len(b)
    BY <2>1
  <2> QED
    BY <2>1, <2>2, <2>3
<1> QED
  BY <1>2, <1>3, <1>4 DEF r

\* Buffer::Erase(0, n).
LEMMA EraseFacts ==
  ASSUME NEW b \in Seq(Nat), NEW n \in Nat
  PROVE  LET r == EraseFront(b, n)
             m == MinOf(n, Len(b))
         IN  /\ r \in Seq(Nat) /\ m \in Nat /\ m <= Len(b) /\ m <= n
             /\ (m = n \/ r = <<>>) /\ Len(r) = Len(b) - m
             /\ \A i \in DOMAIN r : i + m \in DOMAIN b /\ r[i] = b[i + m]
<1> DEFINE r == EraseFront(b, n)
           m == MinOf(n, Len(b))
<1>1. m \in Nat /\ m <= Len(b) /\ m <= n /\ (m = n \/ m = Len(b)) /\ Len(b) \in Nat
  BY DEF MinOf
<1>2. r = SubSeq(b, m + 1, Len(b))
  BY DEF EraseFront
<1> HIDE DEF r, m
<1>3. /\ r \in Seq(Nat) /\ Len(r) = Len(b) - m
      /\ \A i \in DOMAIN r : i + m \in DOMAIN b /\ r[i] = b[i + m]
  BY <1>1, <1>2, PartFacts
<1>4. m = n \/ r = <<>>
  BY <1>1, <1>3
<1> QED
  BY <1>1, <1>3, <1>4 DEF r, m

\* Buffer::Extract(off, n).
LEMMA ExtractFacts ==
  ASSUME NEW b \in Seq(Nat), NEW off \in Nat, NEW n \in Nat, off <= Len(b)
  PROVE  LET x == Extracted(b, off, n)
             r == AfterExtract(b, off, n)
         IN  /\ x \in Seq(Nat) /\ r \in Seq(Nat)
             /\ Len(x) <= n /\ Len(r) = Len(b) - Len(x)
             /\ \A i \in DOMAIN x : i + off \in DOMAIN b /\ x[i] = b[i + off]
             /\ \A i \in DOMAIN r : i > off => /\ i + Len(x) \in DOMAIN b
                                               /\ r[i] = b[i + Len(x)]
<1> DEFINE m == MinOf(off + n, Len(b))
           x == Extracted(b, off, n)
           r == AfterExtract(b, off, n)
           p == SubSeq(b, 1, off)
           q == SubSeq(b, m + 1, Len(b))
<1>1. m \in Nat /\ off <= m /\ m <= Len(b) /\ m <= off + n
  BY DEF MinOf
<1>2. /\ x \in Seq(Nat) /\ Len(x) = m - off
      /\ \A i \in DOMAIN x : i + off \in DOMAIN b /\ x[i] = b[i + off]
  BY <1>1, PartFacts DEF Extracted
<1>3. p \in Seq(Nat) /\ Len(p) = off
  <2>1. p = SubSeq(b, 0 + 1, off)
    OBVIOUS
  <2> QED
    BY <1>1, <2>1, PartFacts, 0 \in Nat
<1>4. /\ q \in Seq(Nat) /\ Len(q) = Len(b) - m
      /\ \A i \in DOMAIN q : i + m \in DOMAIN b /\ q[i] = b[i + m]
  <2> HIDE DEF m
  <2> QED
    BY <1>1, PartFacts, Len(b) \in Nat
<1>5. r = p \o q
  BY DEF AfterExtract
<1> HIDE DEF p, q, r, m, x
<1>6. r \in Seq(Nat) /\ Len(r) = off + Len(b) - m
  <2>1. r \in Seq(Nat) /\ Len(r) = Len(p) + Len(q)
    BY <1>3, <1>4, <1>5, ConcatProperties, Zenon
  <2> QED
    BY <1>1, <1>3, <1>4, <2>1
<1>7. \A i \in DOMAIN r : i > off => i - off \in DOMAIN q /\ r[i] = q[i - off]
  BY <1>3, <1>4, <1>5
<1>8. \A i \in DOMAIN r : i > off => i + Len(x) \in DOMAIN b /\ r[i] = b[i + Len(x)]
  <2> SUFFICES ASSUME NEW i \in DOMAIN r, i > off
               PROVE  i + Len(x) \in DOMAIN b /\ r[i] = b[i + Len(x)]
    OBVIOUS
  <2>1. i - off \in DOMAIN q /\ r[i] = q[i - off] /\ i \in Nat
    BY <1>6, <1>7
  <2>2. (i - off) + m \in DOMAIN b /\ q[i - off] = b[(i - off) + m]
    BY <1>4, <2>1
  <2>3. (i - off) + m = i + Len(x)
    BY <1>1, <1>2, <2>1
  <2> QED
    BY <2>1, <2>2, <2>3
<1> QED
  BY <1>1, <1>2, <1>6, <1>8 DEF x, r

-----------------------------------------------------------------------------
(* The writer's requests.                                                  *)
LEMMA AskedTail ==
  ASSUME NEW tt \in Seq(Request), NEW wrote \in Nat, NEW e \in Nat,
         AskedRight(tt, wrote, e), tt # <<>>
  PROVE  IF Head(tt).type = "WRITE"
         THEN /\ AskedRight(Tail(tt), wrote, wrote)
              /\ WriteRight(Head(tt), wrote, e)
         ELSE AskedRight(Tail(tt), wrote, e)
<1> DEFINE r == Tail(tt)
<1>1. \A i \in DOMAIN r : i + 1 \in DOMAIN tt /\ r[i] = tt[i + 1] /\ i \in Nat
  OBVIOUS
<1>2. /\ 1 \in DOMAIN tt /\ Head(tt) = tt[1]
      /\ \A i \in DOMAIN tt : i = 1 \/ (i - 1 \in DOMAIN r /\ r[i - 1] = tt[i])
  OBVIOUS
<1> HIDE DEF r
<1>3. \A i, j \in DOMAIN r : r[i].type = "WRITE" /\ r[j].type = "WRITE" => i = j
  <2> SUFFICES ASSUME NEW i \in DOMAIN r, NEW j \in DOMAIN r,
                      r[i].type = "WRITE", r[j].type = "WRITE"
               PROVE  i = j
    OBVIOUS
  <2>1. i + 1 = j + 1
    BY <1>1, Zenon DEF AskedRight
  <2> QED
    BY <1>1, <2>1
<1>4. CASE Head(tt).type = "WRITE"
  <2>1. WriteRight(Head(tt), wrote, e)
    BY <1>2, <1>4, Zenon DEF AskedRight
  <2>2. ASSUME NEW i \in DOMAIN r
        PROVE  r[i].type # "WRITE"
    <3>1. SUFFICES ASSUME tt[i + 1].type = "WRITE" PROVE FALSE
      BY <1>1
    <3>2. i + 1 = 1
      BY <1>1, <1>2, <1>4, <3>1, Zenon DEF AskedRight
    <3>3. i \in DOMAIN r /\ i >= 1
      BY DEF r
    <3> QED
      BY <1>1, <3>2, <3>3
  <2>3. AskedRight(r, wrote, wrote)
    BY <1>3, <2>2 DEF AskedRight
  <2> QED
    BY <1>4, <2>1, <2>3 DEF r
<1>5. CASE Head(tt).type # "WRITE"
  <2>1. NoneOf(r, {"WRITE"}) => NoneOf(tt, {"WRITE"})
    BY <1>2, <1>5 DEF NoneOf
  <2>2. \A i \in DOMAIN r : r[i].type = "WRITE" => WriteRight(r[i], wrote, e)
    BY <1>1, Zenon DEF AskedRight
  <2>3. AskedRight(r, wrote, e)
    BY <1>3, <2>1, <2>2, Zenon DEF AskedRight
  <2> QED
    BY <1>5, <2>3 DEF r
<1> QED
  BY <1>4, <1>5

LEMMA AskedMore ==
  ASSUME NEW tt \in Seq(Request), NEW wrote \in Nat, NEW e \in Nat,
         AskedRight(tt, wrote, e), NEW q \in Request
  PROVE  /\ q.type # "WRITE" => AskedRight(Append(tt, q), wrote, e)
         /\ \A k \in Nat :
              /\ q.type = "WRITE" /\ NoneOf(tt, {"WRITE"}) /\ Len(q.data) = k
              /\ \A j \in DOMAIN q.data : q.data[j] = wrote + j
              => AskedRight(Append(tt, q), wrote + k, e)
<1> DEFINE r == Append(tt, q)
<1>1. \A i \in DOMAIN r : \/ i \in DOMAIN tt /\ r[i] = tt[i]
                          \/ i = Len(tt) + 1 /\ r[i] = q
  OBVIOUS
<1>2. /\ \A i \in DOMAIN tt : i \in DOMAIN r /\ r[i] = tt[i]
      /\ Len(tt) + 1 \in DOMAIN r /\ r[Len(tt) + 1] = q
  OBVIOUS
<1> HIDE DEF r
<1>3. ASSUME q.type # "WRITE"
      PROVE  AskedRight(r, wrote, e)
  <2>1. \A i \in DOMAIN r : r[i].type = "WRITE" => i \in DOMAIN tt /\ r[i] = tt[i]
    BY <1>1, <1>3
  <2>2. NoneOf(r, {"WRITE"}) => NoneOf(tt, {"WRITE"})
    BY <1>2 DEF NoneOf
  <2>3. \A i, j \in DOMAIN r : r[i].type = "WRITE" /\ r[j].type = "WRITE" => i = j
    BY <2>1, Zenon DEF AskedRight
  <2>4. \A i \in DOMAIN r : r[i].type = "WRITE" => WriteRight(r[i], wrote, e)
    BY <2>1, Zenon DEF AskedRight
  <2> QED
    BY <2>2, <2>3, <2>4, Zenon DEF AskedRight
<1>4. ASSUME NEW k \in Nat, q.type = "WRITE", NoneOf(tt, {"WRITE"}), Len(q.data) = k,
             \A j \in DOMAIN q.data : q.data[j] = wrote + j
      PROVE  AskedRight(r, wrote + k, e)
  <2>1. \A i \in DOMAIN r : r[i].type = "WRITE" => i = Len(tt) + 1 /\ r[i] = q
    BY <1>1, <1>4 DEF NoneOf
  <2>2. e = wrote
    BY <1>4 DEF AskedRight
  <2>3. ~NoneOf(r, {"WRITE"})
    BY <1>2, <1>4 DEF NoneOf
  <2> QED
    BY <1>4, <2>1, <2>2, <2>3 DEF AskedRight, WriteRight
<1> QED
  BY <1>3, <1>4 DEF r

-----------------------------------------------------------------------------
(* The segments.                                                           *)
\* Segments that are among others, none of them twice unless the network may
\* double segments.
LEMMA SegmentsKept ==
  ASSUME NEW s \in Seq(Packet), NEW r \in Seq(Packet), NEW m, SegmentsRight(s),
         \A i \in DOMAIN r : r[i].data # <<>> => m[i] \in DOMAIN s /\ r[i] = s[m[i]],
         \A i, j \in DOMAIN r :
           r[i].data # <<>> /\ r[j].data # <<>> /\ m[i] = m[j] =>
             i = j \/ "duplicate" \in Faults
  PROVE  /\ SegmentsRight(r) /\ Carried(r) \subseteq Carried(s)
         /\ \A X, n : ReaderRight(s, X, n) => ReaderRight(r, X, n)
<1>1. \A i \in DOMAIN r : DataRight(r[i])
  <2> TAKE i \in DOMAIN r
  <2>1. CASE r[i].data = <<>>
    BY <2>1 DEF DataRight
  <2>2. CASE r[i].data # <<>>
    BY <2>2, Zenon DEF SegmentsRight
  <2> QED
    BY <2>1, <2>2
<1>2. \A i, j \in DOMAIN r : PairRight(r[i], r[j], i = j)
  <2> SUFFICES ASSUME NEW i \in DOMAIN r, NEW j \in DOMAIN r,
                      r[i].data # <<>>, r[j].data # <<>>
               PROVE  PairRight(r[i], r[j], i = j)
    BY Zenon DEF PairRight
  <2>1. /\ m[i] \in DOMAIN s /\ m[j] \in DOMAIN s
        /\ r[i] = s[m[i]] /\ r[j] = s[m[j]]
    OBVIOUS
  <2>2. PairRight(r[i], r[j], m[i] = m[j])
    BY <2>1, Zenon DEF SegmentsRight
  <2> QED
    BY <2>2, Zenon DEF PairRight
<1>3. Carried(r) \subseteq Carried(s)
  <2> SUFFICES ASSUME NEW x \in Nat, NEW i \in DOMAIN r, x \in BytesOf(r[i].data)
               PROVE  x \in Carried(s)
    BY Zenon DEF Carried
  <2>1. r[i].data # <<>>
    BY DEF BytesOf
  <2>2. m[i] \in DOMAIN s /\ x \in BytesOf(s[m[i]].data)
    BY <2>1
  <2> QED
    BY <2>2, Zenon DEF Carried
<1>4. ASSUME NEW X, NEW n, ReaderRight(s, X, n)
      PROVE  ReaderRight(r, X, n)
  <2> SUFFICES ASSUME NEW i \in DOMAIN r, r[i].data # <<>>
               PROVE  Later(X, r[i], n)
    BY Zenon DEF ReaderRight, Later
  <2> QED
    BY <1>4, Zenon DEF ReaderRight
<1> QED
  BY <1>1, <1>2, <1>3, <1>4, Zenon DEF SegmentsRight

\* r holds no more than s does.
Among(r, s) ==
  /\ SegmentsRight(r) /\ Carried(r) \subseteq Carried(s)
  /\ \A X, n : ReaderRight(s, X, n) => ReaderRight(r, X, n)

LEMMA SegmentsMoved ==
  ASSUME NEW s \in Seq(Packet), SegmentsRight(s)
  PROVE  /\ \A out \in Seq(Packet) :
              (\A i \in DOMAIN out : out[i].data = <<>>) => Among(s \o out, s)
         /\ s # <<>> => /\ Among(Tail(s), s)
                        /\ Among(Append(Tail(s), Head(s)), s)
                        /\ "duplicate" \in Faults => Among(Append(s, Head(s)), s)
<1>1. ASSUME NEW out \in Seq(Packet), \A i \in DOMAIN out : out[i].data = <<>>
      PROVE  Among(s \o out, s)
  <2> DEFINE r == s \o out
             m == [i \in DOMAIN r |-> i]
  <2>1. r \in Seq(Packet)
    OBVIOUS
  <2>2. \A i \in DOMAIN r : \/ i \in DOMAIN s /\ r[i] = s[i]
                            \/ i - Len(s) \in DOMAIN out /\ r[i] = out[i - Len(s)]
    OBVIOUS
  <2>3. \A i \in DOMAIN r : m[i] = i
    OBVIOUS
  <2> HIDE DEF r, m
  <2>4. \A i \in DOMAIN r : r[i].data # <<>> => m[i] \in DOMAIN s /\ r[i] = s[m[i]]
    BY <1>1, <2>2, <2>3
  <2>5. \A i, j \in DOMAIN r : m[i] = m[j] => i = j
    BY <2>3
  <2>6. Among(r, s)
    <3>1. \A i, j \in DOMAIN r :
            r[i].data # <<>> /\ r[j].data # <<>> /\ m[i] = m[j] =>
              i = j \/ "duplicate" \in Faults
      BY <2>5
    <3>2. /\ SegmentsRight(r) /\ Carried(r) \subseteq Carried(s)
          /\ \A X, n : ReaderRight(s, X, n) => ReaderRight(r, X, n)
      BY <2>1, <2>4, <3>1, SegmentsKept, Zenon
    <3> QED
      BY <3>2 DEF Among
  <2> QED
    BY <2>6 DEF r
<1>2. ASSUME s # <<>>
      PROVE  Among(Tail(s), s)
  <2> DEFINE r == Tail(s)
             m == [i \in DOMAIN r |-> i + 1]
  <2>1. r \in Seq(Packet)
    BY <1>2
  <2>2. \A i \in DOMAIN r : i + 1 \in DOMAIN s /\ r[i] = s[i + 1] /\ i \in Nat
    BY <1>2
  <2>3. \A i \in DOMAIN r : m[i] = i + 1
    OBVIOUS
  <2> HIDE DEF r, m
  <2>4. \A i \in DOMAIN r : r[i].data # <<>> => m[i] \in DOMAIN s /\ r[i] = s[m[i]]
    BY <2>2, <2>3
  <2>5. \A i, j \in DOMAIN r : m[i] = m[j] => i = j
    BY <2>2, <2>3
  <2>6. Among(r, s)
    BY <2>1, <2>4, <2>5, SegmentsKept, ZenonT(60) DEF Among
  <2> QED
    BY <2>6 DEF r
<1>3. ASSUME s # <<>>
      PROVE  Among(Append(Tail(s), Head(s)), s)
  <2> DEFINE r == Append(Tail(s), Head(s))
             m == [i \in DOMAIN r |-> IF i = Len(s) THEN 1 ELSE i + 1]
  <2>1. r \in Seq(Packet) /\ Len(r) = Len(s) /\ DOMAIN r = 1..Len(s) /\ DOMAIN s = 1..Len(s)
    BY <1>3
  <2>2. \A i \in DOMAIN r : r[i] = IF i = Len(s) THEN s[1] ELSE s[i + 1]
    BY <1>3
  <2>3. \A i \in DOMAIN r : m[i] = IF i = Len(s) THEN 1 ELSE i + 1
    OBVIOUS
  <2> HIDE DEF r, m
  <2>4. \A i \in DOMAIN r : m[i] \in DOMAIN s
    BY <2>1, <2>3
  <2>5. \A i \in DOMAIN r : r[i] = s[m[i]]
    BY <2>2, <2>3
  <2>6. \A i, j \in DOMAIN r : m[i] = m[j] => i = j
    BY <2>1, <2>3
  <2>7. Among(r, s)
    BY <2>1, <2>4, <2>5, <2>6, SegmentsKept, ZenonT(60) DEF Among
  <2> QED
    BY <2>7 DEF r
<1>4. ASSUME s # <<>>, "duplicate" \in Faults
      PROVE  Among(Append(s, Head(s)), s)
  <2> DEFINE r == Append(s, Head(s))
             m == [i \in DOMAIN r |-> IF i = Len(s) + 1 THEN 1 ELSE i]
  <2>1. r \in Seq(Packet) /\ DOMAIN r = 1..(Len(s) + 1) /\ DOMAIN s = 1..Len(s) /\ 1 \in DOMAIN s
    BY <1>4
  <2>2. \A i \in DOMAIN r : r[i] = IF i = Len(s) + 1 THEN s[1] ELSE s[i]
    BY <1>4
  <2>3. \A i \in DOMAIN r : m[i] = IF i = Len(s) + 1 THEN 1 ELSE i
    OBVIOUS
  <2> HIDE DEF r, m
  <2>4. \A i \in DOMAIN r : m[i] \in DOMAIN s
    BY <2>1, <2>3
  <2>5. \A i \in DOMAIN r : r[i] = s[m[i]]
    BY <2>2, <2>3
  <2>6. Among(r, s)
    BY <1>4, <2>1, <2>4, <2>5, SegmentsKept, Zenon DEF Among
  <2> QED
    BY <2>6 DEF r
<1> QED
  BY <1>1, <1>2, <1>3, <1>4

\* A byte of a segment is carried.
LEMMA InCarried ==
  ASSUME NEW s \in Seq(Packet), NEW i \in DOMAIN s, NEW x \in BytesOf(s[i].data)
  PROVE  x \in Carried(s) /\ x \in Nat
<1>1. s[i].data \in Seq(Nat)
  <2>1. s[i] \in Packet
    OBVIOUS
  <2> QED
    BY <2>1 DEF Packet
<1>2. x \in Nat
  BY <1>1, BytesFacts, Zenon
<1> QED
  BY <1>2, Zenon DEF Carried

-----------------------------------------------------------------------------
(* What each kind of step does to a direction.                             *)
LEMMA DirectionNet ==
  ASSUME NEW t, NEW tt, NEW wrote, NEW s, NEW n, NEW got, NEW ts, NEW buf,
         Direction(t, tt, wrote, s, n, got, ts, buf), NEW r, Among(r, s)
  PROVE  Direction(t, tt, wrote, r, n, got, ts, buf)
BY Zenon DEF Direction, Among

\* The writer's record changes, and it may have taken a request that is no WRITE,
\* or that it ignores.
LEMMA DirectionWriter ==
  ASSUME NEW t \in Record, NEW tt \in Seq(Request), NEW wrote \in Nat, NEW s, NEW n,
         NEW got, NEW ts, NEW buf,
         Direction(t, tt, wrote, s, n, got, ts, buf),
         NEW t2 \in Record, NEW tt2, t2.sendBuf = t.sendBuf, Unacked(t2) \in Nat,
         t2.state = "ESTABLISHED" =>
           t2.sendBuf = <<>> \/ (t.state = "ESTABLISHED" /\ Unacked(t2) = Unacked(t)),
         t2.state \in {"LISTEN", "SYN_SENT", "SYN_RCVD"} => t2.sendBuf = <<>>,
         \/ tt2 = tt
         \/ /\ tt # <<>> /\ tt2 = Tail(tt)
            /\ Head(tt).type = "WRITE" => t2.state # "ESTABLISHED"
  PROVE  Direction(t2, tt2, wrote, s, n, got, ts, buf)
<1> DEFINE X == Carried(s) \cup Held(got, ts, buf)
<1>1. PICK e \in Nat : /\ AskedRight(tt, wrote, e) /\ BufferRight(t, e)
                       /\ \A x \in X : Gone(x, t, e)
  BY DEF Direction
<1>2. X \subseteq Nat
  BY DEF Carried, Held
<1> HIDE DEF X
<1>3. PICK e2 \in Nat : /\ AskedRight(tt2, wrote, e2) /\ e <= e2
                        /\ t2.state = "ESTABLISHED" => e2 = e
  <2>1. CASE tt2 = tt
    BY <1>1, <2>1
  <2>2. CASE tt # <<>> /\ tt2 = Tail(tt) /\ Head(tt).type # "WRITE"
    <3>1. AskedRight(tt2, wrote, e)
      BY <1>1, <2>2, AskedTail
    <3> QED
      BY <3>1
  <2>3. CASE tt # <<>> /\ tt2 = Tail(tt) /\ Head(tt).type = "WRITE"
    <3>1. AskedRight(tt2, wrote, wrote) /\ WriteRight(Head(tt), wrote, e)
      BY <1>1, <2>3, AskedTail
    <3>2. Head(tt) \in Request
      BY <2>3
    <3>3. Len(Head(tt).data) \in Nat
      BY <3>2 DEF Request
    <3>4. e <= wrote /\ t2.state # "ESTABLISHED"
      BY <2>3, <3>1, <3>3 DEF WriteRight
    <3> QED
      BY <3>1, <3>4
  <2> QED
    BY <2>1, <2>2, <2>3
<1>4. BufferRight(t2, e2)
  <2>1. CASE t2.sendBuf = <<>>
    BY <2>1 DEF BufferRight
  <2>2. CASE t2.sendBuf # <<>>
    BY <1>1, <1>3, <2>2 DEF BufferRight
  <2> QED
    BY <2>1, <2>2
<1>5. ASSUME NEW x \in X
      PROVE  Gone(x, t2, e2)
  <2>1. x \in Nat /\ x <= e /\ Gone(x, t, e) /\ x <= e2
    BY <1>1, <1>2, <1>3, <1>5 DEF Gone
  <2>2. CASE t2.sendBuf = <<>>
    <3>1. ~(Len(t2.sendBuf) > Unacked(t2))
      BY <2>2
    <3> QED
      BY <2>1, <3>1 DEF Gone
  <2>3. CASE t2.sendBuf # <<>>
    BY <1>3, <2>1, <2>3 DEF Gone
  <2> QED
    BY <2>2, <2>3
<1> QED
  BY <1>3, <1>4, <1>5 DEF Direction, X

\* What was acknowledged leaves the send buffer.
LEMMA DirectionAcked ==
  ASSUME NEW t \in Record, NEW tt, NEW wrote, NEW s, NEW n, NEW got, NEW ts, NEW buf,
         Direction(t, tt, wrote, s, n, got, ts, buf),
         NEW t2 \in Record, NEW k \in Nat,
         t.state = "ESTABLISHED", t2.state = "ESTABLISHED",
         t2.sendBuf = EraseFront(t.sendBuf, k),
         Unacked(t) \in Nat, Unacked(t2) \in Nat, Unacked(t2) = Unacked(t) - k
  PROVE  Direction(t2, tt, wrote, s, n, got, ts, buf)
<1> DEFINE X == Carried(s) \cup Held(got, ts, buf)
           b == t.sendBuf
           c == t2.sendBuf
           u == Unacked(t)
           u2 == Unacked(t2)
           m == MinOf(k, Len(b))
<1>1. PICK e \in Nat : /\ AskedRight(tt, wrote, e) /\ BufferRight(t, e)
                       /\ \A x \in X : Gone(x, t, e)
  BY DEF Direction
<1>2. X \subseteq Nat
  BY DEF Carried, Held
<1>3. b \in Seq(Nat) /\ c \in Seq(Nat) /\ Len(b) \in Nat /\ Len(c) \in Nat
  BY DEF Record
<1>4. /\ m \in Nat /\ m <= Len(b) /\ m <= k /\ (m = k \/ c = <<>>)
      /\ Len(c) = Len(b) - m
      /\ \A i \in DOMAIN c : i + m \in DOMAIN b /\ c[i] = b[i + m]
  <2>1. c = EraseFront(b, k)
    OBVIOUS
  <2> HIDE DEF b, c
  <2> QED
    BY <1>3, <2>1, EraseFacts, ZenonT(60)
<1>5. /\ \A i \in DOMAIN b : i > u => b[i] + Len(b) = e + i
      /\ \A x \in X : x <= e /\ (Len(b) > u => x + Len(b) <= e + u)
  BY <1>1 DEF BufferRight, Gone
<1>51. u \in Nat /\ u2 = u - k
  OBVIOUS
<1> HIDE DEF X, m, b, c, u, u2
<1>6. \A i \in DOMAIN c : i > u2 => c[i] + Len(c) = e + i
  <2> SUFFICES ASSUME NEW i \in DOMAIN c, i > u2
               PROVE  c[i] + Len(c) = e + i
    OBVIOUS
  <2>1. m = k /\ i \in Nat
    BY <1>3, <1>4
  <2>2. i + m \in DOMAIN b /\ c[i] = b[i + m] /\ i + m > u
    BY <1>4, <1>51, <2>1
  <2>3. b[i + m] + Len(b) = e + (i + m)
    BY <1>5, <2>2
  <2>4. b[i + m] \in Nat
    BY <1>3, <2>2
  <2>5. /\ i \in Nat /\ m \in Nat /\ Len(b) \in Nat /\ Len(c) = Len(b) - m
        /\ c[i] \in Nat /\ c[i] + Len(b) = e + (i + m)
    BY <1>3, <1>4, <2>1, <2>2, <2>3, <2>4
  <2>6. ShiftsBack(c[i], Len(b), m, e, i)
    BY <2>5, ShiftBack, Zenon
  <2> QED
    BY <2>5, <2>6, Zenon DEF ShiftsBack
<1>7. BufferRight(t2, e)
  BY <1>6 DEF BufferRight, c, u2
<1>8. ASSUME NEW x \in X
      PROVE  Gone(x, t2, e)
  <2>1. x \in Nat /\ x <= e /\ (Len(b) > u => x + Len(b) <= e + u)
    BY <1>2, <1>5, <1>8
  <2>2. ASSUME Len(c) > u2 PROVE x + Len(c) <= e + u2
    <3>1. m = k
      <4>1. c # <<>>
        BY <1>51, <2>2 DEF u2
      <4> QED
        BY <1>4, <4>1
    <3>2. Len(b) > u
      BY <1>3, <1>4, <1>51, <2>2, <3>1
    <3> QED
      BY <1>3, <1>4, <1>51, <2>1, <3>1, <3>2
  <2> QED
    BY <2>1, <2>2 DEF Gone, c, u2
<1> QED
  BY <1>1, <1>7, <1>8 DEF Direction, X

\* A WRITE is taken.
LEMMA DirectionWrites ==
  ASSUME NEW t \in Record, NEW tt \in Seq(Request), NEW wrote \in Nat, NEW s, NEW n,
         NEW got, NEW ts, NEW buf,
         Direction(t, tt, wrote, s, n, got, ts, buf),
         NEW t2 \in Record, tt # <<>>, Head(tt).type = "WRITE",
         t.state = "ESTABLISHED", t2.state = "ESTABLISHED",
         t2.sendBuf = t.sendBuf \o Head(tt).data,
         Unacked(t) \in Nat, Unacked(t2) = Unacked(t)
  PROVE  Direction(t2, Tail(tt), wrote, s, n, got, ts, buf)
<1> DEFINE X == Carried(s) \cup Held(got, ts, buf)
           b == t.sendBuf
           c == t2.sendBuf
           d == Head(tt).data
           u == Unacked(t)
<1>1. PICK e \in Nat : /\ AskedRight(tt, wrote, e) /\ BufferRight(t, e)
                       /\ \A x \in X : Gone(x, t, e)
  BY DEF Direction
<1>2. X \subseteq Nat
  BY DEF Carried, Held
<1>3. b \in Seq(Nat) /\ Len(b) \in Nat
  BY DEF Record
<1>4. d \in Seq(Nat) /\ Len(d) \in Nat
  <2>1. Head(tt) \in Request
    OBVIOUS
  <2> QED
    BY <2>1 DEF Request
<1>5. /\ AskedRight(Tail(tt), wrote, wrote)
      /\ wrote = e + Len(d) /\ \A j \in DOMAIN d : d[j] = e + j
  BY <1>1, AskedTail DEF WriteRight
<1>6. /\ \A i \in DOMAIN b : i > u => b[i] + Len(b) = e + i
      /\ \A x \in X : x <= e /\ (Len(b) > u => x + Len(b) <= e + u)
  BY <1>1 DEF BufferRight, Gone
<1> HIDE DEF X, b, d, u
<1>7. /\ c \in Seq(Nat) /\ Len(c) = Len(b) + Len(d)
      /\ \A i \in DOMAIN c : \/ i \in DOMAIN b /\ c[i] = b[i]
                             \/ i - Len(b) \in DOMAIN d /\ c[i] = d[i - Len(b)]
  <2>1. c = b \o d
    BY DEF b, d
  <2> HIDE DEF c
  <2> QED
    BY <1>3, <1>4, <2>1, JoinFacts
<1> HIDE DEF c
<1>8. \A i \in DOMAIN c : i > u => c[i] + Len(c) = wrote + i
  <2> SUFFICES ASSUME NEW i \in DOMAIN c, i > u
               PROVE  c[i] + Len(c) = wrote + i
    OBVIOUS
  <2>0. i \in Nat /\ c[i] \in Nat
    BY <1>7
  <2>00. /\ Len(b) \in Nat /\ Len(d) \in Nat
         /\ Len(c) = Len(b) + Len(d) /\ wrote = e + Len(d)
    BY <1>3, <1>4, <1>5, <1>7
  <2>1. CASE i \in DOMAIN b /\ c[i] = b[i]
    <3>1. c[i] + Len(b) = e + i
      BY <1>6, <2>1
    <3> QED
      BY <2>0, <2>00, <3>1, SMTT(30)
  <2>2. CASE i - Len(b) \in DOMAIN d /\ c[i] = d[i - Len(b)]
    <3>1. c[i] = e + (i - Len(b))
      BY <1>5, <2>2
    <3> QED
      BY <2>0, <2>00, <3>1
  <2> QED
    BY <1>7, <2>1, <2>2
<1>9. BufferRight(t2, wrote)
  BY <1>8 DEF BufferRight, c, u
<1>10. ASSUME NEW x \in X
       PROVE  Gone(x, t2, wrote)
  <2>1. x \in Nat /\ x <= e /\ (Len(b) > u => x + Len(b) <= e + u)
    BY <1>2, <1>6, <1>10
  <2>2. u \in Nat /\ Unacked(t2) = u
    BY DEF u
  <2>3. x + Len(c) <= wrote + u \/ ~(Len(c) > u)
    BY <1>3, <1>4, <1>5, <1>7, <2>1, <2>2
  <2>4. x <= wrote
    BY <1>4, <1>5, <2>1
  <2> QED
    BY <2>2, <2>3, <2>4 DEF Gone, c
<1> QED
  BY <1>5, <1>9, <1>10 DEF Direction, X

\* The application writes, or another request is made.
LEMMA DirectionAsked ==
  ASSUME NEW t, NEW tt \in Seq(Request), NEW wrote \in Nat, NEW s, NEW n,
         NEW got, NEW ts, NEW buf,
         Direction(t, tt, wrote, s, n, got, ts, buf), NEW q \in Request
  PROVE  /\ q.type # "WRITE" => Direction(t, Append(tt, q), wrote, s, n, got, ts, buf)
         /\ \A k \in Nat :
              /\ q.type = "WRITE" /\ NoneOf(tt, {"WRITE"}) /\ Len(q.data) = k
              /\ \A j \in DOMAIN q.data : q.data[j] = wrote + j
              => Direction(t, Append(tt, q), wrote + k, s, n, got, ts, buf)
<1>1. PICK e \in Nat : /\ AskedRight(tt, wrote, e) /\ BufferRight(t, e)
                       /\ \A x \in Carried(s) \cup Held(got, ts, buf) : Gone(x, t, e)
  BY DEF Direction
<1>2. ASSUME q.type # "WRITE"
      PROVE  Direction(t, Append(tt, q), wrote, s, n, got, ts, buf)
  <2>1. AskedRight(Append(tt, q), wrote, e)
    BY <1>1, <1>2, AskedMore
  <2> QED
    BY <1>1, <2>1, Zenon DEF Direction
<1>3. ASSUME NEW k \in Nat, q.type = "WRITE", NoneOf(tt, {"WRITE"}), Len(q.data) = k,
             \A j \in DOMAIN q.data : q.data[j] = wrote + j
      PROVE  Direction(t, Append(tt, q), wrote + k, s, n, got, ts, buf)
  <2>1. AskedRight(Append(tt, q), wrote + k, e)
    BY <1>1, <1>3, AskedMore
  <2> QED
    BY <1>1, <2>1, Zenon DEF Direction
<1> QED
  BY <1>2, <1>3

\* The send loop sends what comes next.
LEMMA DirectionSends ==
  ASSUME NEW t \in Record, NEW tt, NEW wrote, NEW s \in Seq(Packet), NEW n \in Nat,
         NEW got, NEW ts, NEW buf,
         Direction(t, tt, wrote, s, n, got, ts, buf),
         NEW t2 \in Record, NEW p \in Packet, NEW k \in Nat, k <= MSS,
         t.state = "ESTABLISHED", t2.state = "ESTABLISHED",
         Unacked(t) \in Nat, Unacked(t) <= Len(t.sendBuf),
         p.flags = {"ACK"}, p.data = Extracted(t.sendBuf, Unacked(t), k),
         \A i \in DOMAIN s : s[i].data # <<>> => s[i].seq < p.seq,
         t2.sendBuf = AfterExtract(t.sendBuf, Unacked(t), k),
         Unacked(t2) = Unacked(t) + Len(p.data)
  PROVE  Direction(t2, tt, wrote, Append(s, p), n, got, ts, buf)
<1> DEFINE H == Held(got, ts, buf)
           X == Carried(s) \cup H
           b == t.sendBuf
           c == t2.sendBuf
           d == p.data
           u == Unacked(t)
           r == Append(s, p)
<1>1. PICK e \in Nat : /\ AskedRight(tt, wrote, e) /\ BufferRight(t, e)
                       /\ \A x \in X : Gone(x, t, e)
  BY DEF Direction
<1>2. X \subseteq Nat /\ SegmentsRight(s) /\ ReaderRight(s, H, n) /\ H \subseteq X
  BY DEF Carried, Held, Direction
<1>3. b \in Seq(Nat) /\ c \in Seq(Nat) /\ Len(b) \in Nat /\ Len(c) \in Nat
  BY DEF Record
<1>4. /\ d \in Seq(Nat) /\ Len(d) \in Nat /\ Len(d) <= k /\ Len(c) = Len(b) - Len(d)
      /\ \A i \in DOMAIN d : i + u \in DOMAIN b /\ d[i] = b[i + u]
      /\ \A i \in DOMAIN c : i > u => i + Len(d) \in DOMAIN b /\ c[i] = b[i + Len(d)]
  <2>1. d = Extracted(b, u, k) /\ c = AfterExtract(b, u, k) /\ u \in Nat /\ u <= Len(b)
    OBVIOUS
  <2> HIDE DEF b, c, d, u
  <2>2. d \in Seq(Nat)
    BY <1>3, <2>1, ExtractFacts
  <2> QED
    BY <1>3, <2>1, <2>2, ExtractFacts
<1>5. /\ \A i \in DOMAIN b : i > u => b[i] + Len(b) = e + i
      /\ \A x \in X : x <= e /\ (Len(b) > u => x + Len(b) <= e + u)
  BY <1>1 DEF BufferRight, Gone
<1>6. u \in Nat /\ u <= Len(b) /\ Unacked(t2) = u + Len(d) /\ MSS \in Nat
  BY MSSAssumption
<1>7. /\ r \in Seq(Packet)
      /\ \A i \in DOMAIN r : \/ i \in DOMAIN s /\ r[i] = s[i]
                             \/ i = Len(s) + 1 /\ r[i] = p
      /\ Len(s) + 1 \notin DOMAIN s
  OBVIOUS
<1> HIDE DEF X, b, c, d, u, r, H
<1>8. \A i \in DOMAIN d : d[i] \in Nat /\ i \in Nat /\ i >= 1 /\ i <= Len(d)
  BY <1>4
<1>9. \A i \in DOMAIN d : i + u <= Len(b) /\ d[i] + Len(b) = e + (i + u)
  <2> TAKE i \in DOMAIN d
  <2>1. i + u \in DOMAIN b /\ d[i] = b[i + u] /\ i + u > u
    BY <1>4, <1>6, <1>8
  <2>2. b[i + u] + Len(b) = e + (i + u)
    BY <1>5, <2>1
  <2>3. i + u <= Len(b)
    BY <1>3, <2>1
  <2> QED
    BY <2>1, <2>2, <2>3
<1>10. \A x \in X : \A y \in BytesOf(d) : x < y
  <2> SUFFICES ASSUME NEW x \in X, NEW i \in DOMAIN d
               PROVE  x < d[i]
    BY DEF BytesOf
  <2>1. i + u <= Len(b) /\ d[i] + Len(b) = e + (i + u) /\ d[i] \in Nat /\ i \in Nat /\ i >= 1
    BY <1>8, <1>9
  <2>2. x \in Nat /\ (Len(b) > u => x + Len(b) <= e + u)
    BY <1>2, <1>5
  <2>3. Len(b) \in Nat
    BY <1>3
  <2> QED
    BY <1>6, <2>1, <2>2, <2>3, Z3
<1>11. DataRight(p)
  <2>1. Len(p.data) <= MSS
    BY <1>4, <1>6 DEF d
  <2>2. ASSUME NEW i \in DOMAIN d PROVE d[i] + 1 = d[1] + i
    <3>1. 1 \in DOMAIN d
      BY <1>4, <1>8, <2>2
    <3>2. /\ d[i] + Len(b) = e + (i + u) /\ d[1] + Len(b) = e + (1 + u)
          /\ d[i] \in Nat /\ d[1] \in Nat /\ i \in Nat
      BY <1>8, <1>9, <2>2, <3>1
    <3>3. NextToIt(d[i], d[1], Len(b), e, i, u)
      BY <1>3, <1>6, <3>2, InARow, Zenon
    <3> QED
      BY <3>2, <3>3, Zenon DEF NextToIt
  <2> QED
    BY <2>1, <2>2 DEF DataRight, d
<1>12. SegmentsRight(r)
  <2>1. \A i \in DOMAIN r : DataRight(r[i])
    BY <1>2, <1>7, <1>11 DEF SegmentsRight
  <2>2. ASSUME NEW i \in DOMAIN r, NEW j \in DOMAIN r PROVE PairRight(r[i], r[j], i = j)
    <3>1. CASE i \in DOMAIN s /\ r[i] = s[i] /\ j \in DOMAIN s /\ r[j] = s[j]
      BY <1>2, <3>1 DEF SegmentsRight
    <3>2. CASE i = Len(s) + 1 /\ r[i] = p /\ j = Len(s) + 1 /\ r[j] = p
      <4>1. p.seq \in Nat
        BY DEF Packet
      <4> QED
        BY <3>2, <4>1 DEF PairRight
    <3>3. CASE i \in DOMAIN s /\ r[i] = s[i] /\ j = Len(s) + 1 /\ r[j] = p
      <4> SUFFICES ASSUME s[i].data # <<>>
                   PROVE  PairRight(s[i], p, i = j)
        BY <3>3 DEF PairRight
      <4>0. s[i] \in Packet
        BY <3>3
      <4>1. s[i].seq < p.seq /\ s[i].seq \in Nat /\ p.seq \in Nat
        BY <3>3, <4>0 DEF Packet
      <4>2. \A a \in BytesOf(s[i].data), y \in BytesOf(p.data) : a < y
        <5> TAKE a \in BytesOf(s[i].data), y \in BytesOf(p.data)
        <5>1. a \in Carried(s)
          BY <3>3, InCarried, Zenon
        <5> QED
          BY <1>10, <5>1 DEF d, X
      <4> QED
        BY <4>1, <4>2 DEF PairRight
    <3>4. CASE j \in DOMAIN s /\ r[j] = s[j] /\ i = Len(s) + 1 /\ r[i] = p
      <4>0. s[j] \in Packet
        BY <3>4
      <4>1. s[j].data # <<>> => s[j].seq < p.seq /\ s[j].seq \in Nat /\ p.seq \in Nat
        BY <3>4, <4>0 DEF Packet
      <4> QED
        BY <3>4, <4>1 DEF PairRight
    <3> QED
      BY <1>7, <3>1, <3>2, <3>3, <3>4
  <2> QED
    BY <2>1, <2>2 DEF SegmentsRight
<1>13. ReaderRight(r, H, n)
  <2> SUFFICES ASSUME NEW i \in DOMAIN r PROVE Later(H, r[i], n)
    BY DEF ReaderRight
  <2>1. CASE i \in DOMAIN s /\ r[i] = s[i]
    BY <1>2, <2>1 DEF ReaderRight
  <2>2. CASE r[i] = p
    <3>1. \A x \in H, y \in BytesOf(d) : x \in Nat /\ y \in Nat /\ x < y
      BY <1>2, <1>4, <1>10, BytesFacts
    <3>2. \A x \in H, y \in BytesOf(d) : x < y + Slack
      BY <3>1, SlackFacts
    <3> QED
      BY <2>2, <3>2 DEF Later, d
  <2> QED
    BY <1>7, <2>1, <2>2
<1>14. BufferRight(t2, e)
  <2> SUFFICES ASSUME NEW i \in DOMAIN c, i > u + Len(d)
               PROVE  c[i] + Len(c) = e + i
    BY <1>6 DEF BufferRight, c
  <2>0. Len(d) \in Nat
    BY <1>4
  <2>1. i \in Nat /\ i > u
    <3>1. i \in Nat
      BY <1>3
    <3> QED
      BY <1>6, <2>0, <3>1, Z3
  <2>2. i + Len(d) \in DOMAIN b /\ c[i] = b[i + Len(d)]
    BY <1>4, <2>1
  <2>3. b[i + Len(d)] \in Nat
    BY <1>3, <2>2
  <2>4. i + Len(d) > u
    BY <1>6, <2>0, <2>1, Z3
  <2>5. b[i + Len(d)] + Len(b) = e + (i + Len(d))
    BY <1>5, <2>2, <2>4
  <2>6. /\ Len(b) \in Nat /\ Len(c) = Len(b) - Len(d)
        /\ c[i] \in Nat /\ c[i] + Len(b) = e + (i + Len(d))
    BY <1>3, <1>4, <2>2, <2>3, <2>5
  <2>7. ShiftsBack(c[i], Len(b), Len(d), e, i)
    BY <2>0, <2>1, <2>6, ShiftBack, Zenon
  <2> QED
    BY <2>6, <2>7, Zenon DEF ShiftsBack
<1>15. ASSUME NEW x \in Carried(r) \cup H
       PROVE  Gone(x, t2, e)
  <2>0. /\ Len(b) \in Nat /\ Len(c) \in Nat /\ Len(d) \in Nat /\ Len(c) = Len(b) - Len(d)
        /\ Unacked(t2) = u + Len(d) /\ u \in Nat
    BY <1>3, <1>4, <1>6
  <2>1. x \in X \/ \E i \in DOMAIN d : x = d[i]
    <3>1. CASE x \in H
      BY <1>2, <3>1
    <3>2. CASE x \in Carried(r)
      <4>1. PICK i \in DOMAIN r : x \in Nat /\ x \in BytesOf(r[i].data)
        BY <3>2 DEF Carried
      <4>2. CASE i \in DOMAIN s /\ r[i] = s[i]
        BY <4>1, <4>2 DEF X, Carried
      <4>3. CASE r[i] = p
        BY <4>1, <4>3 DEF BytesOf, d
      <4> QED
        BY <1>7, <4>2, <4>3
    <3> QED
      BY <1>15, <3>1, <3>2
  <2>2. CASE x \in X
    <3>1. x \in Nat /\ x <= e /\ (Len(b) > u => x + Len(b) <= e + u)
      BY <1>2, <1>5, <2>2
    <3>2. Len(c) > Unacked(t2) => x + Len(c) <= e + Unacked(t2)
      <4>1. PICK v \in Nat, lb \in Nat, lc \in Nat, ld \in Nat, w \in Nat :
              v = x /\ lb = Len(b) /\ lc = Len(c) /\ ld = Len(d) /\ w = u
        BY <2>0, <3>1, Zenon
      <4>2. lc = lb - ld /\ (lb > w => v + lb <= e + w)
        BY <2>0, <3>1, <4>1, Zenon
      <4>3. lc > w + ld => v + lc <= e + (w + ld)
        BY <4>2
      <4> QED
        BY <2>0, <4>1, <4>3, Zenon
    <3> QED
      BY <3>1, <3>2 DEF Gone, c
  <2>3. CASE \E i \in DOMAIN d : x = d[i]
    <3>1. PICK i \in DOMAIN d : x = d[i]
      BY <2>3
    <3>2. /\ x + Len(b) = e + (i + u) /\ i + u <= Len(b) /\ x \in Nat
          /\ i \in Nat /\ i <= Len(d)
      BY <1>8, <1>9, <3>1
    <3>3. x <= e /\ x + Len(c) <= e + Unacked(t2)
      <4>1. PICK v \in Nat, k1 \in Nat, lb \in Nat, lc \in Nat, ld \in Nat, w \in Nat :
              /\ v = x /\ k1 = i
              /\ lb = Len(b) /\ lc = Len(c) /\ ld = Len(d) /\ w = u
        BY <2>0, <3>2, Zenon
      <4>2. /\ lc = lb - ld /\ v + lb = e + (k1 + w)
            /\ k1 + w <= lb /\ k1 <= ld
        BY <2>0, <3>2, <4>1, Zenon
      <4>3. v <= e /\ v + lc <= e + (w + ld)
        BY <4>2
      <4> QED
        BY <2>0, <4>1, <4>3, Zenon
    <3> QED
      BY <3>3 DEF Gone, c
  <2> QED
    BY <2>1, <2>2, <2>3
<1>16. AskedRight(tt, wrote, e) /\ StreamRight(got, ts, buf) /\ Fresh1(got)
  BY <1>1 DEF Direction
<1> QED
  BY <1>12, <1>13, <1>14, <1>15, <1>16 DEF Direction, H, r

-----------------------------------------------------------------------------
(* The reader's side of a direction.                                       *)
LEMMA DirectionReader ==
  ASSUME NEW t, NEW tt, NEW wrote, NEW s, NEW n, NEW got, NEW ts, NEW buf,
         Direction(t, tt, wrote, s, n, got, ts, buf),
         NEW r, NEW n2, NEW got2, NEW ts2, NEW buf2, Among(r, s),
         Held(got2, ts2, buf2) \subseteq Carried(s) \cup Held(got, ts, buf),
         ReaderRight(r, Held(got2, ts2, buf2), n2),
         StreamRight(got2, ts2, buf2), Fresh1(got2)
  PROVE  Direction(t, tt, wrote, r, n2, got2, ts2, buf2)
<1> DEFINE X  == Carried(s) \cup Held(got, ts, buf)
           X2 == Carried(r) \cup Held(got2, ts2, buf2)
<1>1. PICK e \in Nat : /\ AskedRight(tt, wrote, e) /\ BufferRight(t, e)
                       /\ \A x \in X : Gone(x, t, e)
  BY DEF Direction
<1>2. X2 \subseteq X /\ SegmentsRight(r)
  BY DEF Among
<1>3. \A x \in X2 : Gone(x, t, e)
  BY <1>1, <1>2, Zenon
<1> QED
  BY <1>1, <1>2, <1>3, Zenon DEF Direction

LEMMA AmongItself ==
  ASSUME NEW t, NEW tt, NEW wrote, NEW s, NEW n, NEW got, NEW ts, NEW buf,
         Direction(t, tt, wrote, s, n, got, ts, buf)
  PROVE  /\ Among(s, s) /\ ReaderRight(s, Held(got, ts, buf), n)
         /\ StreamRight(got, ts, buf) /\ Fresh1(got)
BY Zenon DEF Direction, Among

\* The reader counts more bytes as received.
LEMMA DirectionCounts ==
  ASSUME NEW t, NEW tt, NEW wrote, NEW s \in Seq(Packet), NEW n \in Nat,
         NEW got, NEW ts, NEW buf,
         Direction(t, tt, wrote, s, n, got, ts, buf), NEW n2 \in Nat, n <= n2
  PROVE  Direction(t, tt, wrote, s, n2, got, ts, buf)
<1> DEFINE H == Held(got, ts, buf)
<1>1. /\ Among(s, s) /\ ReaderRight(s, H, n)
      /\ StreamRight(got, ts, buf) /\ Fresh1(got)
  BY AmongItself
<1>2. ReaderRight(s, H, n2)
  <2> HIDE DEF H
  <2> SUFFICES ASSUME NEW i \in DOMAIN s, s[i].data # <<>>, s[i].seq > n2
               PROVE  \A x \in H, d \in BytesOf(s[i].data) : x < d + Slack
    BY DEF ReaderRight, Later
  <2>1. s[i] \in Packet
    OBVIOUS
  <2>2. s[i].seq \in Nat
    BY <2>1 DEF Packet
  <2>3. s[i].seq > n
    BY <2>2
  <2>4. Later(H, s[i], n)
    BY <1>1 DEF ReaderRight
  <2> QED
    BY <2>3, <2>4, Zenon DEF Later
<1> QED
  BY <1>1, <1>2, DirectionReader, Zenon

\* A message more on its way to sock_module.
Joined(got, ts, msgs, buf) ==
  /\ \A x \in Held(got, ts \o msgs, buf) :
       \/ x \in Held(got, ts, buf)
       \/ \E i \in DOMAIN msgs : x \in BytesOf(msgs[i].data)
  /\ ts \o msgs \in Seq(Response)
  /\ \A i \in DOMAIN (ts \o msgs) :
       \/ i \in DOMAIN ts /\ (ts \o msgs)[i] = ts[i]
       \/ /\ i - Len(ts) \in DOMAIN msgs /\ i \notin DOMAIN ts
          /\ (ts \o msgs)[i] = msgs[i - Len(ts)]

LEMMA HeldMore ==
  ASSUME NEW got, NEW ts \in Seq(Response), NEW msgs \in Seq(Response), NEW buf
  PROVE  Joined(got, ts, msgs, buf)
<1> DEFINE r == ts \o msgs
<1>1. /\ r \in Seq(Response)
      /\ \A i \in DOMAIN r : \/ i \in DOMAIN ts /\ r[i] = ts[i]
                             \/ /\ i - Len(ts) \in DOMAIN msgs /\ i \notin DOMAIN ts
                                /\ r[i] = msgs[i - Len(ts)]
  OBVIOUS
<1> HIDE DEF r
<1>2. ASSUME NEW x \in Held(got, r, buf)
      PROVE  \/ x \in Held(got, ts, buf)
             \/ \E i \in DOMAIN msgs : x \in BytesOf(msgs[i].data)
  BY <1>1 DEF Held
<1> QED
  BY <1>1, <1>2 DEF r, Joined

\* Parts of what is in turn are in turn.
LEMMA FollowsFacts ==
  ASSUME NEW c \in Seq(Nat), NEW d \in Seq(Nat)
  PROVE  /\ Follows(c, c)
         /\ \A d2 : BytesOf(d2) \subseteq BytesOf(d) /\ Follows(c, d) => Follows(c, d2)
         /\ \A c2 \in Seq(Nat) : Follows(c, d) /\ Follows(c2, d) => Follows(c \o c2, d)
<1>1. Follows(c, c)
  BY DEF Follows
<1>2. ASSUME NEW d2, BytesOf(d2) \subseteq BytesOf(d), Follows(c, d)
      PROVE  Follows(c, d2)
  BY <1>2 DEF Follows
<1>3. ASSUME NEW c2 \in Seq(Nat), Follows(c, d), Follows(c2, d)
      PROVE  Follows(c \o c2, d)
  <2>1. BytesOf(c \o c2) = BytesOf(c) \cup BytesOf(c2)
    BY BytesFacts
  <2> QED
    BY <1>3, <2>1 DEF Follows
<1> QED
  BY <1>1, <1>2, <1>3

\* tcp_module says nothing, or all that is in the receive buffer.
LEMMA DirectionSays ==
  ASSUME NEW t, NEW tt, NEW wrote, NEW s, NEW n, NEW got, NEW ts \in Seq(Response),
         NEW buf \in Seq(Nat), Direction(t, tt, wrote, s, n, got, ts, buf),
         NEW msgs \in Seq(Response),
         \A i \in DOMAIN msgs : msgs[i].data = <<>> \/ msgs[i].data = buf
  PROVE  Direction(t, tt, wrote, s, n, got, ts \o msgs, buf)
<1> DEFINE r == ts \o msgs
<1>1. /\ Among(s, s) /\ ReaderRight(s, Held(got, ts, buf), n)
      /\ StreamRight(got, ts, buf) /\ Fresh1(got)
  BY AmongItself
<1>2. Joined(got, ts, msgs, buf)
  BY HeldMore
<1>3. /\ \A x \in Held(got, r, buf) :
           \/ x \in Held(got, ts, buf)
           \/ \E i \in DOMAIN msgs : x \in BytesOf(msgs[i].data)
      /\ DOMAIN ts = 1..Len(ts) /\ DOMAIN r = 1..Len(r)
      /\ Len(ts) \in Nat /\ Len(r) \in Nat
      /\ \A i \in DOMAIN r :
           \/ i \in DOMAIN ts /\ r[i] = ts[i]
           \/ i \notin DOMAIN ts /\ (r[i].data = <<>> \/ r[i].data = buf)
  BY <1>2 DEF Joined
<1> HIDE DEF r
<1>4. \A c : /\ InTurn(<<>>) /\ Follows(c, <<>>) /\ Follows(<<>>, c)
  BY DEF InTurn, Follows, BytesOf
<1>5. InTurn(buf) /\ Follows(got, buf) /\ Follows(buf, buf)
  BY <1>1, FollowsFacts DEF StreamRight
<1>6. StreamRight(got, r, buf)
  <2>1. \A i \in DOMAIN r : /\ InTurn(r[i].data) /\ Follows(got, r[i].data)
                            /\ Follows(r[i].data, buf)
    <3> TAKE i \in DOMAIN r
    <3>1. CASE i \in DOMAIN ts /\ r[i] = ts[i]
      BY <1>1, <3>1, Zenon DEF StreamRight
    <3>2. CASE r[i].data = <<>>
      BY <1>4, <3>2, Zenon
    <3>3. CASE r[i].data = buf
      BY <1>5, <3>3, Zenon
    <3> QED
      BY <1>3, <3>1, <3>2, <3>3
  <2>2. ASSUME NEW i \in DOMAIN r, NEW j \in DOMAIN r, i < j
        PROVE  Follows(r[i].data, r[j].data)
    <3>1. CASE r[j].data = buf
      BY <2>1, <3>1, Zenon
    <3>2. CASE r[j].data = <<>>
      BY <1>4, <3>2, Zenon
    <3>3. CASE j \in DOMAIN ts /\ r[j] = ts[j]
      <4>1. i \in DOMAIN ts
        BY <1>3, <2>2, <3>3
      <4>2. r[i] = ts[i]
        BY <1>3, <4>1
      <4> QED
        BY <1>1, <2>2, <3>3, <4>1, <4>2, Zenon DEF StreamRight
    <3> QED
      BY <1>3, <3>1, <3>2, <3>3
  <2> QED
    BY <1>5, <2>1, <2>2, Zenon DEF StreamRight
<1>7. Held(got, r, buf) \subseteq Held(got, ts, buf)
  <2>1. BytesOf(<<>>) = {}
    BY BytesFacts
  <2>2. BytesOf(buf) \subseteq Held(got, ts, buf)
    BY BytesFacts DEF Held
  <2> QED
    BY <1>3, <2>1, <2>2
<1>8. ReaderRight(s, Held(got, r, buf), n)
  BY <1>1, <1>7 DEF ReaderRight, Later
<1>9. Held(got, r, buf) \subseteq Carried(s) \cup Held(got, ts, buf)
  BY <1>7
<1>10. Direction(t, tt, wrote, s, n, got, r, buf)
  BY <1>1, <1>6, <1>8, <1>9, DirectionReader, Zenon
<1> QED
  BY <1>10 DEF r

\* sock_module tells how much it took.
LEMMA DirectionTold ==
  ASSUME NEW t, NEW tt, NEW wrote, NEW s, NEW n, NEW got, NEW ts, NEW buf \in Seq(Nat),
         NEW k \in Nat, Direction(t, tt, wrote, s, n, got, ts, buf)
  PROVE  Direction(t, tt, wrote, s, n, got, ts, EraseFront(buf, k))
<1> DEFINE left == EraseFront(buf, k)
<1>1. /\ Among(s, s) /\ ReaderRight(s, Held(got, ts, buf), n)
      /\ StreamRight(got, ts, buf) /\ Fresh1(got)
  BY AmongItself
<1>2. /\ left \in Seq(Nat)
      /\ \E m \in Nat : \A i \in DOMAIN left : i + m \in DOMAIN buf /\ left[i] = buf[i + m]
  BY EraseFacts
<1> HIDE DEF left
<1>3. BytesOf(left) \subseteq BytesOf(buf)
  BY <1>2 DEF BytesOf
<1>4. InTurn(left)
  <2>1. PICK m \in Nat :
          \A i \in DOMAIN left : i + m \in DOMAIN buf /\ left[i] = buf[i + m]
    BY <1>2
  <2>2. InTurn(buf)
    BY <1>1 DEF StreamRight
  <2> SUFFICES ASSUME NEW i \in DOMAIN left, NEW j \in DOMAIN left, i < j
               PROVE  left[i] < left[j] + Slack
    BY DEF InTurn
  <2>3. i \in Nat /\ j \in Nat
    BY <1>2
  <2>4. i + m < j + m
    BY <2>3
  <2>5. buf[i + m] < buf[j + m] + Slack
    BY <2>1, <2>2, <2>4, Zenon DEF InTurn
  <2> QED
    BY <2>1, <2>5
<1>5. \A c : Follows(c, buf) => Follows(c, left)
  BY <1>3 DEF Follows
<1>6. StreamRight(got, ts, left)
  BY <1>1, <1>4, <1>5, Zenon DEF StreamRight
<1>7. Held(got, ts, left) \subseteq Held(got, ts, buf)
  BY <1>3 DEF Held
<1>8. ReaderRight(s, Held(got, ts, left), n)
  BY <1>1, <1>7 DEF ReaderRight, Later
<1>9. Held(got, ts, left) \subseteq Carried(s) \cup Held(got, ts, buf)
  BY <1>7
<1>10. Direction(t, tt, wrote, s, n, got, ts, left)
  BY <1>1, <1>6, <1>8, <1>9, DirectionReader, Zenon
<1> QED
  BY <1>10 DEF left

\* The segment expected next is taken: its bytes are in turn, and the segments
\* that may still be accepted bring later ones, or these once more.
LEMMA DirectionAccepts ==
  ASSUME NEW t, NEW tt, NEW wrote, NEW s \in Seq(Packet), NEW n \in Nat,
         NEW got \in Seq(Nat), NEW ts \in Seq(Response), NEW buf \in Seq(Nat),
         Direction(t, tt, wrote, s, n, got, ts, buf),
         s # <<>>, Head(s).data # <<>>, Head(s).seq = n + 1, NEW n2 \in Nat, n <= n2
  PROVE  Direction(t, tt, wrote, Tail(s), n2, got, ts, buf \o Head(s).data)
<1> DEFINE p == Head(s)
           d == p.data
           r == Tail(s)
           c == buf \o d
           H == Held(got, ts, buf)
<1>1. /\ Among(s, s) /\ ReaderRight(s, H, n) /\ SegmentsRight(s)
      /\ StreamRight(got, ts, buf) /\ Fresh1(got)
  BY AmongItself DEF Direction
<1>2. Among(r, s)
  BY <1>1, SegmentsMoved, Zenon
<1>3. /\ 1 \in DOMAIN s /\ p = s[1] /\ p \in Packet
      /\ \A i \in DOMAIN r : /\ i + 1 \in DOMAIN s /\ r[i] = s[i + 1] /\ 1 # i + 1
                             /\ s[i + 1] \in Packet
  OBVIOUS
<1>4. d \in Seq(Nat) /\ d # <<>> /\ p.seq = n + 1
  BY <1>3 DEF Packet
<1> HIDE DEF r, H, p
<1>5. /\ DataRight(p) /\ Later(H, p, n)
      /\ \A i \in DOMAIN r : PairRight(p, r[i], FALSE)
  <2>1. DataRight(p) /\ Later(H, p, n)
    BY <1>1, <1>3, Zenon DEF SegmentsRight, ReaderRight
  <2>2. ASSUME NEW i \in DOMAIN r PROVE PairRight(p, r[i], FALSE)
    <3>1. PairRight(s[1], s[i + 1], 1 = i + 1)
      BY <1>1, <1>3, Zenon DEF SegmentsRight
    <3> QED
      BY <1>3, <3>1 DEF PairRight
  <2> QED
    BY <2>1, <2>2
<1>6. \A x \in H, y \in BytesOf(d) : x < y + Slack
  BY <1>4, <1>5 DEF Later
<1>7. Len(d) <= MSS /\ \A i \in DOMAIN d : d[i] + 1 = d[1] + i
  BY <1>4, <1>5 DEF DataRight
<1> HIDE DEF d
<1>8. /\ \A i \in DOMAIN d : i \in Nat /\ i >= 1 /\ i <= Len(d) /\ d[i] \in Nat
      /\ 1 \in DOMAIN d /\ d[1] \in Nat /\ Len(d) \in Nat
  BY <1>4
<1>9. \A i, j \in DOMAIN d : d[i] < d[j] + Len(d) /\ (i < j => d[i] < d[j])
  <2> TAKE i, j \in DOMAIN d
  <2>1. /\ d[i] + 1 = d[1] + i /\ d[j] + 1 = d[1] + j
        /\ i \in Nat /\ j \in Nat /\ i <= Len(d) /\ j >= 1
        /\ d[i] \in Nat /\ d[j] \in Nat /\ d[1] \in Nat /\ Len(d) \in Nat
    BY <1>7, <1>8
  <2> HIDE DEF d
  <2> QED
    BY <2>1, Z3T(30)
<1>10. BytesOf(c) = BytesOf(buf) \cup BytesOf(d) /\ c \in Seq(Nat)
  BY <1>4, BytesFacts
<1>11. /\ BytesOf(buf) \subseteq H /\ BytesOf(got) \subseteq H
       /\ \A i \in DOMAIN ts : BytesOf(ts[i].data) \subseteq H
  <2>1. BytesOf(buf) \subseteq Nat /\ BytesOf(got) \subseteq Nat
    BY BytesFacts
  <2>2. ASSUME NEW i \in DOMAIN ts PROVE BytesOf(ts[i].data) \subseteq Nat
    <3>1. ts[i] \in Response
      OBVIOUS
    <3>2. ts[i].data \in Seq(Nat)
      BY <3>1 DEF Response
    <3> QED
      BY <3>2, BytesFacts
  <2> QED
    BY <2>1, <2>2 DEF H, Held
<1>12. InTurn(c)
  <2>1. /\ DOMAIN buf = 1..Len(buf) /\ Len(buf) \in Nat
        /\ DOMAIN c \subseteq Nat /\ DOMAIN d = 1..Len(d) /\ Len(d) \in Nat
        /\ \A i \in DOMAIN c :
             \/ i \in DOMAIN buf /\ c[i] = buf[i]
             \/ i - Len(buf) \in DOMAIN d /\ c[i] = d[i - Len(buf)]
    BY <1>4, JoinFacts
  <2>2. InTurn(buf)
    BY <1>1 DEF StreamRight
  <2> SUFFICES ASSUME NEW i \in DOMAIN c, NEW j \in DOMAIN c, i < j
               PROVE  c[i] < c[j] + Slack
    BY DEF InTurn
  <2> HIDE DEF c
  <2>3. CASE i \in DOMAIN buf /\ c[i] = buf[i] /\ j \in DOMAIN buf /\ c[j] = buf[j]
    BY <2>2, <2>3, Zenon DEF InTurn
  <2>4. CASE /\ i \in DOMAIN buf /\ c[i] = buf[i]
             /\ j - Len(buf) \in DOMAIN d /\ c[j] = d[j - Len(buf)]
    <3>1. c[i] \in H /\ c[j] \in BytesOf(d)
      BY <1>11, <2>4 DEF BytesOf
    <3> QED
      BY <1>6, <3>1
  <2>5. CASE /\ i - Len(buf) \in DOMAIN d /\ c[i] = d[i - Len(buf)]
             /\ j - Len(buf) \in DOMAIN d /\ c[j] = d[j - Len(buf)]
    <3>1. i \in Nat /\ j \in Nat /\ Len(buf) \in Nat
      BY <2>1
    <3>2. i - Len(buf) < j - Len(buf)
      BY <3>1
    <3>3. c[i] < c[j] /\ c[i] \in Nat /\ c[j] \in Nat
      BY <1>8, <1>9, <2>5, <3>2
    <3>4. Slack \in Nat
      BY SlackFacts
    <3> QED
      BY <3>3, <3>4, Z3
  <2>6. ~(i - Len(buf) \in DOMAIN d /\ j \in DOMAIN buf)
    <3>1. i \in Nat /\ j \in Nat
      BY <2>1
    <3>2. SUFFICES ASSUME i - Len(buf) \in 1..Len(d), j \in 1..Len(buf)
                   PROVE  FALSE
      BY <2>1
    <3>3. i - Len(buf) >= 1 /\ j <= Len(buf)
      BY <3>2
    <3> QED
      BY <2>1, <3>1, <3>3, Z3
  <2> QED
    BY <2>1, <2>3, <2>4, <2>5, <2>6
<1>13. \A x : BytesOf(x) \subseteq H /\ Follows(x, buf) => Follows(x, c)
  <2> SUFFICES ASSUME NEW x, BytesOf(x) \subseteq H, Follows(x, buf),
                      NEW y \in BytesOf(buf) \cup BytesOf(d)
               PROVE  y \in BytesOf(x) \/ \A z \in BytesOf(x) : z < y + Slack
    BY <1>10 DEF Follows
  <2> QED
    BY <1>6 DEF Follows
<1> HIDE DEF c
<1>14. StreamRight(got, ts, c)
  BY <1>1, <1>11, <1>12, <1>13, Zenon DEF StreamRight
<1>15. Held(got, ts, c) \subseteq H \cup BytesOf(d)
  BY <1>10 DEF Held, H
<1>16. ReaderRight(r, Held(got, ts, c), n2)
  <2>1. ReaderRight(r, H, n)
    BY <1>1, <1>2 DEF Among
  <2> SUFFICES ASSUME NEW i \in DOMAIN r, r[i].data # <<>>, r[i].seq > n2,
                      NEW x \in H \cup BytesOf(d), NEW y \in BytesOf(r[i].data)
               PROVE  x < y + Slack
    BY <1>15 DEF ReaderRight, Later
  <2>2. r[i] \in Packet
    BY <1>3
  <2>3. r[i].seq \in Nat /\ r[i].data \in Seq(Nat)
    BY <2>2 DEF Packet
  <2>4. r[i].seq > n /\ (r[i].seq > p.seq \/ r[i].seq = p.seq)
    <3>1. \A z \in Nat : z > n2 => z > n /\ (z > n + 1 \/ z = n + 1)
      BY Z3
    <3> QED
      BY <1>4, <2>3, <3>1, Zenon
  <2>5. CASE x \in H
    <3>1. Later(H, r[i], n)
      BY <2>1 DEF ReaderRight
    <3> QED
      BY <2>4, <2>5, <3>1, Zenon DEF Later
  <2>6. CASE x \in BytesOf(d)
    <3>1. x \in Nat /\ y \in Nat
      BY <1>4, <2>3, <2>6, BytesFacts
    <3>2. PairRight(p, r[i], FALSE)
      BY <1>5
    <3>3. CASE r[i].seq > p.seq
      <4>1. p.seq < r[i].seq
        BY <1>4, <2>3, <3>3
      <4>2. x < y
        BY <1>4, <2>6, <3>2, <4>1 DEF PairRight, d
      <4> QED
        BY <3>1, <4>2, SlackFacts, Z3
    <3>4. CASE r[i].seq = p.seq
      <4>1. d = r[i].data /\ Slack = MSS
        BY <1>4, <3>2, <3>4, SlackFacts DEF PairRight, d
      <4>2. PICK a \in DOMAIN d, b \in DOMAIN d : x = d[a] /\ y = d[b]
        BY <2>6, <4>1 DEF BytesOf
      <4>3. x < y + Len(d) /\ Len(d) \in Nat /\ MSS \in Nat /\ Len(d) <= MSS
        BY <1>7, <1>8, <1>9, <4>2, MSSAssumption
      <4> QED
        BY <3>1, <4>1, <4>3, Z3
    <3> QED
      BY <2>4, <3>3, <3>4
  <2> QED
    BY <2>5, <2>6
<1>17. Held(got, ts, c) \subseteq Carried(s) \cup H
  <2>1. BytesOf(d) \subseteq Carried(s)
    <3>1. d = s[1].data
      BY <1>3 DEF d
    <3> QED
      BY <1>3, <3>1, InCarried
  <2> QED
    BY <1>15, <2>1
<1>18. Direction(t, tt, wrote, r, n2, got, ts, c)
  BY <1>1, <1>2, <1>14, <1>16, <1>17, DirectionReader, Zenon DEF H
<1> QED
  BY <1>18 DEF r, c, d, p

\* sock_module passes on the first message, or leaves it.
LEMMA DirectionUp ==
  ASSUME NEW t, NEW tt, NEW wrote, NEW s, NEW n, NEW got \in Seq(Nat),
         NEW ts \in Seq(Response), NEW buf \in Seq(Nat), NEW got2,
         Direction(t, tt, wrote, s, n, got, ts, buf), ts # <<>>,
         got2 = got \/ got2 = got \o Head(ts).data
  PROVE  Direction(t, tt, wrote, s, n, got2, Tail(ts), buf)
<1> DEFINE r == Tail(ts)
           d == Head(ts).data
<1>1. /\ Among(s, s) /\ ReaderRight(s, Held(got, ts, buf), n)
      /\ StreamRight(got, ts, buf) /\ Fresh1(got)
  BY AmongItself
<1>2. /\ 1 \in DOMAIN ts /\ Head(ts) = ts[1] /\ ts[1] \in Response
      /\ \A i \in DOMAIN r : i + 1 \in DOMAIN ts /\ r[i] = ts[i + 1] /\ i \in Nat /\ 1 < i + 1
  OBVIOUS
<1>3. d \in Seq(Nat)
  BY <1>2 DEF Response
<1>30. \A i \in DOMAIN ts : ts[i].data \in Seq(Nat)
  <2> TAKE i \in DOMAIN ts
  <2>1. ts[i] \in Response
    OBVIOUS
  <2> QED
    BY <2>1 DEF Response
<1> HIDE DEF r
<1>4. /\ InTurn(buf) /\ Follows(got, buf)
      /\ \A i \in DOMAIN ts : /\ InTurn(ts[i].data) /\ Follows(got, ts[i].data)
                              /\ Follows(ts[i].data, buf)
      /\ \A i, j \in DOMAIN ts : i < j => Follows(ts[i].data, ts[j].data)
  BY <1>1 DEF StreamRight
<1>5. InTurn(d) /\ Follows(got, d) /\ Follows(d, buf)
  BY <1>2, <1>4, Zenon
<1>6. \A i \in DOMAIN r : Follows(d, r[i].data) /\ Follows(got, r[i].data)
  BY <1>2, <1>4, Zenon
<1>60. \A i \in DOMAIN r : r[i].data \in Seq(Nat)
  BY <1>2, <1>30
<1> HIDE DEF d
<1>7. /\ Follows(got2, buf) /\ \A i \in DOMAIN r : Follows(got2, r[i].data)
      /\ got2 \in Seq(Nat) /\ BytesOf(got2) \subseteq BytesOf(got) \cup BytesOf(d)
  <2>1. CASE got2 = got
    BY <1>4, <1>6, <2>1, Zenon
  <2>2. CASE got2 = got \o d
    <3>1. Follows(got \o d, buf)
      BY <1>3, <1>4, <1>5, FollowsFacts
    <3>2. ASSUME NEW i \in DOMAIN r
          PROVE  Follows(got \o d, r[i].data)
      BY <1>3, <1>6, <1>60, <3>2, FollowsFacts
    <3>3. got \o d \in Seq(Nat)
      BY <1>3
    <3>4. BytesOf(got \o d) = BytesOf(got) \cup BytesOf(d)
      BY <1>3, BytesFacts
    <3> QED
      BY <2>2, <3>1, <3>2, <3>3, <3>4, Zenon
  <2> QED
    BY <2>1, <2>2 DEF d
<1>8. StreamRight(got2, r, buf)
  <2>1. \A i \in DOMAIN r : /\ InTurn(r[i].data) /\ Follows(got2, r[i].data)
                            /\ Follows(r[i].data, buf)
    BY <1>2, <1>4, <1>7, Zenon
  <2>2. ASSUME NEW i \in DOMAIN r, NEW j \in DOMAIN r, i < j
        PROVE  Follows(r[i].data, r[j].data)
    <3>1. i + 1 < j + 1
      BY <1>2, <2>2
    <3> QED
      BY <1>2, <1>4, <3>1, Zenon
  <2> QED
    BY <1>4, <1>7, <2>1, <2>2, Zenon DEF StreamRight
<1>9. Fresh1(got2)
  <2>1. CASE got2 = got
    BY <1>1, <2>1
  <2>2. CASE got2 = got \o d
    <3>1. Len(got) \in Nat /\ DOMAIN got = 1..Len(got) /\ DOMAIN d = 1..Len(d) /\ Len(d) \in Nat
      BY <1>3
    <3>2. /\ \A i \in DOMAIN got : i \in DOMAIN got2 /\ got2[i] = got[i]
          /\ \A i \in DOMAIN got2 :
               \/ i \in DOMAIN got
               \/ /\ i - Len(got) \in DOMAIN d /\ i \notin DOMAIN got
                  /\ got2[i] = d[i - Len(got)]
          /\ DOMAIN got2 \subseteq Nat \ {0}
      BY <1>3, <2>2, SMTT(30)
    <3> SUFFICES ASSUME NEW i \in DOMAIN got2
                 PROVE  \/ \E j \in 1..(i - 1) : got2[j] = got2[i]
                        \/ \A j \in 1..(i - 1) : got2[j] < got2[i] + Slack
      BY DEF Fresh1
    <3>3. CASE i \in DOMAIN got
      <4>1. \A j \in 1..(i - 1) : j \in DOMAIN got /\ got2[j] = got[j]
        BY <3>1, <3>2, <3>3
      <4>2. got2[i] = got[i]
        BY <3>2, <3>3
      <4>3. \/ \E j \in 1..(i - 1) : got[j] = got[i]
            \/ \A j \in 1..(i - 1) : got[j] < got[i] + Slack
        BY <1>1, <3>3 DEF Fresh1
      <4> QED
        BY <4>1, <4>2, <4>3, Zenon
    <3>4. CASE /\ i - Len(got) \in DOMAIN d /\ i \notin DOMAIN got
               /\ got2[i] = d[i - Len(got)]
      <4>1. i \in Nat /\ i > Len(got)
        BY <3>1, <3>2, <3>4
      <4>2. got2[i] \in BytesOf(d)
        BY <3>4 DEF BytesOf
      <4>3. CASE got2[i] \in BytesOf(got)
        <5>1. PICK j \in DOMAIN got : got[j] = got2[i]
          BY <4>3 DEF BytesOf
        <5>2. j \in 1..(i - 1) /\ got2[j] = got2[i]
          BY <3>1, <3>2, <4>1, <5>1
        <5> QED
          BY <5>2
      <4>4. CASE \A x \in BytesOf(got) : x < got2[i] + Slack
        <5> SUFFICES ASSUME NEW j \in 1..(i - 1)
                     PROVE  got2[j] < got2[i] + Slack
          OBVIOUS
        <5>1. CASE j \in DOMAIN got
          <6>1. got2[j] \in BytesOf(got)
            BY <3>2, <5>1 DEF BytesOf
          <6> QED
            BY <4>4, <6>1
        <5>2. CASE j \notin DOMAIN got
          <6>1. /\ j \in Int /\ j > Len(got) /\ j < i
                /\ j - Len(got) \in DOMAIN d /\ i - Len(got) \in DOMAIN d
            BY <3>1, <3>4, <4>1, <5>2
          <6>2. j \in DOMAIN got2
            <7>1. DOMAIN got2 = 1..Len(got2) /\ Len(got2) \in Nat
              BY <1>3, <2>2
            <7> QED
              BY <7>1, EarlierPlaces, Zenon
          <6>3. got2[j] = d[j - Len(got)]
            BY <3>2, <5>2, <6>2
          <6>4. j - Len(got) < i - Len(got)
            BY <3>1, <4>1, <6>1
          <6>5. d[j - Len(got)] < d[i - Len(got)] + Slack
            BY <1>5, <6>1, <6>4, Zenon DEF InTurn
          <6> QED
            BY <3>4, <6>3, <6>5, Zenon
        <5> QED
          BY <5>1, <5>2
      <4> QED
        BY <1>5, <4>2, <4>3, <4>4, Zenon DEF Follows
    <3>5. \/ i \in DOMAIN got
          \/ /\ i - Len(got) \in DOMAIN d /\ i \notin DOMAIN got
             /\ got2[i] = d[i - Len(got)]
      BY <3>2
    <3> QED
      BY <3>3, <3>4, <3>5, Zenon
  <2> QED
    BY <2>1, <2>2 DEF d
<1>10. Held(got2, r, buf) \subseteq Held(got, ts, buf)
  <2>1. BytesOf(d) = BytesOf(ts[1].data)
    BY <1>2 DEF d
  <2> SUFFICES ASSUME NEW x \in Nat,
                      \/ x \in BytesOf(got2) \/ x \in BytesOf(buf)
                      \/ \E i \in DOMAIN r : x \in BytesOf(r[i].data)
               PROVE  \/ x \in BytesOf(got) \/ x \in BytesOf(buf)
                      \/ \E i \in DOMAIN ts : x \in BytesOf(ts[i].data)
    BY Zenon DEF Held
  <2>2. CASE x \in BytesOf(got2)
    BY <1>2, <1>7, <2>1, <2>2
  <2>3. CASE \E i \in DOMAIN r : x \in BytesOf(r[i].data)
    BY <1>2, <2>3
  <2> QED
    BY <2>2, <2>3
<1>11. ReaderRight(s, Held(got2, r, buf), n)
  BY <1>1, <1>10 DEF ReaderRight, Later
<1>12. Held(got2, r, buf) \subseteq Carried(s) \cup Held(got, ts, buf)
  BY <1>10
<1>13. Direction(t, tt, wrote, s, n, got2, r, buf)
  BY <1>1, <1>8, <1>9, <1>11, <1>12, DirectionReader, Zenon
<1> QED
  BY <1>13 DEF r

-----------------------------------------------------------------------------
(* The steps of the program.                                               *)
LEMMA StreamStep ==
  ASSUME NEW a \in Host,
         tcb'[Peer(a)] = tcb[Peer(a)], toTcp'[Peer(a)] = toTcp[Peer(a)],
         app'[Peer(a)] = app[Peer(a)], toSock'[Peer(a)] = toSock[Peer(a)],
         Direction(tcb[Peer(a)], toTcp[Peer(a)], app[Peer(a)].wrote, net'[a],
                   tcb'[a].lastRecvd, app'[a].got, toSock'[a], tcb'[a].recvBuf),
         Direction(tcb'[a], toTcp'[a], app'[a].wrote, net'[Peer(a)],
                   tcb[Peer(a)].lastRecvd, app[Peer(a)].got, toSock[Peer(a)],
                   tcb[Peer(a)].recvBuf)
  PROVE  StreamInv'
<1>1. /\ Peer(a) \in Host /\ Peer(Peer(a)) = a
      /\ \A h \in Host : h = a \/ h = Peer(a)
  BY PeerFacts DEF Host, Peer
<1>2. ASSUME NEW h \in Host
      PROVE  Direction(tcb'[Peer(h)], toTcp'[Peer(h)], app'[Peer(h)].wrote, net'[h],
                       tcb'[h].lastRecvd, app'[h].got, toSock'[h], tcb'[h].recvBuf)
  <2>1. CASE h = a
    BY <2>1
  <2>2. CASE h = Peer(a)
    BY <1>1, <2>2
  <2> QED
    BY <1>1, <2>1, <2>2
<1> SUFFICES ASSUME NEW h \in Host PROVE Towards(h)'
  BY Zenon DEF StreamInv
<1>3. Direction(tcb'[Peer(h)], toTcp'[Peer(h)], app'[Peer(h)].wrote, net'[h],
                tcb'[h].lastRecvd, app'[h].got, toSock'[h], tcb'[h].recvBuf)
  BY <1>2
<1> QED
  BY <1>3, Zenon DEF Towards, Direction, AskedRight, WriteRight, NoneOf, BufferRight,
     Gone, Unacked, Carried, Held, BytesOf, SegmentsRight, DataRight, PairRight,
     ReaderRight, Later, StreamRight, InTurn, Follows, Fresh1, Slack, Peer

\* The two directions as a step of host a finds them.
LEMMA StreamFinds ==
  ASSUME TypeOK, StreamInv, NEW a \in Host
  PROVE  /\ Direction(tcb[Peer(a)], toTcp[Peer(a)], app[Peer(a)].wrote, net[a],
                      tcb[a].lastRecvd, app[a].got, toSock[a], tcb[a].recvBuf)
         /\ Direction(tcb[a], toTcp[a], app[a].wrote, net[Peer(a)],
                      tcb[Peer(a)].lastRecvd, app[Peer(a)].got, toSock[Peer(a)],
                      tcb[Peer(a)].recvBuf)
         /\ Peer(a) \in Host /\ Peer(a) # a
         /\ tcb[a] \in Record /\ tcb[Peer(a)] \in Record
         /\ net[a] \in Seq(Packet) /\ net[Peer(a)] \in Seq(Packet)
         /\ toTcp[a] \in Seq(Request) /\ toSock[a] \in Seq(Response)
         /\ app[a].got \in Seq(Nat) /\ app[a].wrote \in Nat
         /\ tcb[a].recvBuf \in Seq(Nat) /\ tcb[a].lastRecvd \in Nat
         /\ tcb[Peer(a)].lastRecvd \in Nat
<1>1. Peer(a) \in Host /\ Peer(a) # a /\ Peer(Peer(a)) = a
  BY PeerFacts
<1>2. Towards(a) /\ Towards(Peer(a))
  BY <1>1 DEF StreamInv
<1>3. /\ tcb[a] \in Record /\ tcb[Peer(a)] \in Record
      /\ net[a] \in Seq(Packet) /\ net[Peer(a)] \in Seq(Packet)
      /\ toTcp[a] \in Seq(Request) /\ toSock[a] \in Seq(Response)
      /\ app[a].got \in Seq(Nat) /\ app[a].wrote \in Nat
  BY <1>1 DEF TypeOK
<1>4. /\ tcb[a].recvBuf \in Seq(Nat) /\ tcb[a].lastRecvd \in Nat
      /\ tcb[Peer(a)].lastRecvd \in Nat
  BY <1>3 DEF Record
<1>5. /\ Direction(tcb[Peer(a)], toTcp[Peer(a)], app[Peer(a)].wrote, net[a],
                   tcb[a].lastRecvd, app[a].got, toSock[a], tcb[a].recvBuf)
      /\ Direction(tcb[a], toTcp[a], app[a].wrote, net[Peer(a)],
                   tcb[Peer(a)].lastRecvd, app[Peer(a)].got, toSock[Peer(a)],
                   tcb[Peer(a)].recvBuf)
  BY <1>1, <1>2 DEF Towards
<1> QED
  BY <1>1, <1>3, <1>4, <1>5

\* Segments without data are added to those under way.
LEMMA DirectionQueues ==
  ASSUME NEW t, NEW tt, NEW wrote, NEW s \in Seq(Packet), NEW n, NEW got, NEW ts,
         NEW buf, Direction(t, tt, wrote, s, n, got, ts, buf),
         NEW out \in Seq(Packet), \A i \in DOMAIN out : out[i].data = <<>>
  PROVE  Direction(t, tt, wrote, s \o out, n, got, ts, buf)
<1>1. SegmentsRight(s)
  BY DEF Direction
<1>2. Among(s \o out, s)
  BY <1>1, SegmentsMoved
<1> QED
  BY <1>2, DirectionNet, Zenon

LEMMA DirectionLoses ==
  ASSUME NEW t, NEW tt, NEW wrote, NEW s \in Seq(Packet), NEW n, NEW got, NEW ts,
         NEW buf, Direction(t, tt, wrote, s, n, got, ts, buf), s # <<>>
  PROVE  Direction(t, tt, wrote, Tail(s), n, got, ts, buf)
<1>1. SegmentsRight(s)
  BY DEF Direction
<1>2. Among(Tail(s), s)
  BY <1>1, SegmentsMoved
<1> QED
  BY <1>2, DirectionNet, Zenon

LEMMA UnackedNext ==
  ASSUME AckInv', NEW h \in Host
  PROVE  Unacked(tcb'[h]) \in Nat
<1> DEFINE r == tcb'[Peer(h)].lastRecvd
           t == tcb'[h]
<1>1. t.lastSent \in Nat /\ t.lastAcked \in Nat /\ r \in Nat /\ ISN[h] \in Nat
  <2>1. tcb'[h] \in Record /\ tcb'[Peer(h)] \in Record
    BY PeerFacts DEF AckInv, TypeOK
  <2> QED
    BY <2>1, RecordNats, ISNAssumption
<1>2. r <= t.lastSent /\ ISN[h] <= t.lastSent /\ t.lastAcked <= MaxOf(ISN[h], r)
  <2>1. ISN[h] <= t.lastSent
    BY <1>1 DEF AckInv, Started
  <2>2. r <= t.lastSent /\ t.lastAcked <= MaxOf(ISN[h], r)
    BY DEF AckInv, AckChain, Peer, MaxOf
  <2> QED
    BY <2>1, <2>2
<1> QED
  BY <1>1, <1>2 DEF MaxOf, Unacked

\* A transition that leaves the buffers alone and moves no data.
Plain(c, t) ==
  /\ t.sendBuf = c.sendBuf /\ t.recvBuf = c.recvBuf /\ t.lastRecvd >= c.lastRecvd
  /\ t.state = "ESTABLISHED" =>
       t.sendBuf = <<>> \/ (c.state = "ESTABLISHED" /\ Unacked(t) = Unacked(c))
  /\ t.state \in {"LISTEN", "SYN_SENT", "SYN_RCVD"} => t.sendBuf = <<>>

Dataless(s) == \A i \in DOMAIN s : s[i].data = <<>>

LEMMA PlainStep ==
  ASSUME TypeOK, AckInv', StreamInv, NEW a \in Host, NEW t \in Record,
         tcb' = [tcb EXCEPT ![a] = t], Plain(tcb[a], t),
         NEW out \in Seq(Packet), Dataless(out),
         NEW msgs \in Seq(Response), Dataless(msgs),
         \/ net[a] # <<>> /\ TakePacket(a, out, msgs)
         \/ /\ toTcp[a] # <<>> /\ TakeRequest(a, out, msgs)
            /\ Head(toTcp[a]).type = "WRITE" => t.state # "ESTABLISHED"
  PROVE  StreamInv'
<1> DEFINE p == Peer(a)
           c == tcb[a]
<1>0. /\ Direction(tcb[p], toTcp[p], app[p].wrote, net[a],
                   c.lastRecvd, app[a].got, toSock[a], c.recvBuf)
      /\ Direction(c, toTcp[a], app[a].wrote, net[p],
                   tcb[p].lastRecvd, app[p].got, toSock[p], tcb[p].recvBuf)
      /\ p \in Host /\ p # a /\ c \in Record /\ tcb[p] \in Record
      /\ net[a] \in Seq(Packet) /\ net[p] \in Seq(Packet)
      /\ toTcp[a] \in Seq(Request) /\ toSock[a] \in Seq(Response)
      /\ app[a].got \in Seq(Nat) /\ app[a].wrote \in Nat
      /\ c.recvBuf \in Seq(Nat) /\ c.lastRecvd \in Nat /\ tcb[p].lastRecvd \in Nat
  BY StreamFinds
<1>1. tcb'[a] = t /\ tcb'[p] = tcb[p]
  BY <1>0 DEF TypeOK
<1>2. Unacked(t) \in Nat /\ t.lastRecvd \in Nat
  <2>1. Unacked(tcb'[a]) \in Nat
    BY UnackedNext
  <2> QED
    BY <1>1, <2>1, RecordNats
<1>3. /\ net'[a] = net[a] \/ (net[a] # <<>> /\ net'[a] = Tail(net[a]))
      /\ net'[p] = net[p] \o out
      /\ toSock'[a] = toSock[a] \o msgs /\ toSock'[p] = toSock[p]
      /\ app' = app /\ toTcp'[p] = toTcp[p]
      /\ \/ toTcp'[a] = toTcp[a]
         \/ /\ toTcp[a] # <<>> /\ toTcp'[a] = Tail(toTcp[a])
            /\ Head(toTcp[a]).type = "WRITE" => t.state # "ESTABLISHED"
  <2>1. CASE net[a] # <<>> /\ TakePacket(a, out, msgs)
    BY <1>0, <2>1 DEF TakePacket, TypeOK, sockVars
  <2>2. CASE /\ toTcp[a] # <<>> /\ TakeRequest(a, out, msgs)
             /\ Head(toTcp[a]).type = "WRITE" => t.state # "ESTABLISHED"
    BY <1>0, <2>2 DEF TakeRequest, TypeOK, sockVars
  <2> QED
    BY <2>1, <2>2
<1> HIDE DEF p, c
<1>4. Direction(tcb[p], toTcp[p], app[p].wrote, net'[a],
                t.lastRecvd, app[a].got, toSock'[a], t.recvBuf)
  <2>1. t.recvBuf = c.recvBuf /\ c.lastRecvd <= t.lastRecvd
    BY <1>0, <1>2 DEF Plain, c
  <2>2. Direction(tcb[p], toTcp[p], app[p].wrote, net'[a],
                  c.lastRecvd, app[a].got, toSock[a], c.recvBuf)
    BY <1>0, <1>3, DirectionLoses
  <2>3. net'[a] \in Seq(Packet)
    <3>1. net[a] # <<>> => Tail(net[a]) \in Seq(Packet)
      BY <1>0
    <3> QED
      BY <1>0, <1>3, <3>1, Zenon
  <2>4. Direction(tcb[p], toTcp[p], app[p].wrote, net'[a],
                  t.lastRecvd, app[a].got, toSock[a], c.recvBuf)
    BY <1>0, <1>2, <2>1, <2>2, <2>3, DirectionCounts
  <2>5. \A i \in DOMAIN msgs : msgs[i].data = <<>> \/ msgs[i].data = c.recvBuf
    BY DEF Dataless
  <2>6. Direction(tcb[p], toTcp[p], app[p].wrote, net'[a],
                  t.lastRecvd, app[a].got, toSock[a] \o msgs, c.recvBuf)
    BY <1>0, <2>4, <2>5, DirectionSays
  <2> QED
    BY <1>3, <2>1, <2>6
<1>5. Direction(t, toTcp'[a], app[a].wrote, net'[p],
                tcb[p].lastRecvd, app[p].got, toSock[p], tcb[p].recvBuf)
  <2>1. Direction(t, toTcp'[a], app[a].wrote, net[p],
                  tcb[p].lastRecvd, app[p].got, toSock[p], tcb[p].recvBuf)
    BY <1>0, <1>2, <1>3, DirectionWriter DEF Plain, c
  <2>2. \A i \in DOMAIN out : out[i].data = <<>>
    BY DEF Dataless
  <2>3. Direction(t, toTcp'[a], app[a].wrote, net[p] \o out,
                  tcb[p].lastRecvd, app[p].got, toSock[p], tcb[p].recvBuf)
    BY <1>0, <2>1, <2>2, DirectionQueues
  <2> QED
    BY <1>3, <2>3
<1> QED
  BY <1>0, <1>1, <1>3, <1>4, <1>5, StreamStep DEF p, c

\* What the transitions leave in the receive buffer, and what they send.
LEMMA BytesKept ==
  ASSUME NEW t \in Record, NEW p \in Packet, NEW n \in Nat, NEW s \in State
  PROVE  /\ PostRecv(t, p, n).recvBuf = t.recvBuf
         /\ PostSend(t, p, n).recvBuf = t.recvBuf
         /\ Goto(t, s).recvBuf = t.recvBuf
BY DEF PostRecv, PostSend, Goto, Record

LEMMA DatalessOut ==
  /\ Dataless(<<>>) /\ Dataless(<<StatusUp>>) /\ Dataless(<<WriteUp(<<>>)>>)
  /\ \A t \in Record : /\ Dataless(<<Syn(t)>>) /\ Dataless(<<Syn(t), Syn(t)>>)
                       /\ Dataless(<<SynAck(t)>>) /\ Dataless(<<Ack(t, <<>>)>>)
                       /\ Dataless(<<Fin(t)>>)
BY DEF Dataless, StatusUp, WriteUp, Syn, SynAck, Ack, Fin

\* Until the connection is open there is nothing to send.
LEMMA EmptyBefore ==
  ASSUME TypeOK, CallInv, StreamInv, NEW h \in Host
  PROVE  /\ tcb[h].state \in {"LISTEN", "SYN_SENT", "SYN_RCVD"} => tcb[h].sendBuf = <<>>
         /\ closedToListen(h) \/ closedToSynSent(h) =>
              tcb[h].state = "CLOSED" /\ tcb[h].sendBuf = <<>>
<1>1. ASSUME tcb[h].state \in {"LISTEN", "SYN_SENT", "SYN_RCVD"}
      PROVE  tcb[h].sendBuf = <<>>
  <2>1. Direction(tcb[h], toTcp[h], app[h].wrote, net[Peer(h)],
                  tcb[Peer(h)].lastRecvd, app[Peer(h)].got, toSock[Peer(h)],
                  tcb[Peer(h)].recvBuf)
    BY StreamFinds
  <2> QED
    BY <1>1, <2>1 DEF Direction, BufferRight
<1>2. ASSUME closedToListen(h) \/ closedToSynSent(h)
      PROVE  tcb[h].state = "CLOSED" /\ tcb[h].sendBuf = <<>>
  <2>1. toTcp[h] # <<>> /\ Head(toTcp[h]).type \in Opens /\ toTcp[h] \in Seq(Request)
    BY <1>2, RequestGuards DEF closedToListen, closedToSynSent, FromSock, Opens, TypeOK
  <2>2. ~ NoneOf(toTcp[h], Opens)
    BY <2>1, NoneFacts
  <2>3. tcb[h] = ClosedRecord(ISN[h])
    BY <2>2 DEF CallInv, Fresh, Begun, CallRight
  <2> QED
    BY <2>3 DEF ClosedRecord
<1> QED
  BY <1>1, <1>2

\* Taking an event without a change to the record.
LEMMA IgnoreOrder ==
  ASSUME TypeOK, AckInv', CallInv, StreamInv, NEW h \in Host,
         IgnorePacket(h) \/ IgnoreRequest(h)
  PROVE  StreamInv'
<1> DEFINE c == tcb[h]
<1>1. c \in Record /\ c.lastRecvd \in Nat /\ c.lastRecvd >= c.lastRecvd
  BY StreamFinds
<1>2. Plain(c, c)
  BY <1>1, EmptyBefore DEF Plain
<1>3. tcb' = [tcb EXCEPT ![h] = c]
  BY DEF IgnorePacket, IgnoreRequest, TypeOK
<1>4. \/ net[h] # <<>> /\ TakePacket(h, <<>>, <<>>)
      \/ /\ toTcp[h] # <<>> /\ TakeRequest(h, <<>>, <<>>)
         /\ Head(toTcp[h]).type = "WRITE" => c.state # "ESTABLISHED"
  BY DEF IgnorePacket, IgnoreRequest, FromMux, FromSock, OnRequest
<1>5. <<>> \in Seq(Packet) /\ <<>> \in Seq(Response)
  OBVIOUS
<1> HIDE DEF c
<1> QED
  BY <1>1, <1>2, <1>3, <1>4, <1>5, DatalessOut, PlainStep DEF c

\* What every transition but those of the data transfer does to a record.
Calm(c, t) ==
  /\ t \in Record /\ t.sendBuf = c.sendBuf /\ t.recvBuf = c.recvBuf
  /\ t.lastRecvd >= c.lastRecvd

LEMMA CalmFacts ==
  ASSUME NEW c \in Record
  PROVE  /\ Calm(c, c)
         /\ \A q \in Packet, k \in Nat : Calm(c, PostSend(c, q, k))
         /\ \A s \in State : Calm(c, Goto(c, s)) /\ Goto(c, s).state = s
         /\ \A b \in BOOLEAN : /\ Calm(c, [c EXCEPT !.tmr = b])
                               /\ [c EXCEPT !.tmr = b].state = c.state
         /\ \A t : Calm(c, t) => \A r : Calm(t, r) => Calm(c, r)
<1>1. c.lastRecvd \in Nat
  BY RecordNats
<1>2. ASSUME NEW q \in Packet, NEW k \in Nat PROVE Calm(c, PostSend(c, q, k))
  <2> DEFINE r == PostSend(c, q, k)
  <2>1. r \in Record /\ r.sendBuf = c.sendBuf /\ r.lastRecvd = c.lastRecvd
    BY SentParts
  <2>2. r.recvBuf = c.recvBuf
    BY BytesKept DEF State
  <2> HIDE DEF r
  <2>3. Calm(c, r)
    BY <1>1, <2>1, <2>2 DEF Calm
  <2> QED
    BY <2>3 DEF r
<1>3. ASSUME NEW s \in State PROVE Calm(c, Goto(c, s)) /\ Goto(c, s).state = s
  <2>1. /\ Goto(c, s) \in Record /\ Goto(c, s).sendBuf = c.sendBuf /\ Goto(c, s).state = s
        /\ Goto(c, s).lastRecvd = c.lastRecvd /\ Goto(c, s).recvBuf = c.recvBuf
    <3>1. Goto(c, s) \in Record
      BY GotoType
    <3> QED
      BY <3>1 DEF Goto, Record
  <2> QED
    BY <1>1, <2>1 DEF Calm
<1>4. ASSUME NEW b \in BOOLEAN PROVE /\ Calm(c, [c EXCEPT !.tmr = b])
                                     /\ [c EXCEPT !.tmr = b].state = c.state
  <2> DEFINE r == [c EXCEPT !.tmr = b]
  <2>1. r \in Record
    BY DEF Record
  <2>2. /\ r.sendBuf = c.sendBuf /\ r.recvBuf = c.recvBuf /\ r.lastRecvd = c.lastRecvd
        /\ r.state = c.state
    BY DEF Record
  <2> HIDE DEF r
  <2>3. Calm(c, r) /\ r.state = c.state
    BY <1>1, <2>1, <2>2 DEF Calm
  <2> QED
    BY <2>3 DEF r
<1>5. ASSUME NEW t, Calm(c, t), NEW r, Calm(t, r) PROVE Calm(c, r)
  <2>1. t.lastRecvd \in Nat /\ r.lastRecvd \in Nat
    BY <1>5, RecordNats DEF Calm
  <2> QED
    BY <1>1, <1>5, <2>1 DEF Calm
<1> QED
  BY <1>1, <1>2, <1>3, <1>4, <1>5 DEF Calm

LEMMA CalmReceived ==
  ASSUME AckInv, NEW h \in Host, net[h] # <<>>, NEW len \in Nat,
         len <= SegLen(Head(net[h]))
  PROVE  Calm(tcb[h], PostRecv(tcb[h], Head(net[h]), len))
<1> DEFINE c == tcb[h]
           p == Head(net[h])
           t == PostRecv(c, p, len)
<1>1. t \in Record /\ Counts(h, t)
  BY ReceivedIsBacked
<1>2. c \in Record /\ p \in Packet
  BY HeadTypes DEF AckInv
<1>3. t.sendBuf = c.sendBuf
  BY <1>2, ReceivedParts, Zenon
<1>4. t.recvBuf = c.recvBuf
  BY <1>2, BytesKept DEF State
<1>5. t.lastRecvd >= c.lastRecvd
  BY <1>1 DEF Counts
<1> QED
  BY <1>1, <1>3, <1>4, <1>5 DEF Calm

\* The transitions that open the connection.
LEMMA OpenOrder ==
  ASSUME AckInv, AckInv', CallInv, StreamInv, NEW h \in Host,
         \/ closedToListen(h) \/ closedToSynSent(h) \/ listenToSynRcvd(h)
         \/ synRcvdToEstablished(h) \/ synSentToEstablished(h)
  PROVE  StreamInv'
<1> DEFINE c == tcb[h]
           p == Head(net[h])
<1>0. TypeOK /\ c \in Record
  BY StreamFinds DEF AckInv
<1>1. /\ <<>> \in Seq(Response) /\ <<StatusUp>> \in Seq(Response)
      /\ <<WriteUp(<<>>)>> \in Seq(Response) /\ <<>> \in Seq(Packet) /\ <<>> \in Seq(Nat)
  BY MessageTypes
<1>2. CASE closedToListen(h)
  <2> DEFINE t == Goto(c, "LISTEN")
  <2>1. /\ toTcp[h] # <<>> /\ TakeRequest(h, <<>>, <<StatusUp>>)
        /\ tcb' = [tcb EXCEPT ![h] = t]
    BY <1>2 DEF closedToListen, FromSock
  <2>2. Calm(c, t) /\ t.state = "LISTEN"
    BY <1>0, CalmFacts DEF State
  <2>3. c.sendBuf = <<>>
    BY <1>0, <1>2, EmptyBefore
  <2> HIDE DEF t, c
  <2>4. Plain(c, t) /\ t \in Record /\ t.state # "ESTABLISHED"
    BY <2>2, <2>3 DEF Plain, Calm
  <2> QED
    BY <1>0, <1>1, <2>1, <2>4, DatalessOut, PlainStep DEF c
<1>3. CASE closedToSynSent(h)
  <2> DEFINE q == Syn(c)
             v == PostSend(c, q, 1)
             t == Goto(v, "SYN_SENT")
  <2>1. /\ toTcp[h] # <<>> /\ TakeRequest(h, <<q, q>>, <<StatusUp>>)
        /\ tcb' = [tcb EXCEPT ![h] = t]
    BY <1>3 DEF closedToSynSent, FromSock
  <2>2. q \in Packet /\ <<q, q>> \in Seq(Packet) /\ Dataless(<<q, q>>)
    BY <1>0, OutParts, OutTypes, DatalessOut
  <2> HIDE DEF q
  <2>3. Calm(c, v)
    BY <1>0, <2>2, CalmFacts
  <2> HIDE DEF v
  <2>4. Calm(v, t) /\ t.state = "SYN_SENT"
    BY <2>3, CalmFacts DEF State, Calm
  <2>5. c.sendBuf = <<>>
    BY <1>0, <1>3, EmptyBefore
  <2> HIDE DEF t, c
  <2>6. Plain(c, t) /\ t \in Record /\ t.state # "ESTABLISHED"
    <3>1. Calm(c, t)
      BY <1>0, <2>3, <2>4, CalmFacts
    <3> QED
      BY <2>4, <2>5, <3>1 DEF Plain, Calm
  <2> QED
    BY <1>0, <1>1, <2>1, <2>2, <2>6, DatalessOut, PlainStep DEF c
<1>4. CASE listenToSynRcvd(h)
  <2> DEFINE r == PostRecv(c, p, 1)
             q == SynAck(r)
             v == PostSend(r, q, 1)
             t == Goto(v, "SYN_RCVD")
  <2>1. /\ net[h] # <<>> /\ TakePacket(h, <<q>>, <<>>)
        /\ tcb' = [tcb EXCEPT ![h] = t] /\ OnPacket(c.state, p.flags) = "SynRcvd"
    BY <1>4 DEF listenToSynRcvd, FromMux
  <2>2. c.state = "LISTEN" /\ "SYN" \in p.flags
    BY <2>1, PacketGuards
  <2>3. SegLen(p) = 1
    BY <2>2 DEF SegLen
  <2>4. Calm(c, r)
    BY <2>1, <2>3, CalmReceived
  <2> HIDE DEF r
  <2>5. q \in Packet /\ <<q>> \in Seq(Packet) /\ Dataless(<<q>>)
    BY <2>4, OutParts, OutTypes, DatalessOut DEF Calm
  <2> HIDE DEF q
  <2>6. Calm(r, v)
    BY <2>4, <2>5, CalmFacts DEF Calm
  <2> HIDE DEF v
  <2>7. Calm(v, t) /\ t.state = "SYN_RCVD"
    BY <2>6, CalmFacts DEF State, Calm
  <2>8. c.sendBuf = <<>>
    BY <1>0, <2>2, EmptyBefore
  <2> HIDE DEF t, c, p
  <2>9. Plain(c, t) /\ t \in Record
    <3>1. Calm(c, v)
      BY <1>0, <2>4, <2>6, CalmFacts
    <3>2. Calm(c, t)
      BY <1>0, <2>7, <3>1, CalmFacts
    <3> QED
      BY <2>7, <2>8, <3>2 DEF Plain, Calm
  <2> QED
    BY <1>0, <1>1, <2>1, <2>5, <2>9, DatalessOut, PlainStep DEF c
<1>5. CASE synRcvdToEstablished(h)
  <2> DEFINE r == PostRecv(c, p, SegLen(p))
             t == Goto(r, "ESTABLISHED")
  <2>1. /\ net[h] # <<>> /\ TakePacket(h, <<>>, <<WriteUp(<<>>)>>)
        /\ tcb' = [tcb EXCEPT ![h] = t]
        /\ OnPacket(c.state, p.flags) = "SynRcvdEstablished"
    BY <1>5 DEF synRcvdToEstablished, FromMux
  <2>2. c.state = "SYN_RCVD" /\ p \in Packet
    BY <1>0, <2>1, PacketGuards, HeadTypes
  <2>3. SegLen(p) \in Nat /\ SegLen(p) <= SegLen(p)
    BY <2>2, PacketNats
  <2>4. Calm(c, r)
    BY <2>1, <2>3, CalmReceived
  <2> HIDE DEF r
  <2>5. Calm(r, t) /\ t.state = "ESTABLISHED"
    BY <2>4, CalmFacts DEF State, Calm
  <2>6. c.sendBuf = <<>>
    BY <1>0, <2>2, EmptyBefore
  <2> HIDE DEF t, c, p
  <2>7. Plain(c, t) /\ t \in Record
    <3>1. Calm(c, t)
      BY <1>0, <2>4, <2>5, CalmFacts
    <3> QED
      BY <2>5, <2>6, <3>1 DEF Plain, Calm
  <2> QED
    BY <1>0, <1>1, <2>1, <2>7, DatalessOut, PlainStep DEF c
<1>6. CASE synSentToEstablished(h)
  <2> DEFINE r == PostRecv(c, p, 1)
             q == Ack(r, <<>>)
             v == PostSend(r, q, 0)
             t == Goto(v, "ESTABLISHED")
  <2>1. /\ net[h] # <<>> /\ TakePacket(h, <<q>>, <<WriteUp(<<>>)>>)
        /\ tcb' = [tcb EXCEPT ![h] = t]
        /\ OnPacket(c.state, p.flags) = "SynSentEstablished"
    BY <1>6 DEF synSentToEstablished, FromMux
  <2>2. c.state = "SYN_SENT" /\ "SYN" \in p.flags
    BY <2>1, PacketGuards
  <2>3. SegLen(p) = 1
    BY <2>2 DEF SegLen
  <2>4. Calm(c, r)
    BY <2>1, <2>3, CalmReceived
  <2> HIDE DEF r
  <2>5. q \in Packet /\ <<q>> \in Seq(Packet) /\ Dataless(<<q>>)
    BY <1>1, <2>4, OutParts, OutTypes, DatalessOut DEF Calm
  <2> HIDE DEF q
  <2>6. Calm(r, v)
    BY <2>4, <2>5, CalmFacts DEF Calm
  <2> HIDE DEF v
  <2>7. Calm(v, t) /\ t.state = "ESTABLISHED"
    BY <2>6, CalmFacts DEF State, Calm
  <2>8. c.sendBuf = <<>>
    BY <1>0, <2>2, EmptyBefore
  <2> HIDE DEF t, c, p
  <2>9. Plain(c, t) /\ t \in Record
    <3>1. Calm(c, v)
      BY <1>0, <2>4, <2>6, CalmFacts
    <3>2. Calm(c, t)
      BY <1>0, <2>7, <3>1, CalmFacts
    <3> QED
      BY <2>7, <2>8, <3>2 DEF Plain, Calm
  <2> QED
    BY <1>0, <1>1, <2>1, <2>5, <2>9, DatalessOut, PlainStep DEF c
<1> QED
  BY <1>2, <1>3, <1>4, <1>5, <1>6

\* The transitions that close it.
LEMMA CloseOrder ==
  ASSUME AckInv, AckInv', StreamInv, NEW h \in Host,
         \/ establishedToFinWait1(h) \/ closeWaitToLastAck(h)
         \/ finWait1ToFinWait2(h) \/ finWait2ToTimeWait(h)
         \/ establishedToCloseWait(h) \/ lastAckToClosed(h)
  PROVE  StreamInv'
<1> DEFINE c == tcb[h]
           p == Head(net[h])
           Past == {"FIN_WAIT1", "FIN_WAIT2", "TIME_WAIT", "CLOSE_WAIT", "LAST_ACK",
                    "CLOSED"}
<1>0. TypeOK /\ c \in Record
  BY StreamFinds DEF AckInv
<1>1. /\ <<>> \in Seq(Response) /\ <<StatusUp>> \in Seq(Response)
      /\ <<WriteUp(<<>>)>> \in Seq(Response) /\ <<>> \in Seq(Packet) /\ <<>> \in Seq(Nat)
  BY MessageTypes
<1>2. \A t : Calm(c, t) /\ t.state \in Past =>
               Plain(c, t) /\ t \in Record /\ t.state # "ESTABLISHED"
  BY DEF Calm, Plain
<1>3. Past \subseteq State
  BY DEF State
<1> HIDE DEF Past
<1>4. ASSUME NEW next \in Past, SendFin(h, next), toTcp[h] # <<>>
      PROVE  StreamInv'
  <2> DEFINE q == Fin(c)
  <2>1. PICK g \in GarbageLen : tcb' = [tcb EXCEPT ![h] = Goto(PostSend(c, q, g), next)]
    BY <1>4 DEF SendFin
  <2> DEFINE v == PostSend(c, q, g)
             t == Goto(v, next)
  <2>2. TakeRequest(h, <<q>>, <<StatusUp>>) /\ g \in Nat
    BY <1>4, GarbageAssumption DEF SendFin
  <2>3. q \in Packet /\ <<q>> \in Seq(Packet) /\ Dataless(<<q>>)
    BY <1>0, OutParts, OutTypes, DatalessOut
  <2> HIDE DEF q
  <2>4. Calm(c, v)
    BY <1>0, <2>2, <2>3, CalmFacts
  <2> HIDE DEF v
  <2>5. Calm(v, t) /\ t.state = next
    BY <1>3, <2>4, CalmFacts DEF Calm
  <2>6. tcb' = [tcb EXCEPT ![h] = t]
    BY <2>1 DEF v
  <2> HIDE DEF t, c
  <2>7. Calm(c, t)
    BY <1>0, <2>4, <2>5, CalmFacts
  <2>8. Plain(c, t) /\ t \in Record /\ t.state # "ESTABLISHED"
    BY <1>2, <2>5, <2>7
  <2> QED
    BY <1>0, <1>1, <1>4, <2>2, <2>3, <2>6, <2>8, DatalessOut, PlainStep DEF c
<1>5. ASSUME NEW next \in Past, NEW msgs \in {<<>>, <<WriteUp(<<>>)>>}, net[h] # <<>>,
             "FIN" \in p.flags, AnswerFin(h, next, msgs)
      PROVE  StreamInv'
  <2> DEFINE r == PostRecv(c, p, 1)
             q == Ack(r, <<>>)
             v == PostSend(r, q, 0)
             w == Goto(v, next)
             t == [w EXCEPT !.tmr = @ \/ next = "TIME_WAIT"]
  <2>1. TakePacket(h, <<q>>, msgs) /\ tcb' = [tcb EXCEPT ![h] = t]
    BY <1>5 DEF AnswerFin
  <2>2. SegLen(p) = 1
    BY <1>5 DEF SegLen
  <2>3. Calm(c, r)
    BY <1>5, <2>2, CalmReceived
  <2> HIDE DEF r
  <2>4. q \in Packet /\ <<q>> \in Seq(Packet) /\ Dataless(<<q>>)
    BY <1>1, <2>3, OutParts, OutTypes, DatalessOut DEF Calm
  <2> HIDE DEF q
  <2>5. Calm(r, v)
    BY <2>3, <2>4, CalmFacts DEF Calm
  <2> HIDE DEF v
  <2>6. Calm(v, w) /\ w.state = next
    BY <1>3, <2>5, CalmFacts DEF Calm
  <2> HIDE DEF w
  <2>7. Calm(w, t) /\ t.state = next
    <3>1. w \in Record /\ w.tmr \in BOOLEAN
      BY <2>6 DEF Calm, Record
    <3>2. (w.tmr \/ next = "TIME_WAIT") \in BOOLEAN
      BY <3>1
    <3> QED
      BY <2>6, <3>1, <3>2, CalmFacts
  <2> HIDE DEF t, c, p
  <2>8. Calm(c, t)
    <3>1. Calm(c, v)
      BY <1>0, <2>3, <2>5, CalmFacts
    <3>2. Calm(c, w)
      BY <1>0, <2>6, <3>1, CalmFacts
    <3> QED
      BY <1>0, <2>7, <3>2, CalmFacts
  <2>9. Plain(c, t) /\ t \in Record
    BY <1>2, <2>7, <2>8
  <2>10. msgs \in Seq(Response) /\ Dataless(msgs)
    BY <1>1, <1>5, DatalessOut
  <2> QED
    BY <1>0, <1>5, <2>1, <2>4, <2>9, <2>10, PlainStep DEF c
<1>6. ASSUME NEW next \in Past, net[h] # <<>>, TakePacket(h, <<>>, <<>>),
             tcb' = [tcb EXCEPT ![h] = Goto(PostRecv(c, p, SegLen(p)), next)]
      PROVE  StreamInv'
  <2> DEFINE r == PostRecv(c, p, SegLen(p))
             t == Goto(r, next)
  <2>1. p \in Packet
    BY <1>0, <1>6, HeadTypes
  <2>2. SegLen(p) \in Nat /\ SegLen(p) <= SegLen(p)
    BY <2>1, PacketNats
  <2>3. Calm(c, r)
    BY <1>6, <2>2, CalmReceived
  <2> HIDE DEF r
  <2>4. Calm(r, t) /\ t.state = next
    BY <1>3, <2>3, CalmFacts DEF Calm
  <2>5. tcb' = [tcb EXCEPT ![h] = t]
    BY <1>6 DEF r
  <2> HIDE DEF t, c, p
  <2>6. Calm(c, t)
    BY <1>0, <2>3, <2>4, CalmFacts
  <2>7. Plain(c, t) /\ t \in Record
    BY <1>2, <2>4, <2>6
  <2> QED
    BY <1>0, <1>1, <1>6, <2>5, <2>7, DatalessOut, PlainStep DEF c
<1>7. CASE establishedToFinWait1(h) \/ closeWaitToLastAck(h)
  BY <1>4, <1>7 DEF establishedToFinWait1, closeWaitToLastAck, FromSock, Past
<1>8. CASE finWait2ToTimeWait(h) \/ establishedToCloseWait(h)
  <2>1. net[h] # <<>> /\ "FIN" \in p.flags
    BY <1>8, PacketGuards DEF finWait2ToTimeWait, establishedToCloseWait, FromMux
  <2>2. \/ AnswerFin(h, "TIME_WAIT", <<>>)
        \/ AnswerFin(h, "CLOSE_WAIT", <<WriteUp(<<>>)>>)
    BY <1>8 DEF finWait2ToTimeWait, establishedToCloseWait
  <2> QED
    BY <1>5, <2>1, <2>2 DEF Past
<1>9. CASE finWait1ToFinWait2(h)
  BY <1>6, <1>9 DEF finWait1ToFinWait2, FromMux, Past
<1>10. CASE lastAckToClosed(h)
  BY <1>6, <1>10 DEF lastAckToClosed, FromMux, Past
<1> QED
  BY <1>7, <1>8, <1>9, <1>10

\* A segment of the data transfer.
LEMMA LoopPacketOrder ==
  ASSUME AckInv, AckInv', SendInv, AgreeInv, StreamInv, NEW h \in Host,
         establishedLoopPacket(h)
  PROVE  StreamInv'
<1> DEFINE k      == Peer(h)
           c      == tcb[h]
           p      == Head(net[h])
           n      == Residue(p)
           t1     == PostRecv(c, p, n)
           accept == p.data # <<>> /\ Accepts(c, p)
           recv   == IF accept THEN c.recvBuf \o p.data ELSE c.recvBuf
           t2     == [t1 EXCEPT
                        !.recvBuf = recv,
                        !.sendBuf = EraseFront(@, t1.lastAcked - c.lastAcked),
                        !.tmr     = t1.lastAcked # t1.lastSent]
           t      == [t2 EXCEPT !.room = SendRoom(t2)]
           out    == IF p.data # <<>> THEN <<Ack(t1, <<>>)>> ELSE <<>>
           msgs   == IF accept /\ c.recvBuf = <<>> THEN <<WriteUp(recv)>> ELSE <<>>
           m      == t1.lastAcked - c.lastAcked
<1>0. TypeOK
  BY DEF AckInv
<1>00. /\ Direction(tcb[k], toTcp[k], app[k].wrote, net[h],
                    c.lastRecvd, app[h].got, toSock[h], c.recvBuf)
       /\ Direction(c, toTcp[h], app[h].wrote, net[k],
                    tcb[k].lastRecvd, app[k].got, toSock[k], tcb[k].recvBuf)
       /\ k \in Host /\ k # h /\ c \in Record /\ tcb[k] \in Record
       /\ net[h] \in Seq(Packet) /\ net[k] \in Seq(Packet)
       /\ toTcp[h] \in Seq(Request) /\ toSock[h] \in Seq(Response)
       /\ app[h].got \in Seq(Nat) /\ app[h].wrote \in Nat
       /\ c.recvBuf \in Seq(Nat) /\ c.lastRecvd \in Nat /\ tcb[k].lastRecvd \in Nat
  BY <1>0, StreamFinds
<1>1. net[h] # <<>> /\ OnPacket(c.state, p.flags) = "Loop"
  BY DEF establishedLoopPacket, FromMux
<1>2. p \in Packet /\ p.data \in Seq(Nat)
  <2>1. p \in Packet
    BY <1>0, <1>1, HeadTypes
  <2> QED
    BY <2>1 DEF Packet
<1>3. /\ tcb' = [tcb EXCEPT ![h] = t]
      /\ net' = [net EXCEPT ![h] = Tail(@), ![k] = @ \o out]
      /\ toSock' = [toSock EXCEPT ![h] = @ \o msgs]
      /\ toTcp' = toTcp /\ app' = app
  <2>1. tcb' = [tcb EXCEPT ![h] = t] /\ TakePacket(h, out, msgs)
    BY DEF establishedLoopPacket
  <2> HIDE DEF t, out, msgs
  <2> QED
    BY <2>1 DEF TakePacket, sockVars
<1>4. c.state = "ESTABLISHED" /\ p.flags = {"ACK"}
  BY <1>1, PacketGuards
<1>5. n \in Nat /\ n <= SegLen(p)
  <2>1. SegLen(p) = Len(p.data)
    BY <1>4 DEF SegLen
  <2> QED
    BY <1>2, <2>1, SegmentLengths
<1>6. t1 \in Record /\ Counts(h, t1) /\ Calm(c, t1)
  BY <1>1, <1>5, ReceivedIsBacked, CalmReceived
<1>7. Unacked(t1) \in Nat /\ Unacked(c) \in Nat
  BY <1>6, UnackedOf, UnackedIsNat DEF Counts
<1>8. Agrees(c, ISN[h], tcb[k], ISN[k]) /\ ISN[k] \in Nat \ {0}
  BY Finds
<1>9. TypeOK'
  BY DEF AckInv
<1>10. t \in Record
  <2> HIDE DEF t
  <2> QED
    BY <1>0, <1>3, <1>9, NewRecord
<1> HIDE DEF c, p, n, k
<1>11. /\ t1.state = "ESTABLISHED" /\ t1.lastSent = c.lastSent /\ t1.lastAcked >= c.lastAcked
       /\ t1.lastRecvd = IF Accepts(c, p) THEN p.seq + n - 1 ELSE c.lastRecvd
  <2>1. /\ t1.state = c.state /\ t1.lastSent = c.lastSent /\ t1.lastAcked >= c.lastAcked
        /\ t1.lastRecvd = IF Accepts(c, p) THEN p.seq + n - 1 ELSE c.lastRecvd
    BY <1>00, <1>2, <1>5, ReceivedParts, Zenon
  <2> QED
    BY <1>4, <2>1
<1>12. m \in Nat /\ Unacked(t1) = Unacked(c) - m
  <2>1. /\ c.lastAcked \in Nat /\ c.lastSent \in Nat /\ t1.lastAcked \in Nat
        /\ t1.lastSent \in Nat
    BY <1>00, <1>6, RecordNats
  <2> HIDE DEF t1
  <2> QED
    BY <1>11, <2>1 DEF Unacked
<1> HIDE DEF t1, accept, recv
<1>13. t.sendBuf = EraseFront(c.sendBuf, m) /\ t.recvBuf = recv
  <2>1. t2.sendBuf = EraseFront(t1.sendBuf, m) /\ t2.recvBuf = recv /\ DOMAIN t2 = DOMAIN t1
    BY <1>6 DEF Record
  <2> HIDE DEF t2, m
  <2>2. t.sendBuf = t2.sendBuf /\ t.recvBuf = t2.recvBuf
    BY <1>6, <2>1 DEF Record
  <2> QED
    BY <1>6, <2>1, <2>2 DEF Calm
<1>14. t.lastRecvd = t1.lastRecvd /\ t.state = "ESTABLISHED" /\ Unacked(t) = Unacked(t1)
  <2>1. /\ t2.lastRecvd = t1.lastRecvd /\ t2.state = t1.state /\ t2.lastSent = t1.lastSent
        /\ t2.lastAcked = t1.lastAcked /\ DOMAIN t2 = DOMAIN t1
    BY <1>6 DEF Record
  <2> HIDE DEF t2, m
  <2>2. /\ t.lastRecvd = t2.lastRecvd /\ t.state = t2.state /\ t.lastSent = t2.lastSent
        /\ t.lastAcked = t2.lastAcked
    BY <1>6, <2>1 DEF Record
  <2> HIDE DEF t
  <2> QED
    BY <1>11, <2>1, <2>2 DEF Unacked
<1> HIDE DEF t, t2, m
<1>15. out \in Seq(Packet) /\ \A i \in DOMAIN out : out[i].data = <<>>
  <2>1. <<>> \in Seq(Packet) /\ <<>> \in Seq(Nat)
    BY OutTypes
  <2>2. Ack(t1, <<>>) \in Packet /\ Dataless(<<Ack(t1, <<>>)>>)
    BY <1>6, <2>1, OutParts, DatalessOut
  <2>3. <<Ack(t1, <<>>)>> \in Seq(Packet)
    BY <2>2, OutTypes
  <2> QED
    BY <2>1, <2>2, <2>3, DatalessOut DEF Dataless
<1>16. recv \in Seq(Nat) /\ (accept => recv = c.recvBuf \o p.data)
       /\ (~accept => recv = c.recvBuf)
  <2>1. c.recvBuf \o p.data \in Seq(Nat) /\ c.recvBuf \in Seq(Nat)
    BY <1>00, <1>2
  <2> QED
    BY <2>1, Zenon DEF recv
<1>17. msgs \in Seq(Response) /\ \A i \in DOMAIN msgs : msgs[i].data = <<>> \/ msgs[i].data = recv
  <2>1. <<>> \in Seq(Response) /\ <<WriteUp(recv)>> \in Seq(Response)
    BY <1>16, MessageTypes
  <2>2. \A i \in DOMAIN <<WriteUp(recv)>> : <<WriteUp(recv)>>[i].data = recv
    BY DEF WriteUp
  <2> QED
    BY <2>1, <2>2
<1> HIDE DEF out, msgs
<1>18. /\ tcb'[h] = t /\ tcb'[k] = tcb[k]
       /\ net'[h] = Tail(net[h]) /\ net'[k] = net[k] \o out
       /\ toSock'[h] = toSock[h] \o msgs /\ toSock'[k] = toSock[k]
  BY <1>0, <1>00, <1>3 DEF TypeOK
<1>19. Direction(tcb[k], toTcp[k], app[k].wrote, net'[h],
                 t.lastRecvd, app[h].got, toSock'[h], t.recvBuf)
  <2>1. t1.lastRecvd \in Nat /\ c.lastRecvd <= t1.lastRecvd
    BY <1>00, <1>6, RecordNats DEF Calm
  <2>2. Direction(tcb[k], toTcp[k], app[k].wrote, Tail(net[h]),
                  t1.lastRecvd, app[h].got, toSock[h], recv)
    <3>1. CASE accept
      <4>1. c.lastRecvd > 0
        BY <1>00, <1>4, <1>8 DEF Agrees, Opened, Synchronized
      <4>2. p.data # <<>> /\ p.seq = c.lastRecvd + 1
        BY <1>00, <3>1, <4>1 DEF accept, Accepts
      <4>3. Direction(tcb[k], toTcp[k], app[k].wrote, Tail(net[h]),
                      t1.lastRecvd, app[h].got, toSock[h], c.recvBuf \o Head(net[h]).data)
        BY <1>00, <1>1, <2>1, <4>2, DirectionAccepts DEF p
      <4> QED
        BY <1>16, <3>1, <4>3 DEF p
    <3>2. CASE ~accept
      <4>1. Direction(tcb[k], toTcp[k], app[k].wrote, Tail(net[h]),
                      c.lastRecvd, app[h].got, toSock[h], c.recvBuf)
        BY <1>00, <1>1, DirectionLoses
      <4>2. Tail(net[h]) \in Seq(Packet)
        BY <1>00, <1>1
      <4>3. Direction(tcb[k], toTcp[k], app[k].wrote, Tail(net[h]),
                      t1.lastRecvd, app[h].got, toSock[h], c.recvBuf)
        BY <1>00, <2>1, <4>1, <4>2, DirectionCounts
      <4> QED
        BY <1>16, <3>2, <4>3
    <3> QED
      BY <3>1, <3>2
  <2>3. Direction(tcb[k], toTcp[k], app[k].wrote, Tail(net[h]),
                  t1.lastRecvd, app[h].got, toSock[h] \o msgs, recv)
    BY <1>00, <1>16, <1>17, <2>2, DirectionSays
  <2> QED
    BY <1>13, <1>14, <1>18, <2>3
<1>20. Direction(t, toTcp[h], app[h].wrote, net'[k],
                 tcb[k].lastRecvd, app[k].got, toSock[k], tcb[k].recvBuf)
  <2>1. Direction(t, toTcp[h], app[h].wrote, net[k],
                  tcb[k].lastRecvd, app[k].got, toSock[k], tcb[k].recvBuf)
    BY <1>00, <1>4, <1>7, <1>10, <1>12, <1>13, <1>14, DirectionAcked
  <2>2. Direction(t, toTcp[h], app[h].wrote, net[k] \o out,
                  tcb[k].lastRecvd, app[k].got, toSock[k], tcb[k].recvBuf)
    BY <1>00, <1>15, <2>1, DirectionQueues
  <2> QED
    BY <1>18, <2>2
<1> QED
  BY <1>3, <1>18, <1>19, <1>20, StreamStep DEF k

\* The requests of the data transfer.
LEMMA LoopRequestOrder ==
  ASSUME AckInv, AckInv', StreamInv, NEW h \in Host,
         establishedLoopWrite(h) \/ establishedLoopStatus(h)
  PROVE  StreamInv'
<1> DEFINE k == Peer(h)
           c == tcb[h]
           q == Head(toTcp[h])
<1>0. TypeOK /\ TypeOK'
  BY DEF AckInv
<1>00. /\ Direction(tcb[k], toTcp[k], app[k].wrote, net[h],
                    c.lastRecvd, app[h].got, toSock[h], c.recvBuf)
       /\ Direction(c, toTcp[h], app[h].wrote, net[k],
                    tcb[k].lastRecvd, app[k].got, toSock[k], tcb[k].recvBuf)
       /\ k \in Host /\ k # h /\ c \in Record /\ tcb[k] \in Record
       /\ net[h] \in Seq(Packet) /\ net[k] \in Seq(Packet)
       /\ toTcp[h] \in Seq(Request) /\ toSock[h] \in Seq(Response)
       /\ app[h].got \in Seq(Nat) /\ app[h].wrote \in Nat
       /\ c.recvBuf \in Seq(Nat) /\ c.lastRecvd \in Nat /\ tcb[k].lastRecvd \in Nat
  BY <1>0, StreamFinds
<1>1. Unacked(c) \in Nat
  BY UnackedIsNat
<1>2. ASSUME NEW t, NEW msgs \in Seq(Response), toTcp[h] # <<>>,
             tcb' = [tcb EXCEPT ![h] = t], TakeRequest(h, <<>>, msgs)
      PROVE  /\ t \in Record /\ tcb'[h] = t /\ tcb'[k] = tcb[k]
             /\ net'[h] = net[h] /\ net'[k] = net[k]
             /\ toTcp'[h] = Tail(toTcp[h]) /\ toTcp'[k] = toTcp[k]
             /\ toSock'[h] = toSock[h] \o msgs /\ toSock'[k] = toSock[k]
             /\ app' = app
  <2>1. t \in Record
    BY <1>0, <1>2, NewRecord
  <2>2. net[k] \o <<>> = net[k]
    BY <1>00
  <2> QED
    BY <1>0, <1>00, <1>2, <2>1, <2>2 DEF TakeRequest, TypeOK, sockVars
<1>3. CASE establishedLoopWrite(h)
  <2> DEFINE t2 == [c EXCEPT !.sendBuf = @ \o q.data]
             t == [t2 EXCEPT !.room = SendRoom(t2)]
  <2>1. /\ toTcp[h] # <<>> /\ OnRequest(c.state, q.type) = "LoopWrite"
        /\ tcb' = [tcb EXCEPT ![h] = t] /\ TakeRequest(h, <<>>, <<StatusUp>>)
    BY <1>3 DEF establishedLoopWrite, FromSock
  <2>2. c.state = "ESTABLISHED" /\ q.type = "WRITE"
    BY <2>1 DEF OnRequest
  <2>3. <<StatusUp>> \in Seq(Response) /\ Dataless(<<StatusUp>>)
    BY MessageTypes, DatalessOut
  <2>4. /\ t.sendBuf = c.sendBuf \o q.data /\ t.recvBuf = c.recvBuf
        /\ t.lastRecvd = c.lastRecvd /\ t.state = c.state /\ t.lastSent = c.lastSent
        /\ t.lastAcked = c.lastAcked
    <3>1. /\ t2.sendBuf = c.sendBuf \o q.data /\ t2.recvBuf = c.recvBuf
          /\ t2.lastRecvd = c.lastRecvd /\ t2.state = c.state /\ t2.lastSent = c.lastSent
          /\ t2.lastAcked = c.lastAcked /\ DOMAIN t2 = DOMAIN c
      BY <1>00 DEF Record
    <3> HIDE DEF t2
    <3> QED
      BY <1>00, <3>1 DEF Record
  <2> HIDE DEF t, t2, c, q, k
  <2>5. /\ t \in Record /\ tcb'[h] = t /\ tcb'[k] = tcb[k]
        /\ net'[h] = net[h] /\ net'[k] = net[k]
        /\ toTcp'[h] = Tail(toTcp[h]) /\ toTcp'[k] = toTcp[k]
        /\ toSock'[h] = toSock[h] \o <<StatusUp>> /\ toSock'[k] = toSock[k]
        /\ app' = app
    BY <1>2, <2>1, <2>3
  <2>6. Unacked(t) = Unacked(c)
    BY <2>4 DEF Unacked
  <2>7. Direction(t, Tail(toTcp[h]), app[h].wrote, net[k],
                  tcb[k].lastRecvd, app[k].got, toSock[k], tcb[k].recvBuf)
    BY <1>00, <1>1, <2>1, <2>2, <2>4, <2>5, <2>6, DirectionWrites DEF q
  <2>8. Direction(tcb[k], toTcp[k], app[k].wrote, net[h],
                  t.lastRecvd, app[h].got, toSock[h] \o <<StatusUp>>, t.recvBuf)
    BY <1>00, <2>3, <2>4, DirectionSays DEF Dataless
  <2> QED
    BY <2>5, <2>7, <2>8, StreamStep DEF k
<1>4. CASE establishedLoopStatus(h)
  <2> DEFINE left == EraseFront(c.recvBuf, q.bytes)
             msgs == IF left # <<>> THEN <<WriteUp(left)>> ELSE <<>>
             t == [c EXCEPT !.recvBuf = left]
  <2>1. /\ toTcp[h] # <<>> /\ OnRequest(c.state, q.type) = "LoopStatus"
        /\ tcb' = [tcb EXCEPT ![h] = t] /\ TakeRequest(h, <<>>, msgs)
    BY <1>0, <1>4 DEF establishedLoopStatus, FromSock, TypeOK
  <2>2. c.state = "ESTABLISHED" /\ q.type # "WRITE" /\ q.bytes \in Nat
    <3>1. q \in Request
      BY <1>0, <2>1, HeadTypes
    <3> QED
      BY <2>1, <3>1 DEF OnRequest, Request
  <2>3. left \in Seq(Nat)
    BY <1>00, <2>2, BufferTypes
  <2>4. /\ t.sendBuf = c.sendBuf /\ t.recvBuf = left
        /\ t.lastRecvd = c.lastRecvd /\ t.state = c.state /\ t.lastSent = c.lastSent
        /\ t.lastAcked = c.lastAcked
    BY <1>00 DEF Record
  <2>40. Direction(tcb[k], toTcp[k], app[k].wrote, net[h],
                   c.lastRecvd, app[h].got, toSock[h], left)
    BY <1>00, <2>2, DirectionTold
  <2> HIDE DEF t, left, c, q, k
  <2>5. msgs \in Seq(Response) /\ \A i \in DOMAIN msgs : msgs[i].data = left
    <3>1. <<>> \in Seq(Response) /\ <<WriteUp(left)>> \in Seq(Response)
      BY <2>3, MessageTypes
    <3>2. \A i \in DOMAIN <<WriteUp(left)>> : <<WriteUp(left)>>[i].data = left
      BY DEF WriteUp
    <3> QED
      BY <3>1, <3>2
  <2> HIDE DEF msgs
  <2>6. /\ t \in Record /\ tcb'[h] = t /\ tcb'[k] = tcb[k]
        /\ net'[h] = net[h] /\ net'[k] = net[k]
        /\ toTcp'[h] = Tail(toTcp[h]) /\ toTcp'[k] = toTcp[k]
        /\ toSock'[h] = toSock[h] \o msgs /\ toSock'[k] = toSock[k]
        /\ app' = app
    BY <1>2, <2>1, <2>5
  <2>7. Unacked(t) = Unacked(c)
    BY <2>4 DEF Unacked
  <2>8. Direction(t, Tail(toTcp[h]), app[h].wrote, net[k],
                  tcb[k].lastRecvd, app[k].got, toSock[k], tcb[k].recvBuf)
    BY <1>00, <1>1, <2>1, <2>2, <2>4, <2>6, <2>7, DirectionWriter DEF q
  <2>9. Direction(tcb[k], toTcp[k], app[k].wrote, net[h],
                  c.lastRecvd, app[h].got, toSock[h] \o msgs, left)
    BY <1>00, <2>3, <2>5, <2>40, DirectionSays
  <2> QED
    BY <2>4, <2>6, <2>8, <2>9, StreamStep DEF k
<1> QED
  BY <1>3, <1>4

\* An iteration of the send loop: what it sends is numbered after all before.
LEMMA SendOrder ==
  ASSUME AckInv, AckInv', SendInv, StreamInv, NEW h \in Host, SendSegment(h)
  PROVE  StreamInv'
<1> DEFINE k     == Peer(h)
           c     == tcb[h]
           off   == Unacked(c)
           bytes == MinOf(c.room, MSS)
           d     == Extracted(c.sendBuf, off, bytes)
           a     == Ack(c, d)
           sent  == PostSend(c, a, Len(d))
           t     == [sent EXCEPT !.sendBuf = AfterExtract(@, off, bytes),
                                 !.tmr     = TimerOnSend(c),
                                 !.room    = @ - bytes]
<1>0. TypeOK /\ TypeOK'
  BY DEF AckInv
<1>00. /\ Direction(tcb[k], toTcp[k], app[k].wrote, net[h],
                    c.lastRecvd, app[h].got, toSock[h], c.recvBuf)
       /\ Direction(c, toTcp[h], app[h].wrote, net[k],
                    tcb[k].lastRecvd, app[k].got, toSock[k], tcb[k].recvBuf)
       /\ k \in Host /\ k # h /\ c \in Record /\ tcb[k] \in Record
       /\ net[h] \in Seq(Packet) /\ net[k] \in Seq(Packet)
       /\ toTcp[h] \in Seq(Request) /\ toSock[h] \in Seq(Response)
       /\ app[h].got \in Seq(Nat) /\ app[h].wrote \in Nat
       /\ c.recvBuf \in Seq(Nat) /\ c.lastRecvd \in Nat /\ tcb[k].lastRecvd \in Nat
  BY <1>0, StreamFinds
<1>1. off \in Nat /\ off <= Len(c.sendBuf) /\ c.room > 0
  BY UnackedIsNat DEF SendSegment
<1>2. /\ tcb' = [tcb EXCEPT ![h] = t] /\ net' = [net EXCEPT ![k] = Append(@, a)]
      /\ UNCHANGED <<toTcp, toSock, app>>
  BY DEF SendSegment, Ack, sockVars
<1>3. t \in Record
  <2> HIDE DEF t
  <2> QED
    BY <1>0, <1>2, NewRecord
<1>4. /\ c.sendBuf \in Seq(Nat) /\ c.room \in Nat /\ c.lastSent \in Nat
      /\ c.lastAcked \in Nat
  BY <1>00 DEF Record
<1>5. bytes \in Nat /\ bytes <= MSS
  BY <1>4, MSSAssumption DEF MinOf
<1>6. c.state = "ESTABLISHED"
  <2>1. SentRight(c, ISN[h])
    BY DEF SendInv
  <2> QED
    BY <1>1, <1>4, <2>1 DEF SentRight
<1>7. \A i \in DOMAIN net[k] : BackedBy(c, net[k][i])
  <2>1. Peer(k) = h
    BY PeerFacts
  <2> QED
    BY <1>00, <2>1 DEF AckInv, SegmentsBacked
<1> HIDE DEF c, bytes, k
<1>8. d \in Seq(Nat) /\ Len(d) \in Nat
  <2>1. d \in Seq(Nat)
    BY <1>1, <1>4, <1>5, BufferTypes
  <2> QED
    BY <2>1
<1>80. d = Extracted(c.sendBuf, Unacked(c), bytes)
  OBVIOUS
<1> HIDE DEF d
<1>9. a \in Packet /\ a.seq = c.lastSent + 1 /\ a.flags = {"ACK"} /\ a.data = d
  BY <1>00, <1>8, OutParts
<1> HIDE DEF a
<1>10. /\ sent \in Record /\ sent.state = c.state /\ sent.lastAcked = c.lastAcked
       /\ sent.lastRecvd = c.lastRecvd /\ sent.sendBuf = c.sendBuf
       /\ sent.lastSent = MaxOf(c.lastSent, a.seq + Len(d) - 1)
  BY <1>00, <1>8, <1>9, SentParts, ZenonT(60)
<1>11. sent.recvBuf = c.recvBuf
  BY <1>00, <1>8, <1>9, BytesKept DEF State
<1> HIDE DEF sent
<1>12. sent.lastSent = c.lastSent + Len(d)
  BY <1>4, <1>8, <1>9, <1>10 DEF MaxOf
<1>13. /\ t.state = "ESTABLISHED" /\ t.lastAcked = c.lastAcked /\ t.recvBuf = c.recvBuf
       /\ t.lastRecvd = c.lastRecvd /\ t.lastSent = sent.lastSent
       /\ t.sendBuf = AfterExtract(c.sendBuf, Unacked(c), bytes)
  BY <1>6, <1>10, <1>11 DEF Record
<1> HIDE DEF t
<1>14. Unacked(t) = Unacked(c) + Len(a.data)
  BY <1>4, <1>8, <1>9, <1>12, <1>13 DEF Unacked
<1>15. \A i \in DOMAIN net[k] : net[k][i].data # <<>> => net[k][i].seq < a.seq
  <2> SUFFICES ASSUME NEW i \in DOMAIN net[k], net[k][i].data # <<>>
               PROVE  net[k][i].seq < a.seq
    OBVIOUS
  <2> DEFINE q == net[k][i]
  <2>1. q \in Packet
    BY <1>00
  <2>2. q.seq \in Nat /\ q.data \in Seq(Nat) /\ q.data # <<>>
    BY <2>1 DEF Packet
  <2>3. q.flags = {"ACK"}
    BY <1>00 DEF Direction, SegmentsRight, DataRight
  <2>4. BackedBy(c, q)
    BY <1>7
  <2> HIDE DEF q
  <2>5. SegLen(q) = Len(q.data)
    BY <2>3 DEF SegLen
  <2>6. Len(q.data) \in Nat /\ Len(q.data) >= 1
    BY <2>2
  <2>7. q.seq + Len(q.data) - 1 <= c.lastSent
    BY <2>4, <2>5 DEF BackedBy
  <2>8. q.seq < c.lastSent + 1
    BY <1>4, <2>2, <2>6, <2>7
  <2> QED
    BY <1>9, <2>8 DEF q
<1>16. Direction(t, toTcp[h], app[h].wrote, Append(net[k], a),
                 tcb[k].lastRecvd, app[k].got, toSock[k], tcb[k].recvBuf)
  BY <1>00, <1>1, <1>3, <1>5, <1>6, <1>80, <1>9, <1>13, <1>14, <1>15, DirectionSends
<1>17. /\ tcb'[h] = t /\ tcb'[k] = tcb[k]
       /\ net'[h] = net[h] /\ net'[k] = Append(net[k], a)
  BY <1>0, <1>00, <1>2 DEF TypeOK
<1>18. Direction(tcb[k], toTcp[k], app[k].wrote, net[h],
                 t.lastRecvd, app[h].got, toSock[h], t.recvBuf)
  BY <1>00, <1>13
<1> QED
  BY <1>2, <1>16, <1>17, <1>18, StreamStep DEF k

\* A step that leaves all that StreamInv is about.
LEMMA OrderUntouched ==
  ASSUME TypeOK, StreamInv, UNCHANGED <<tcb, net, toTcp, toSock, app>>
  PROVE  StreamInv'
<1>1. A \in Host
  BY DEF Host
<1>2. tcb' = tcb /\ net' = net /\ toTcp' = toTcp /\ toSock' = toSock /\ app' = app
  OBVIOUS
<1>3. /\ Direction(tcb[Peer(A)], toTcp[Peer(A)], app[Peer(A)].wrote, net[A],
                   tcb[A].lastRecvd, app[A].got, toSock[A], tcb[A].recvBuf)
      /\ Direction(tcb[A], toTcp[A], app[A].wrote, net[Peer(A)],
                   tcb[Peer(A)].lastRecvd, app[Peer(A)].got, toSock[Peer(A)],
                   tcb[Peer(A)].recvBuf)
  BY <1>1, StreamFinds
<1> QED
  BY <1>1, <1>2, <1>3, StreamStep

\* sock_module takes a message, and answers the data.
LEMMA SockOrder ==
  ASSUME TypeOK, StreamInv, NEW h \in Host, SockStep(h)
  PROVE  StreamInv'
<1> DEFINE k == Peer(h)
           d == Head(toSock[h]).data
<1>0. /\ Direction(tcb[k], toTcp[k], app[k].wrote, net[h],
                   tcb[h].lastRecvd, app[h].got, toSock[h], tcb[h].recvBuf)
      /\ Direction(tcb[h], toTcp[h], app[h].wrote, net[k],
                   tcb[k].lastRecvd, app[k].got, toSock[k], tcb[k].recvBuf)
      /\ k \in Host /\ k # h
      /\ toTcp[h] \in Seq(Request) /\ toSock[h] \in Seq(Response)
      /\ app[h].got \in Seq(Nat) /\ app[h].wrote \in Nat
      /\ tcb[h].recvBuf \in Seq(Nat)
  BY StreamFinds
<1>1. /\ tcb' = tcb /\ net' = net /\ toSock[h] # <<>>
      /\ toSock' = [toSock EXCEPT ![h] = Tail(@)]
  BY DEF SockStep, HandleTCPWrite, HandleTCPStatus, tcpVars
<1>2. toSock'[h] = Tail(toSock[h]) /\ toSock'[k] = toSock[k]
  BY <1>0, <1>1 DEF TypeOK
<1>3. /\ app'[k] = app[k] /\ app'[h].wrote = app[h].wrote
      /\ app'[h].got = app[h].got \/ app'[h].got = app[h].got \o d
  <2>1. CASE HandleTCPStatus(h)
    BY <2>1 DEF HandleTCPStatus
  <2>2. CASE HandleTCPWrite(h)
    <3>1. \E taken, e :
            app' = [app EXCEPT ![h].got = IF taken THEN @ \o d ELSE @, ![h].eof = e]
      BY <2>2 DEF HandleTCPWrite
    <3>2. /\ app \in [Host -> [wrote : Nat, got : Seq(Nat), eof : BOOLEAN]]
      BY DEF TypeOK
    <3> HIDE DEF d
    <3> QED
      BY <1>0, <3>1, <3>2
  <2> QED
    BY <2>1, <2>2 DEF SockStep
<1>4. /\ toTcp'[k] = toTcp[k]
      /\ \/ toTcp'[h] = toTcp[h]
         \/ \E r \in Request : r.type = "STATUS" /\ toTcp'[h] = Append(toTcp[h], r)
  <2>1. CASE HandleTCPStatus(h)
    BY <2>1 DEF HandleTCPStatus
  <2>2. CASE HandleTCPWrite(h)
    <3> DEFINE r == Req("STATUS", <<>>, IF sock[h].status = "CLOSED" THEN 0 ELSE Len(d))
    <3>1. toTcp' = [toTcp EXCEPT ![h] = Append(@, r)]
      BY <2>2 DEF HandleTCPWrite, SendTCPRequest
    <3>2. r \in Request /\ r.type = "STATUS"
      <4>1. Head(toSock[h]) \in Response
        BY <1>1, HeadTypes
      <4>2. Len(d) \in Nat /\ <<>> \in Seq(Nat)
        BY <4>1 DEF Response
      <4> HIDE DEF d
      <4> QED
        BY <4>2 DEF Req, Request, RequestType
    <3> HIDE DEF r
    <3> QED
      BY <1>0, <3>1, <3>2 DEF TypeOK
  <2> QED
    BY <2>1, <2>2 DEF SockStep
<1>5. Direction(tcb[k], toTcp[k], app[k].wrote, net[h],
                tcb[h].lastRecvd, app'[h].got, Tail(toSock[h]), tcb[h].recvBuf)
  BY <1>0, <1>1, <1>3, DirectionUp
<1> HIDE DEF k, d
<1>6. Direction(tcb[h], toTcp'[h], app[h].wrote, net[k],
                tcb[k].lastRecvd, app[k].got, toSock[k], tcb[k].recvBuf)
  <2>1. CASE toTcp'[h] = toTcp[h]
    BY <1>0, <2>1
  <2>2. ASSUME NEW r \in Request, r.type = "STATUS", toTcp'[h] = Append(toTcp[h], r)
        PROVE  Direction(tcb[h], toTcp'[h], app[h].wrote, net[k],
                         tcb[k].lastRecvd, app[k].got, toSock[k], tcb[k].recvBuf)
    <3>1. r.type # "WRITE"
      BY <2>2
    <3>2. Direction(tcb[h], Append(toTcp[h], r), app[h].wrote, net[k],
                    tcb[k].lastRecvd, app[k].got, toSock[k], tcb[k].recvBuf)
      BY <1>0, <3>1, DirectionAsked
    <3> QED
      BY <2>2, <3>2
  <2> QED
    BY <1>4, <2>1, <2>2
<1> QED
  BY <1>1, <1>2, <1>3, <1>4, <1>5, <1>6, StreamStep DEF k

\* The application asks: it writes only when its last write was taken.
LEMMA AppOrder ==
  ASSUME TypeOK, CallInv, StreamInv, NEW h \in Host, AppStep(h)
  PROVE  StreamInv'
<1> DEFINE k == Peer(h)
<1>0. /\ Direction(tcb[k], toTcp[k], app[k].wrote, net[h],
                   tcb[h].lastRecvd, app[h].got, toSock[h], tcb[h].recvBuf)
      /\ Direction(tcb[h], toTcp[h], app[h].wrote, net[k],
                   tcb[k].lastRecvd, app[k].got, toSock[k], tcb[k].recvBuf)
      /\ k \in Host /\ k # h
      /\ toTcp[h] \in Seq(Request) /\ app[h].wrote \in Nat
  BY StreamFinds
<1>1. tcb' = tcb /\ net' = net /\ toSock' = toSock
  BY DEF AppStep, AppOpen, AppWrite, AppRead, AppClose, tcpVars
<1>2. CASE AppRead(h)
  BY <1>2, OrderUntouched DEF AppRead, tcpVars
<1>3. ASSUME NEW r \in Request, r.type # "WRITE", app' = app,
             toTcp' = [toTcp EXCEPT ![h] = Append(@, r)]
      PROVE  StreamInv'
  <2>1. toTcp'[h] = Append(toTcp[h], r) /\ toTcp'[k] = toTcp[k]
    BY <1>0, <1>3 DEF TypeOK
  <2> HIDE DEF k
  <2>2. Direction(tcb[h], Append(toTcp[h], r), app[h].wrote, net[k],
                  tcb[k].lastRecvd, app[k].got, toSock[k], tcb[k].recvBuf)
    BY <1>0, <1>3, DirectionAsked
  <2> QED
    BY <1>0, <1>1, <1>3, <2>1, <2>2, StreamStep DEF k
<1>4. CASE AppOpen(h)
  <2>1. PICK ty \in OpenAs[h] : toTcp' = [toTcp EXCEPT ![h] = Append(@, Req(ty, <<>>, 0))]
    BY <1>4 DEF AppOpen, SendTCPRequest
  <2>2. ty \in {"CONNECT", "ACCEPT"}
    BY OpenAssumption
  <2>3. Req(ty, <<>>, 0) \in Request /\ Req(ty, <<>>, 0).type # "WRITE"
    <3>1. <<>> \in Seq(Nat)
      OBVIOUS
    <3> QED
      BY <2>2, <3>1 DEF Req, Request, RequestType
  <2>4. app' = app
    BY <1>4 DEF AppOpen
  <2> QED
    BY <1>3, <2>1, <2>3, <2>4
<1>5. CASE AppClose(h)
  <2>1. toTcp' = [toTcp EXCEPT ![h] = Append(@, Req("CLOSE", <<>>, 0))] /\ app' = app
    BY <1>5 DEF AppClose, SendTCPRequest
  <2>2. Req("CLOSE", <<>>, 0) \in Request /\ Req("CLOSE", <<>>, 0).type # "WRITE"
    <3>1. <<>> \in Seq(Nat)
      OBVIOUS
    <3> QED
      BY <3>1 DEF Req, Request, RequestType
  <2> QED
    BY <1>3, <2>1, <2>2
<1>6. CASE AppWrite(h)
  <2> DEFINE b(n) == [i \in 1..n |-> app[h].wrote + i]
  <2>1. PICK n \in WriteSizes[h] :
          /\ app' = [app EXCEPT ![h].wrote = @ + n]
          /\ toTcp' = [toTcp EXCEPT ![h] = Append(@, Req("WRITE", b(n), 0))]
    BY <1>6 DEF AppWrite, SendTCPRequest
  <2> DEFINE r == Req("WRITE", b(n), 0)
  <2>2. n \in Nat
    BY WriteAssumption
  <2>3. b(n) \in Seq(Nat) /\ Len(b(n)) = n /\ \A j \in DOMAIN b(n) : b(n)[j] = app[h].wrote + j
    BY <1>0, <2>2
  <2>4. r \in Request /\ r.type = "WRITE" /\ r.data = b(n)
    <3> HIDE DEF b
    <3> QED
      BY <2>3 DEF Req, Request, RequestType
  <2>5. NoneOf(toTcp[h], {"WRITE"})
    <3>1. sock[h].status = "CONNECTED"
      BY <1>6 DEF AppWrite
    <3>2. Quiet(toTcp[h], toSock[h])
      BY <3>1 DEF CallInv, Fresh, NotOpened, Begun, CallRight
    <3> QED
      BY <3>2 DEF Quiet, NoneOf, RequestType
  <2>6. /\ app'[h].wrote = app[h].wrote + n /\ app'[h].got = app[h].got /\ app'[k] = app[k]
    BY <1>0, <2>1 DEF TypeOK
  <2>7. toTcp'[h] = Append(toTcp[h], r) /\ toTcp'[k] = toTcp[k]
    BY <1>0, <2>1 DEF TypeOK
  <2> HIDE DEF r, b, k
  <2>8. Direction(tcb[h], Append(toTcp[h], r), app[h].wrote + n, net[k],
                  tcb[k].lastRecvd, app[k].got, toSock[k], tcb[k].recvBuf)
    BY <1>0, <2>2, <2>3, <2>4, <2>5, DirectionAsked
  <2> QED
    BY <1>0, <1>1, <2>6, <2>7, <2>8, StreamStep DEF k
<1> QED
  BY <1>2, <1>4, <1>5, <1>6 DEF AppStep

\* The network loses, doubles or moves a segment.
LEMMA NetOrder ==
  ASSUME TypeOK, StreamInv, NEW h \in Host, NetStep(h)
  PROVE  StreamInv'
<1> DEFINE k == Peer(h)
<1>0. /\ Direction(tcb[k], toTcp[k], app[k].wrote, net[h],
                   tcb[h].lastRecvd, app[h].got, toSock[h], tcb[h].recvBuf)
      /\ Direction(tcb[h], toTcp[h], app[h].wrote, net[k],
                   tcb[k].lastRecvd, app[k].got, toSock[k], tcb[k].recvBuf)
      /\ k \in Host /\ k # h /\ net[h] \in Seq(Packet)
  BY StreamFinds
<1>1. PICK s : /\ net[h] # <<>> /\ net' = [net EXCEPT ![h] = s]
               /\ \/ s = Tail(net[h])
                  \/ s = Append(net[h], Head(net[h])) /\ "duplicate" \in Faults
                  \/ s = Append(Tail(net[h]), Head(net[h]))
  BY DEF NetStep, Lose, Duplicate, Reorder, Fault
<1>2. tcb' = tcb /\ toTcp' = toTcp /\ toSock' = toSock /\ app' = app
  BY DEF NetStep, Lose, Duplicate, Reorder, Fault, tcpVars, sockVars
<1>3. Among(s, net[h])
  <2>1. SegmentsRight(net[h])
    BY <1>0 DEF Direction
  <2> QED
    BY <1>0, <1>1, <2>1, SegmentsMoved
<1>4. net'[h] = s /\ net'[k] = net[k]
  BY <1>0, <1>1 DEF TypeOK
<1> HIDE DEF k
<1>5. Direction(tcb[k], toTcp[k], app[k].wrote, s,
                tcb[h].lastRecvd, app[h].got, toSock[h], tcb[h].recvBuf)
  BY <1>0, <1>3, DirectionNet, Zenon
<1> QED
  BY <1>0, <1>2, <1>4, <1>5, StreamStep DEF k

LEMMA StreamStart == Init => StreamInv
<1> SUFFICES ASSUME Init, NEW h \in Host PROVE Towards(h)
  BY DEF StreamInv
<1>1. Peer(h) \in Host
  BY PeerFacts
<1>2. /\ tcb[Peer(h)].sendBuf = <<>> /\ toTcp[Peer(h)] = <<>>
      /\ tcb[Peer(h)].state = "CLOSED"
      /\ app[Peer(h)].wrote = 0 /\ net[h] = <<>> /\ app[h].got = <<>>
      /\ toSock[h] = <<>> /\ tcb[h].recvBuf = <<>>
  BY <1>1 DEF Init, ClosedRecord
<1>3. AskedRight(<<>>, 0, 0)
  BY DEF AskedRight
<1>4. BufferRight(tcb[Peer(h)], 0)
  BY <1>2 DEF BufferRight
<1>5. Carried(<<>>) = {} /\ Held(<<>>, <<>>, <<>>) = {}
  BY DEF Carried, Held, BytesOf
<1>6. SegmentsRight(<<>>) /\ \A X, n : ReaderRight(<<>>, X, n)
  BY DEF SegmentsRight, ReaderRight
<1>7. StreamRight(<<>>, <<>>, <<>>) /\ Fresh1(<<>>)
  BY DEF StreamRight, InTurn, Follows, BytesOf, Fresh1
<1> QED
  BY <1>2, <1>3, <1>4, <1>5, <1>6, <1>7 DEF Towards, Direction

LEMMA StreamNext ==
  AgreementInv /\ AgreementInv' /\ StreamInv /\ [Next]_vars => StreamInv'
<1> SUFFICES ASSUME AgreementInv, AgreementInv', StreamInv, [Next]_vars
             PROVE  StreamInv'
  OBVIOUS
<1>1. /\ TypeOK /\ AckInv /\ AckInv' /\ CallInv /\ SendInv /\ AgreeInv
  BY DEF AgreementInv, AckInv
<1>2. CASE UNCHANGED vars
  BY <1>1, <1>2, OrderUntouched DEF vars
<1>3. ASSUME NEW h \in Host, TcpStep(h)
      PROVE  StreamInv'
  <2>1. CASE IgnorePacket(h) \/ IgnoreRequest(h)
    BY <1>1, <2>1, IgnoreOrder
  <2>2. CASE \/ closedToListen(h) \/ closedToSynSent(h) \/ listenToSynRcvd(h)
             \/ synRcvdToEstablished(h) \/ synSentToEstablished(h)
    BY <1>1, <2>2, OpenOrder
  <2>3. CASE establishedLoopPacket(h)
    BY <1>1, <2>3, LoopPacketOrder
  <2>4. CASE establishedLoopWrite(h) \/ establishedLoopStatus(h)
    BY <1>1, <2>4, LoopRequestOrder
  <2>5. CASE SendSegment(h)
    BY <1>1, <2>5, SendOrder
  <2>6. CASE ExtractThrows(h)
    BY <1>1, <2>6, OrderUntouched DEF ExtractThrows, sockVars
  <2>7. CASE \/ establishedToFinWait1(h) \/ closeWaitToLastAck(h)
             \/ finWait1ToFinWait2(h) \/ finWait2ToTimeWait(h)
             \/ establishedToCloseWait(h) \/ lastAckToClosed(h)
    BY <1>1, <2>7, CloseOrder
  <2> QED
    BY <1>3, <2>1, <2>2, <2>3, <2>4, <2>5, <2>6, <2>7 DEF TcpStep
<1>4. ASSUME NEW h \in Host, SockStep(h) \/ AppStep(h) \/ NetStep(h)
      PROVE  StreamInv'
  BY <1>1, <1>4, SockOrder, AppOrder, NetOrder
<1> QED
  BY <1>2, <1>3, <1>4 DEF Next

\* The application is handed a byte it has not seen before only after all those
\* before it that it will ever see, whatever the network does to the segments
\* and however often the two modules of a host repeat or drop what they hold.
THEOREM BytesComeInTurn == Spec => []FreshInOrder
<1>1. Init => AgreementInv /\ StreamInv
  BY AgreementInit, StreamStart
<1>2. AgreementInv /\ StreamInv /\ [Next]_vars => (AgreementInv /\ StreamInv)'
  BY AgreementStep, StreamNext
<1>3. AgreementInv /\ StreamInv => FreshInOrder
  BY DEF StreamInv, Towards, Direction, Fresh1, FreshInOrder
<1> QED
  BY <1>1, <1>2, <1>3, PTL DEF Spec
=============================================================================
