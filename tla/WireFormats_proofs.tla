------------------------- MODULE WireFormats_proofs --------------------------
(***************************************************************************)
(* Proofs about WireFormats, for all values of its constants: what the     *)
(* operators on bytes, fields and checksums promise, and that every packet *)
(* the stack builds arrives as it was built.                               *)
(***************************************************************************)
EXTENDS WireFormats, TLAPS, WellFoundedInduction

-----------------------------------------------------------------------------
(* Arithmetic.                                                             *)

\* Bytes and words are the numbers up to their limits.
LEMMA ByteIs == \A n : n \in Byte <=> n \in Nat /\ n <= 255
<1>1. MaxByte \in Nat
  BY DEF MaxByte
<1>2. \A n : n \in Byte <=> n \in Nat /\ n <= MaxByte
  BY <1>1 DEF Byte
<1> QED
  BY <1>2 DEF MaxByte

\* Words are the numbers up to theirs.
LEMMA WordIs == \A n : n \in Word <=> n \in Nat /\ n <= 65535
<1>1. MaxWord \in Nat
  BY DEF MaxWord
<1>2. \A n : n \in Word <=> n \in Nat /\ n <= MaxWord
  BY <1>1 DEF Word
<1> QED
  BY <1>2 DEF MaxWord

\* A number is its quotient and its remainder,
LEMMA Division ==
  ASSUME NEW d \in Nat \ {0}, NEW n \in Nat
  PROVE  n \div d \in Nat /\ n % d \in 0..(d - 1) /\ n = d * (n \div d) + (n % d)
  OBVIOUS

\* and no others are.
LEMMA Composed ==
  ASSUME NEW d \in Nat \ {0}, NEW q \in Nat, NEW r \in 0..(d - 1)
  PROVE  (d * q + r) \div d = q /\ (d * q + r) % d = r
  OBVIOUS

\* What Put writes has the same high and low parts as what was there,
LEMMA Replaced ==
  ASSUME NEW low \in Nat, NEW range \in Nat, NEW hi \in Nat, NEW m \in Nat, NEW lo \in Nat,
         NEW v \in Nat
  PROVE  (low * (range * hi + m) + lo) + (v - m) * low = low * (range * hi + v) + lo
  OBVIOUS

\* and does not run over.
LEMMA Room ==
  ASSUME NEW hi \in Nat, NEW m \in Nat, NEW lo \in Nat, NEW v \in Nat
  PROVE  /\ lo < 16 /\ v < 16 /\ 16 * (16 * hi + m) + lo <= 255 => 16 * (16 * hi + v) + lo <= 255
         /\ lo < 32 /\ v < 8 /\ 32 * (8 * hi + m) + lo <= 255 => 32 * (8 * hi + v) + lo <= 255
         /\ lo < 1 /\ v < 256 /\ 1 * (256 * hi + m) + lo <= 255 => 1 * (256 * hi + v) + lo <= 255
         /\ lo < 1 /\ v < 16 /\ 1 * (16 * hi + m) + lo <= 255 => 1 * (16 * hi + v) + lo <= 255
         /\ lo < 1 /\ v < 64 /\ 1 * (64 * hi + m) + lo <= 255 => 1 * (64 * hi + v) + lo <= 255
         /\ lo < 1 /\ v < 8192 /\ 1 * (8192 * hi + m) + lo <= 65535
              => 1 * (8192 * hi + v) + lo <= 65535
         /\ lo < 1 /\ v < 65536 /\ 1 * (65536 * hi + m) + lo <= 65535
              => 1 * (65536 * hi + v) + lo <= 65535
  OBVIOUS

\* Two bytes are a word, and a word is two bytes.
LEMMA TwoBytes ==
  ASSUME NEW hi \in Byte, NEW lo \in Byte
  PROVE  256 * hi + lo \in Word
  BY ByteIs, WordIs

\* A word is its two bytes.
LEMMA Halves ==
  ASSUME NEW n \in Word
  PROVE  /\ n \div 256 \in Byte /\ n % 256 \in Byte
         /\ (n \div 256) % 256 = n \div 256
         /\ 256 * (n \div 256) + (n % 256) = n
<1>1. \A k \in Nat : k <= 65535 =>
        /\ k \div 256 \in Nat /\ k \div 256 <= 255 /\ k % 256 \in Nat /\ k % 256 <= 255
        /\ (k \div 256) % 256 = k \div 256
        /\ 256 * (k \div 256) + (k % 256) = k
  OBVIOUS
<1>2. n \in Nat /\ n <= 65535
  BY WordIs
<1> QED
  BY <1>1, <1>2, ByteIs

-----------------------------------------------------------------------------
(* Buffers.                                                                *)

\* Past its end a buffer reads as 0.
LEMMA ByteAtType ==
  ASSUME NEW b \in Seq(Byte), NEW i \in Int
  PROVE  ByteAt(b, i) \in Byte
<1>1. 0 \in Byte
  BY ByteIs
<1>2. i \in 1..Len(b) => b[i] \in Byte
  OBVIOUS
<1> QED
  BY <1>1, <1>2 DEF ByteAt

\* GetData gives as many bytes as it is asked for.
LEMMA GetDataType ==
  ASSUME NEW b \in Seq(Byte), NEW size \in Nat, NEW at \in Nat
  PROVE  /\ GetData(b, size, at) \in [1..size -> Byte]
         /\ GetData(b, size, at) \in Seq(Byte)
         /\ Len(GetData(b, size, at)) = size
<1>1. GetData(b, size, at) \in [1..size -> Byte]
  BY ByteAtType DEF GetData
<1> QED
  BY <1>1

\* SetData changes the bytes it sets and no others.
LEMMA SetDataBytes ==
  ASSUME NEW b \in Seq(Byte), NEW data \in Seq(Byte), NEW at \in Nat
  PROVE  /\ SetData(b, data, at) \in Seq(Byte)
         /\ Len(SetData(b, data, at)) = Greatest(Len(b), at + Len(data))
         /\ \A i \in Int : ByteAt(SetData(b, data, at), i)
              = IF i - at \in 1..Len(data) THEN data[i - at] ELSE ByteAt(b, i)
<1> DEFINE n == Greatest(Len(b), at + Len(data))
           c == SetData(b, data, at)
<1>1. n \in Nat /\ n >= Len(b) /\ n >= at + Len(data)
  BY DEF Greatest
<1>2. ASSUME NEW i \in 1..n
      PROVE  (IF i - at \in 1..Len(data) THEN data[i - at] ELSE ByteAt(b, i)) \in Byte
  BY <1>1, ByteAtType
<1>3. c \in [1..n -> Byte]
  BY <1>2 DEF SetData
<1>4. c \in Seq(Byte) /\ Len(c) = n
  BY <1>1, <1>3
<1>5. ASSUME NEW i \in Int
      PROVE  ByteAt(c, i) = IF i - at \in 1..Len(data) THEN data[i - at] ELSE ByteAt(b, i)
  <2>1. CASE i \in 1..n
    BY <1>4, <2>1 DEF ByteAt, SetData
  <2>2. CASE i \notin 1..n
    <3>1. i - at \notin 1..Len(data) /\ i \notin 1..Len(b)
      BY <1>1, <2>2
    <3> QED
      BY <1>4, <2>2, <3>1 DEF ByteAt
  <2> QED
    BY <2>1, <2>2
<1> QED
  BY <1>4, <1>5

\* What is read of a buffer is in the bytes that are read.
LEMMA SameBytes ==
  ASSUME NEW b, NEW c, NEW size \in Nat, NEW at \in Nat,
         \A i \in (at + 1)..(at + size) : ByteAt(c, i) = ByteAt(b, i)
  PROVE  GetData(c, size, at) = GetData(b, size, at)
<1>1. \A i \in 1..size : ByteAt(c, at + i) = ByteAt(b, at + i)
  OBVIOUS
<1> QED
  BY <1>1 DEF GetData

-----------------------------------------------------------------------------
(* Fields.                                                                 *)

\* The fields there are: whole numbers of one and two bytes, parts of them, and
\* four bytes.
Shapes == {<<1, 1, 256>>, <<2, 1, 65536>>, <<1, 16, 16>>, <<1, 1, 16>>, <<1, 32, 8>>,
           <<2, 1, 8192>>, <<1, 1, 64>>}
Layout == {l \in [at : Nat, size : {1, 2, 4}, low : Nat, range : Nat] :
             l.size = 4 \/ <<l.size, l.low, l.range>> \in Shapes}

\* The values of a field.
Fits(l, v) == IF l.size = 4 THEN v \in [1..4 -> Byte] ELSE v \in 0..(l.range - 1)

\* identifier and seqnumber are whole words.
FieldAt(fields, f, l) ==
  /\ l \in Layout /\ fields[f] = l
  /\ f \in {"identifier", "seqnumber"} => l.size = 2 /\ l.low = 1 /\ l.range = 65536

\* The number that Put writes in place of the old one, and the largest.
Written(old, v, low, range) == old + ((v % range) - ((old \div low) % range)) * low
Top(size) == IF size = 1 THEN 255 ELSE 65535
OfSize(size) == IF size = 1 THEN Byte ELSE Word

\* A number of a size is one up to the largest of that size.
LEMMA Within ==
  ASSUME NEW size
  PROVE  \A n : n \in OfSize(size) <=> n \in Nat /\ n <= Top(size)
  BY ByteIs, WordIs DEF OfSize, Top

\* Only the part that is meant changes.
LEMMA WrittenNumber ==
  ASSUME NEW size, NEW low, NEW range, <<size, low, range>> \in Shapes,
         NEW v \in 0..(range - 1), NEW old \in OfSize(size)
  PROVE  /\ Written(old, v, low, range) \in OfSize(size)
         /\ (Written(old, v, low, range) \div low) % range = v
<1>1. low \in Nat \ {0} /\ range \in Nat \ {0} /\ old \in Nat /\ v \in Nat /\ Top(size) \in Nat
  BY Within DEF Shapes, Top
<1>2. PICK q \in Nat, lo \in 0..(low - 1) : old = low * q + lo /\ q = old \div low
  BY <1>1, Division, Zenon
<1>3. PICK hi \in Nat, m \in 0..(range - 1) : q = range * hi + m /\ m = q % range
  BY <1>1, <1>2, Division, Zenon
<1>4. v % range = v
  BY <1>1
<1> DEFINE up  == range * hi + v
           new == low * up + lo
<1>5. Written(old, v, low, range) = new
  <2>1. Written(old, v, low, range) = (low * (range * hi + m) + lo) + (v - m) * low
    BY <1>2, <1>3, <1>4 DEF Written
  <2>2. m \in Nat /\ lo \in Nat /\ low \in Nat /\ range \in Nat
    BY <1>1
  <2>3. (low * (range * hi + m) + lo) + (v - m) * low = low * (range * hi + v) + lo
    BY <1>1, <2>2, Replaced
  <2> QED
    BY <2>1, <2>3
<1>6. up \in Nat /\ up % range = v
  <2>1. up \in Nat
    BY <1>1
  <2>2. up % range = v
    BY <1>1, Composed, Zenon
  <2> QED
    BY <2>1, <2>2
<1>7. new \div low = up
  BY <1>1, <1>6, Composed, Zenon
<1>8. new <= Top(size)
  <2>1. old <= Top(size)
    BY Within
  <2>2. old = low * (range * hi + m) + lo
    BY <1>2, <1>3, Zenon
  <2>3. low * (range * hi + m) + lo <= Top(size) /\ m \in Nat /\ lo \in Nat /\ lo < low /\ v < range
    BY <1>1, <2>1, <2>2
  <2>4. /\ <<size, low, range>> = <<1, 1, 256>> \/ <<size, low, range>> = <<2, 1, 65536>>
           \/ <<size, low, range>> = <<1, 16, 16>> \/ <<size, low, range>> = <<1, 1, 16>>
           \/ <<size, low, range>> = <<1, 32, 8>> \/ <<size, low, range>> = <<2, 1, 8192>>
           \/ <<size, low, range>> = <<1, 1, 64>>
    BY DEF Shapes
  <2> QED
    BY <1>1, <2>3, <2>4, Room DEF Top
<1>9. new \in Nat
  BY <1>1, <1>6
<1>10. new \in OfSize(size)
  BY <1>8, <1>9, Within
<1> QED
  BY <1>1, <1>10, <1>5, <1>6, <1>7, <1>8, <1>9

\* Bytes are those of the number.
LEMMA BytesNumber ==
  ASSUME NEW size \in {1, 2}, NEW n \in OfSize(size)
  PROVE  Bytes(n, size) \in [1..size -> Byte] /\ Number(Bytes(n, size)) = n
<1>1. CASE size = 1
  <2>1. n \in Byte
    BY <1>1 DEF OfSize
  <2>2. n % 256 = n
    BY <2>1, ByteIs
  <2>3. Bytes(n, size) = <<n>>
    BY <1>1, <2>2 DEF Bytes
  <2> QED
    BY <1>1, <2>1, <2>3 DEF Number
<1>2. CASE size = 2
  <2>1. n \in Word
    BY <1>2 DEF OfSize
  <2> DEFINE hi == n \div 256
             lo == n % 256
  <2>2. Bytes(n, 2) = <<hi % 256, lo>>
    BY DEF Bytes
  <2>3. hi \in Byte /\ lo \in Byte /\ hi % 256 = hi /\ 256 * hi + lo = n
    BY ONLY <2>1, Halves
  <2> HIDE DEF hi, lo
  <2>4. <<hi, lo>> \in [1..2 -> Byte] /\ Number(<<hi, lo>>) = 256 * hi + lo
    BY <2>3 DEF Number
  <2> QED
    BY <1>2, <2>2, <2>3, <2>4
<1> QED
  BY <1>1, <1>2

\* The number of bytes is in its range.
LEMMA NumberType ==
  ASSUME NEW size \in {1, 2}, NEW b \in [1..size -> Byte]
  PROVE  Number(b) \in OfSize(size)
<1>1. CASE size = 1
  <2>1. Len(b) = 1 /\ b[1] \in Byte
    BY <1>1
  <2> QED
    BY <1>1, <2>1 DEF Number, OfSize
<1>2. CASE size = 2
  <2>1. Len(b) = 2 /\ b[1] \in Byte /\ b[2] \in Byte
    BY <1>2
  <2>2. Number(b) = 256 * b[1] + b[2]
    BY <2>1 DEF Number
  <2> QED
    BY <1>2, <2>1, <2>2, TwoBytes DEF OfSize
<1> QED
  BY <1>1, <1>2

\* Turning bytes round twice leaves them as they were.
LEMMA HostOrderTwice ==
  ASSUME NEW f, NEW size \in {1, 2}, NEW b \in [1..size -> Byte]
  PROVE  HostOrder(f, b) \in [1..size -> Byte] /\ HostOrder(f, HostOrder(f, b)) = b
<1>1. Len(b) = size
  OBVIOUS
<1>2. Reverse(b) \in [1..size -> Byte] /\ Reverse(b) = [i \in 1..size |-> b[size - i + 1]]
  BY <1>1 DEF Reverse
<1>3. Len(Reverse(b)) = size
  BY <1>2
<1>4. Reverse(Reverse(b)) = [i \in 1..size |-> Reverse(b)[size - i + 1]]
  BY <1>3 DEF Reverse
<1>5. \A i \in 1..size : Reverse(b)[size - i + 1] = b[i]
  BY <1>2
<1>6. Reverse(Reverse(b)) = b
  BY <1>4, <1>5
<1> QED
  BY <1>2, <1>6 DEF HostOrder

\* A field that is set to a value of its has it, and bytes outside it stay.
LEMMA PutField ==
  ASSUME NEW fields, NEW f, NEW l, FieldAt(fields, f, l),
         NEW h \in Seq(Byte), NEW v, Fits(l, v)
  PROVE  /\ Put(fields, h, f, v) \in Seq(Byte)
         /\ Len(Put(fields, h, f, v)) = Greatest(Len(h), l.at + l.size)
         /\ Get(fields, Put(fields, h, f, v), f) = v
         /\ \A i \in Int : i \notin (l.at + 1)..(l.at + l.size) =>
              ByteAt(Put(fields, h, f, v), i) = ByteAt(h, i)
<1> DEFINE p == Put(fields, h, f, v)
<1>1. l.at \in Nat /\ l.size \in {1, 2, 4} /\ fields[f] = l
  BY DEF FieldAt, Layout
<1>2. PICK b \in [1..l.size -> Byte] :
        /\ p = SetData(h, b, l.at)
        /\ IF l.size > 2 THEN b = v
           ELSE (Number(HostOrder(f, b)) \div l.low) % l.range = v
  <2>1. CASE l.size = 4
    <3>1. v \in [1..l.size -> Byte]
      BY <2>1 DEF Fits
    <3> QED
      BY <1>1, <2>1, <3>1 DEF Put
  <2>2. CASE l.size \in {1, 2}
    <3> DEFINE old == Number(GetData(h, l.size, l.at))
               new == Written(old, v, l.low, l.range)
    <3>1. <<l.size, l.low, l.range>> \in Shapes /\ v \in 0..(l.range - 1)
      BY <2>2 DEF FieldAt, Layout, Fits
    <3>2. old \in OfSize(l.size)
      BY <1>1, <2>2, GetDataType, NumberType
    <3> HIDE DEF old
    <3>3. new \in OfSize(l.size) /\ (new \div l.low) % l.range = v
      BY <3>1, <3>2, WrittenNumber
    <3>4. p = SetData(h, HostOrder(f, Bytes(new, l.size)), l.at)
      <4>1. ~ (l.size > 2)
        BY <2>2
      <4> QED
        BY <1>1, <4>1, Zenon DEF Put, Written, old
    <3> HIDE DEF new
    <3>5. Bytes(new, l.size) \in [1..l.size -> Byte] /\ Number(Bytes(new, l.size)) = new
      BY <2>2, <3>3, BytesNumber, Zenon
    <3>6. /\ HostOrder(f, Bytes(new, l.size)) \in [1..l.size -> Byte]
          /\ HostOrder(f, HostOrder(f, Bytes(new, l.size))) = Bytes(new, l.size)
      BY <2>2, <3>5, HostOrderTwice, Zenon
    <3> QED
      BY <2>2, <3>3, <3>4, <3>5, <3>6
  <2> QED
    BY <1>1, <2>1, <2>2
<1>3. b \in Seq(Byte) /\ Len(b) = l.size
  BY <1>1
<1>4. /\ p \in Seq(Byte) /\ Len(p) = Greatest(Len(h), l.at + l.size)
      /\ \A i \in Int : ByteAt(p, i)
            = IF i - l.at \in 1..l.size THEN b[i - l.at] ELSE ByteAt(h, i)
  <2>1. /\ SetData(h, b, l.at) \in Seq(Byte)
        /\ Len(SetData(h, b, l.at)) = Greatest(Len(h), l.at + Len(b))
        /\ \A i \in Int : ByteAt(SetData(h, b, l.at), i)
              = IF i - l.at \in 1..Len(b) THEN b[i - l.at] ELSE ByteAt(h, i)
    BY <1>1, <1>3, SetDataBytes, Zenon
  <2> QED
    BY <1>2, <1>3, <2>1, Zenon
<1>5. GetData(p, l.size, l.at) = b
  <2>1. ASSUME NEW i \in 1..l.size
        PROVE  ByteAt(p, l.at + i) = b[i]
    <3>1. l.at + i \in Int /\ (l.at + i) - l.at = i
      BY <1>1
    <3>2. ByteAt(p, l.at + i)
            = IF (l.at + i) - l.at \in 1..l.size THEN b[(l.at + i) - l.at] ELSE ByteAt(h, l.at + i)
      BY ONLY <1>4, <3>1
    <3> QED
      BY ONLY <3>1, <3>2, i \in 1..l.size
  <2> QED
    BY <1>2, <2>1 DEF GetData
<1>6. Get(fields, p, f) = v
  <2>1. CASE l.size = 4
    <3>1. f \notin {"identifier", "seqnumber"} /\ l.size > 2
      BY <2>1 DEF FieldAt
    <3> QED
      BY <1>1, <1>2, <1>5, <3>1, Zenon DEF Get, HostOrder
  <2>2. CASE l.size \in {1, 2}
    <3>1. ~ (l.size > 2)
      BY <2>2
    <3> QED
      BY <1>1, <1>2, <1>5, <3>1, Zenon DEF Get
  <2> QED
    BY <1>1, <2>1, <2>2
<1> QED
  BY <1>1, <1>4, <1>6

\* A field is read from its own bytes.
LEMMA GetSame ==
  ASSUME NEW fields, NEW f, NEW l, FieldAt(fields, f, l), NEW g, NEW h,
         \A i \in (l.at + 1)..(l.at + l.size) : ByteAt(g, i) = ByteAt(h, i)
  PROVE  Get(fields, g, f) = Get(fields, h, f)
<1>1. l.at \in Nat /\ l.size \in Nat /\ fields[f] = l
  BY DEF FieldAt, Layout
<1>2. GetData(g, l.size, l.at) = GetData(h, l.size, l.at)
  BY <1>1, SameBytes
<1> QED
  BY <1>1, <1>2, Zenon DEF Get

\* What is read of a field is a value of it.
LEMMA GetFits ==
  ASSUME NEW fields, NEW f, NEW l, FieldAt(fields, f, l), NEW h \in Seq(Byte)
  PROVE  Fits(l, Get(fields, h, f))
<1>1. l.at \in Nat /\ l.size \in {1, 2, 4} /\ fields[f] = l
  BY DEF FieldAt, Layout
<1>2. GetData(h, l.size, l.at) \in [1..l.size -> Byte]
  BY <1>1, GetDataType
<1>3. CASE l.size = 4
  <2>1. f \notin {"identifier", "seqnumber"} /\ l.size > 2
    BY <1>3 DEF FieldAt
  <2>2. Get(fields, h, f) = GetData(h, l.size, l.at)
    BY <1>1, <2>1, Zenon DEF Get, HostOrder
  <2> QED
    BY <1>2, <1>3, <2>2 DEF Fits
<1>4. CASE l.size \in {1, 2}
  <2>1. ~ (l.size > 2) /\ l.size # 4
    BY <1>4
  <2> DEFINE n == Number(HostOrder(f, GetData(h, l.size, l.at)))
  <2>2. n \in OfSize(l.size)
    BY <1>2, <1>4, HostOrderTwice, NumberType, Zenon
  <2>3. Get(fields, h, f) = (n \div l.low) % l.range
    BY <1>1, <2>1, Zenon DEF Get
  <2>4. n \in Nat /\ l.low \in Nat \ {0} /\ l.range \in Nat \ {0}
    <3>1. n \in Nat
      BY <2>2, Within
    <3>2. <<l.size, l.low, l.range>> \in Shapes
      BY <2>1 DEF FieldAt, Layout
    <3> QED
      BY <3>1, <3>2 DEF Shapes
  <2> HIDE DEF n
  <2>5. n \div l.low \in Nat
    BY <2>4, Division, Zenon
  <2>6. (n \div l.low) % l.range \in 0..(l.range - 1)
    BY <2>4, <2>5, Division, Zenon
  <2> QED
    BY <2>1, <2>3, <2>6 DEF Fits
<1> QED
  BY <1>1, <1>3, <1>4

-----------------------------------------------------------------------------
(* The fields of the headers.                                              *)

\* Two fields without a byte in common.
Apart(l, m) == l.at + l.size <= m.at \/ m.at + m.size <= l.at

\* A field that is apart from the one that is set stays as it is.
LEMMA PutApart ==
  ASSUME NEW fields, NEW f, NEW l, FieldAt(fields, f, l),
         NEW g, NEW m, FieldAt(fields, g, m), Apart(l, m),
         NEW h \in Seq(Byte), NEW v, Fits(l, v)
  PROVE  Get(fields, Put(fields, h, f, v), g) = Get(fields, h, g)
<1>1. /\ l.at \in Nat /\ l.size \in Nat /\ m.at \in Nat /\ m.size \in Nat
  BY DEF FieldAt, Layout
<1>2. \A i \in (m.at + 1)..(m.at + m.size) :
        ByteAt(Put(fields, h, f, v), i) = ByteAt(h, i)
  BY <1>1, PutField DEF Apart
<1> QED
  BY <1>2, GetSame

\* The names of the fields of an IP header, and where they are.
IPNames == {"version", "hlen", "tos", "totlen", "id", "flags", "fragoffset", "ttl", "protocol",
            "ipchecksum", "source", "dest"}
\* Every field of the IP header has one of the layouts.
LEMMA IPLayout ==
  /\ DOMAIN IPFields = IPNames
  /\ \A f \in IPNames : FieldAt(IPFields, f, IPFields[f])
<1>1. DOMAIN IPFields = IPNames
  BY DEF IPFields, IPNames
<1>2. ASSUME NEW f \in IPNames
      PROVE  FieldAt(IPFields, f, IPFields[f])
  BY DEF IPNames, IPFields, FieldAt, Layout, Shapes, At, Part, Four
<1> QED
  BY <1>1, <1>2

\* The fields that share bytes are the first two, and the flags and the offset.
LEMMA IPApart ==
  ASSUME NEW f \in IPNames, NEW g \in IPNames, f # g,
         {f, g} # {"version", "hlen"}, {f, g} # {"flags", "fragoffset"}
  PROVE  Apart(IPFields[f], IPFields[g])
  BY DEF IPNames, IPFields, Apart, At, Part, Four

-----------------------------------------------------------------------------
(* Sums.  What holds of all sums of the first words is shown by looking at *)
(* the first for which it would not hold.                                  *)

\* A set of natural numbers that is not empty has a least element.
LEMMA LeastNumber ==
  ASSUME NEW T \in SUBSET Nat, T # {}
  PROVE  \E x \in T : \A y \in T : x <= y
<1> DEFINE R == {p \in Nat \X Nat : p[1] < p[2]}
<1>1. IsWellFoundedOn(R, Nat)
  BY NatLessThanWellFounded DEF OpToRel
<1> HIDE DEF R
<1>2. PICK x \in T : \A y \in T : ~ (<<y, x>> \in R)
  BY <1>1, WFMin, Zenon
<1>3. ASSUME NEW y \in T
      PROVE  x <= y
  <2>1. <<y, x>> \in Nat \X Nat /\ ~ (<<y, x>> \in R)
    BY <1>2
  <2> QED
    BY <2>1 DEF R
<1> QED
  BY <1>3

\* s holds the sums of the first n words.
Adds(s, words, n) == s = [i \in 0..n |-> IF i = 0 THEN 0 ELSE s[i - 1] + words[i]]

\* There are sums,
LEMMA SumsExist ==
  ASSUME NEW words, NEW n \in Nat
  PROVE  \E s : Adds(s, words, n)
<1> DEFINE T == {k \in Nat : ~ \E s : Adds(s, words, k)}
<1>1. SUFFICES ASSUME T # {}
               PROVE  FALSE
  OBVIOUS
<1>2. PICK k \in T : \A y \in T : k <= y
  <2>1. T \in SUBSET Nat
    OBVIOUS
  <2> HIDE DEF T
  <2> QED
    BY <1>1, <2>1, LeastNumber
<1>3. CASE k = 0
  <2> DEFINE s == [i \in 0..0 |-> 0]
  <2>1. s = [i \in 0..0 |-> IF i = 0 THEN 0 ELSE s[i - 1] + words[i]]
    OBVIOUS
  <2> QED
    BY <1>2, <1>3, <2>1 DEF Adds
<1>4. CASE k # 0
  <2>1. k - 1 \in Nat /\ k - 1 \notin T
    BY <1>2, <1>4
  <2>2. PICK s : Adds(s, words, k - 1)
    BY <2>1
  <2> DEFINE t == [i \in 0..k |-> IF i = k THEN s[k - 1] + words[k] ELSE s[i]]
  <2>3. ASSUME NEW i \in 0..k
        PROVE  t[i] = IF i = 0 THEN 0 ELSE t[i - 1] + words[i]
    <3>1. CASE i = 0
      BY <1>4, <2>1, <2>2, <3>1 DEF Adds
    <3>2. CASE i # 0 /\ i # k
      <4>1. i \in 0..(k - 1) /\ i - 1 \in 0..(k - 1) /\ i - 1 # k
        BY <2>1, <3>2
      <4>2. s[i] = s[i - 1] + words[i]
        BY <2>2, <3>2, <4>1 DEF Adds
      <4>3. t[i] = s[i] /\ t[i - 1] = s[i - 1]
        BY <3>2, <4>1
      <4> QED
        BY <3>2, <4>2, <4>3
    <3>3. CASE i = k
      <4>1. t[i] = s[k - 1] + words[k] /\ t[i - 1] = s[k - 1]
        BY <1>4, <2>1, <3>3
      <4> QED
        BY <1>4, <3>3, <4>1
    <3> QED
      BY <3>1, <3>2, <3>3
  <2>4. t = [i \in 0..k |-> IF i = 0 THEN 0 ELSE t[i - 1] + words[i]]
    BY <2>3
  <2> HIDE DEF t
  <2> QED
    BY <1>2, <2>4 DEF Adds
<1> QED
  BY <1>3, <1>4

\* and Sums are those.
LEMMA SumsAdd ==
  ASSUME NEW words, NEW n \in Nat
  PROVE  Adds(Sums(words, n), words, n)
<1>1. \E s : Adds(s, words, n)
  BY SumsExist
<1> QED
  BY <1>1 DEF Adds, Sums

\* The sum of i words is at most i times the largest.
LEMMA SumsBounded ==
  ASSUME NEW n \in Nat, NEW words \in [1..n -> Word], NEW i \in 0..n
  PROVE  Sums(words, n)[i] \in Nat /\ Sums(words, n)[i] <= 65535 * i
<1> DEFINE s    == Sums(words, n)
           P(k) == s[k] \in Nat /\ s[k] <= 65535 * k
           T    == {k \in 0..n : ~ P(k)}
<1>1. s = [k \in 0..n |-> IF k = 0 THEN 0 ELSE s[k - 1] + words[k]]
  BY SumsAdd DEF Adds
<1> HIDE DEF s
<1>2. SUFFICES ASSUME T # {}
               PROVE  FALSE
  BY DEF s
<1>3. PICK k \in T : \A y \in T : k <= y
  <2>1. T \in SUBSET Nat
    OBVIOUS
  <2> HIDE DEF T
  <2> QED
    BY <1>2, <2>1, LeastNumber
<1>4. k # 0
  BY <1>1
<1>5. k - 1 \in 0..n /\ k - 1 \notin T /\ k \in 1..n
  BY <1>3, <1>4
<1>6. PICK a \in Nat, w \in Nat : /\ a = s[k - 1] /\ a <= 65535 * (k - 1)
                                /\ w = words[k] /\ w <= 65535
  BY <1>5, WordIs
<1>7. s[k] = a + w
  BY <1>1, <1>4, <1>5, <1>6
<1> QED
  BY <1>5, <1>6, <1>7

\* Putting a word in place of 0 adds it to the sums from there on.
LEMMA SumsChange ==
  ASSUME NEW n \in Nat, NEW words \in [1..n -> Word], NEW others \in [1..n -> Word],
         NEW k \in 1..n, words[k] = 0, \A i \in 1..n : i # k => others[i] = words[i],
         NEW j \in 0..n
  PROVE  Sums(others, n)[j] = Sums(words, n)[j] + (IF j < k THEN 0 ELSE others[k])
<1> DEFINE s    == Sums(words, n)
           t    == Sums(others, n)
           P(i) == t[i] = s[i] + (IF i < k THEN 0 ELSE others[k])
           T    == {i \in 0..n : ~ P(i)}
<1>1. /\ s = [i \in 0..n |-> IF i = 0 THEN 0 ELSE s[i - 1] + words[i]]
      /\ t = [i \in 0..n |-> IF i = 0 THEN 0 ELSE t[i - 1] + others[i]]
  BY SumsAdd DEF Adds
<1>2. \A i \in 0..n : s[i] \in Nat /\ t[i] \in Nat
  BY SumsBounded
<1> HIDE DEF s, t
<1>3. SUFFICES ASSUME T # {}
               PROVE  FALSE
  BY DEF s, t
<1>4. PICK m \in T : \A y \in T : m <= y
  <2>1. T \in SUBSET Nat
    OBVIOUS
  <2> HIDE DEF T
  <2> QED
    BY <1>3, <2>1, LeastNumber
<1>5. m # 0
  BY <1>1
<1>6. m - 1 \in 0..n /\ m - 1 \notin T /\ m \in 1..n
  BY <1>4, <1>5
<1>7. PICK a \in Nat, b \in Nat, v \in Nat, w \in Nat, x \in Nat :
        /\ a = s[m - 1] /\ b = t[m - 1] /\ v = words[m] /\ w = others[m] /\ x = others[k]
  <2>1. s[m - 1] \in Nat /\ t[m - 1] \in Nat
    BY <1>2, <1>6
  <2>2. words[m] \in Word /\ others[m] \in Word /\ others[k] \in Word
    BY <1>6
  <2>3. words[m] \in Nat /\ others[m] \in Nat /\ others[k] \in Nat
    BY <2>2, WordIs
  <2> QED
    BY <2>1, <2>3, Zenon
<1>8. s[m] = a + v /\ t[m] = b + w
  BY <1>1, <1>5, <1>6, <1>7
<1>9. b = a + (IF m - 1 < k THEN 0 ELSE x)
  BY <1>6, <1>7
<1>10. IF m = k THEN v = 0 /\ w = x ELSE w = v
  BY <1>6, <1>7
<1>11. t[m] = s[m] + (IF m < k THEN 0 ELSE others[k])
  BY <1>6, <1>7, <1>8, <1>9, <1>10
<1> QED
  BY <1>4, <1>11

-----------------------------------------------------------------------------
(* Checksums.                                                              *)

\* What folding a sum twice leaves: its remainder modulo 65535, in a word.
Folded(n) == Fold16(Fold16(n)) % 65536

\* Folding adds the quotient to the remainder,
LEMMA FoldOnce ==
  ASSUME NEW n \in Nat
  PROVE  \E q \in Nat, r \in Nat : /\ r <= 65535 /\ n = 65536 * q + r
                                  /\ Fold16(n) = r + q
  BY DEF Fold16

\* and folding twice leaves a word, congruent modulo 65535, that is 0 only for 0.
LEMMA FoldTwice ==
  ASSUME NEW n \in Nat, n < 65536 * 65536
  PROVE  \E q \in Nat, f \in Nat :
           f = Folded(n) /\ f <= 65535 /\ n = 65535 * q + f /\ (f = 0 => n = 0)
<1>1. PICK q \in Nat, r \in Nat : r <= 65535 /\ n = 65536 * q + r /\ Fold16(n) = r + q
  BY FoldOnce
<1>2. q <= 65535
  BY <1>1
<1>3. PICK m \in Nat : m = r + q
  OBVIOUS
<1>4. PICK u \in Nat, v \in Nat : v <= 65535 /\ m = 65536 * u + v /\ Fold16(m) = v + u
  BY FoldOnce
<1>5. PICK f \in Nat : f = v + u
  OBVIOUS
<1>6. u <= 1 /\ (u = 1 => v <= 65534)
  BY <1>1, <1>2, <1>3, <1>4
<1>7. f <= 65535
  BY <1>4, <1>5, <1>6
<1>8. f % 65536 = f
  BY <1>7
<1>9. f = Folded(n)
  BY <1>1, <1>3, <1>4, <1>5, <1>8 DEF Folded
<1>10. n = 65535 * (q + u) + f /\ q + u \in Nat
  BY <1>1, <1>3, <1>4, <1>5
<1>11. f = 0 => n = 0
  BY <1>1, <1>3, <1>4, <1>5
<1> QED
  BY <1>7, <1>9, <1>10, <1>11

\* A multiple of 65535 that is not 0 leaves 65535.
LEMMA Multiple ==
  ASSUME NEW k \in Nat, NEW q \in Nat, NEW f \in Nat, f <= 65535, f > 0,
         65535 * k = 65535 * q + f
  PROVE  f = 65535
  OBVIOUS

\* A sum to which its own complement is added folds to 65535.
LEMMA FoldComplement ==
  ASSUME NEW n \in Nat, n <= 65535 * 65536, NEW e \in Nat, e = Folded(n),
         NEW m \in Nat, m = n + (65535 - e)
  PROVE  Folded(m) = 65535
<1>1. PICK q \in Nat, f \in Nat :
        f = Folded(n) /\ f <= 65535 /\ n = 65535 * q + f /\ (f = 0 => n = 0)
  BY FoldTwice
<1>2. f = e
  BY <1>1
<1>3. n = 65535 * q + e /\ e <= 65535
  BY <1>1, <1>2
<1>4. m = 65535 * (q + 1) /\ q + 1 \in Nat /\ m > 0 /\ m < 65536 * 65536
  BY ONLY <1>3, n \in Nat, q \in Nat, e \in Nat, m \in Nat, n <= 65535 * 65536, m = n + (65535 - e)
<1>5. PICK p \in Nat, g \in Nat :
        g = Folded(m) /\ g <= 65535 /\ m = 65535 * p + g /\ (g = 0 => m = 0)
  <2>1. m < 65536 * 65536
    BY <1>4
  <2> QED
    BY ONLY <2>1, m \in Nat, FoldTwice
<1>6. g > 0 /\ 65535 * (q + 1) = 65535 * p + g
  BY <1>4, <1>5
<1>7. g = 65535
  BY <1>4, <1>5, <1>6, Multiple
<1> QED
  BY <1>5, <1>7

\* How many words there are.
LEMMA HalfLength ==
  ASSUME NEW m \in Nat
  PROVE  \E n \in Nat : n = (m + 1) \div 2 /\ m <= 2 * n /\ 2 * n <= m + 1
  OBVIOUS

\* Words are words.
LEMMA WordsType ==
  ASSUME NEW b \in Seq(Byte), NEW n \in Nat, n = (Len(b) + 1) \div 2
  PROVE  Words(b) \in [1..n -> Word]
<1>1. ASSUME NEW i \in 1..n
      PROVE  256 * ByteAt(b, 2 * i - 1) + ByteAt(b, 2 * i) \in Word
  <2>1. 2 * i - 1 \in Int /\ 2 * i \in Int
    OBVIOUS
  <2>2. ByteAt(b, 2 * i - 1) \in Byte /\ ByteAt(b, 2 * i) \in Byte
    BY <2>1, ByteAtType
  <2> QED
    BY <2>2, TwoBytes
<1> QED
  BY <1>1 DEF Words

\* The sum of not too many bytes is a word.
LEMMA SumIsFolded ==
  ASSUME NEW b \in Seq(Byte), NEW n \in Nat, n = (Len(b) + 1) \div 2, n <= 65536
  PROVE  /\ OnesComplementSum(b) = Folded(Sums(Words(b), n)[n])
         /\ OnesComplementSum(b) \in Nat /\ OnesComplementSum(b) <= 65535
<1>1. OnesComplementSum(b) = Folded(Sums(Words(b), n)[n])
  BY DEF OnesComplementSum, Folded
<1>2. PICK t \in Nat : t = Sums(Words(b), n)[n] /\ t <= 65535 * n
  BY WordsType, SumsBounded
<1>3. t < 65536 * 65536
  BY <1>2
<1>4. PICK q \in Nat, f \in Nat :
        f = Folded(t) /\ f <= 65535 /\ t = 65535 * q + f /\ (f = 0 => t = 0)
  BY ONLY <1>3, t \in Nat, FoldTwice
<1> QED
  BY <1>1, <1>2, <1>4

\* Not too many bytes.
Limit    == 2 * 65536
Short(b) == Len(b) <= Limit

\* b with its k-th word, which is 0, replaced by w.
WithWord(b, k, w, c) ==
  /\ b \in Seq(Byte) /\ c \in Seq(Byte) /\ Len(c) = Len(b)
  /\ k \in Nat /\ k > 0 /\ 2 * k <= Len(b)
  /\ \A i \in Int : i # 2 * k - 1 /\ i # 2 * k => ByteAt(c, i) = ByteAt(b, i)
  /\ ByteAt(b, 2 * k - 1) = 0 /\ ByteAt(b, 2 * k) = 0
  /\ 256 * ByteAt(c, 2 * k - 1) + ByteAt(c, 2 * k) = w

\* The checksum of bytes whose checksum is in place is 0 (util.cc OnesComplementSum), for
\* every sequence of bytes short enough for the sum to be folded in two steps.
THEOREM SumComplement ==
  ASSUME NEW b, NEW c, NEW k, WithWord(b, k, Complement(OnesComplementSum(b)), c), Short(b)
  PROVE  Complement(OnesComplementSum(c)) = 0
<1> USE DEF WithWord, Short, Limit
<1>1. PICK n \in Nat : n = (Len(b) + 1) \div 2 /\ Len(b) <= 2 * n /\ 2 * n <= Len(b) + 1
  <2>1. Len(b) \in Nat
    OBVIOUS
  <2> QED
    BY <2>1, HalfLength
<1>2. n <= 65536 /\ k \in 1..n
  BY <1>1
<1>3. Words(b) \in [1..n -> Word] /\ Words(c) \in [1..n -> Word]
  BY <1>1, WordsType
<1>4. /\ Words(b) = [i \in 1..n |-> 256 * ByteAt(b, 2 * i - 1) + ByteAt(b, 2 * i)]
      /\ Words(c) = [i \in 1..n |-> 256 * ByteAt(c, 2 * i - 1) + ByteAt(c, 2 * i)]
  BY <1>1 DEF Words
<1>5. Words(b)[k] = 0
  BY <1>2, <1>4
<1>6. \A i \in 1..n : i # k => Words(c)[i] = Words(b)[i]
  <2>1. ASSUME NEW i \in 1..n, i # k
        PROVE  ByteAt(c, 2 * i - 1) = ByteAt(b, 2 * i - 1) /\ ByteAt(c, 2 * i) = ByteAt(b, 2 * i)
    <3>1. PICK x \in Int, y \in Int : x = 2 * i - 1 /\ y = 2 * i
      BY <1>2
    <3>2. x # 2 * k - 1 /\ x # 2 * k /\ y # 2 * k - 1 /\ y # 2 * k
      BY <1>2, <2>1, <3>1
    <3>3. ByteAt(c, x) = ByteAt(b, x) /\ ByteAt(c, y) = ByteAt(b, y)
      BY <3>2
    <3> QED
      BY <3>1, <3>3
  <2> QED
    BY <1>4, <2>1
<1>7. Sums(Words(c), n)[n] = Sums(Words(b), n)[n] + Words(c)[k]
  <2>1. n \in 0..n /\ ~ (n < k) /\ k \in 1..n
    BY <1>2
  <2>2. Sums(Words(c), n)[n] = Sums(Words(b), n)[n] + (IF n < k THEN 0 ELSE Words(c)[k])
    BY ONLY n \in Nat, <1>3, <1>5, <1>6, <2>1, SumsChange
  <2> QED
    BY <2>1, <2>2
<1>8. PICK t \in Nat : t = Sums(Words(b), n)[n] /\ t <= 65535 * n
  <2>1. n \in 0..n
    OBVIOUS
  <2>2. Sums(Words(b), n)[n] \in Nat /\ Sums(Words(b), n)[n] <= 65535 * n
    BY ONLY <1>3, <2>1, n \in Nat, SumsBounded
  <2> QED
    BY ONLY <2>2
<1>9. PICK e \in Nat : e = OnesComplementSum(b) /\ e <= 65535 /\ e = Folded(t)
  BY <1>1, <1>2, <1>8, SumIsFolded
<1>10. Words(c)[k] = 65535 - e
  BY <1>2, <1>4, <1>9 DEF Complement
<1>11. PICK m \in Nat : m = t + (65535 - e) /\ m = Sums(Words(c), n)[n]
  BY <1>7, <1>8, <1>9, <1>10
<1>12. Folded(m) = 65535
  <2>1. t <= 65535 * 65536
    BY <1>2, <1>8
  <2>2. e = Folded(t) /\ m = t + (65535 - e)
    BY <1>9, <1>11
  <2> QED
    BY ONLY <2>1, <2>2, t \in Nat, e \in Nat, m \in Nat, FoldComplement
<1>13. OnesComplementSum(c) = 65535
  <2>1. n = (Len(c) + 1) \div 2
    BY <1>1
  <2>2. OnesComplementSum(c) = Folded(Sums(Words(c), n)[n])
    BY <1>2, <2>1, SumIsFolded
  <2> QED
    BY <1>11, <1>12, <2>2
<1> QED
  BY <1>13 DEF Complement

-----------------------------------------------------------------------------
(* A checksum is put in place of 0.                                        *)

\* What GetData reads, byte by byte.
LEMMA GetDataBytes ==
  ASSUME NEW b \in Seq(Byte), NEW size \in Nat, NEW at \in Nat, NEW i \in Int
  PROVE  ByteAt(GetData(b, size, at), i) = IF i \in 1..size THEN ByteAt(b, at + i) ELSE 0
<1>1. Len(GetData(b, size, at)) = size
  BY GetDataType
<1> QED
  BY <1>1 DEF ByteAt, GetData

\* The first bytes, read from the front.
LEMMA GetFrontBytes ==
  ASSUME NEW b \in Seq(Byte), NEW size \in Nat, NEW i \in Int
  PROVE  ByteAt(GetData(b, size, 0), i) = IF i \in 1..size THEN ByteAt(b, i) ELSE 0
<1>1. 0 + i = i
  OBVIOUS
<1>2. ByteAt(GetData(b, size, 0), i) = IF i \in 1..size THEN ByteAt(b, 0 + i) ELSE 0
  <2>1. 0 \in Nat
    OBVIOUS
  <2> QED
    BY <2>1, GetDataBytes, Zenon
<1> QED
  BY <1>1, <1>2, Zenon

\* The fields of one and of two bytes, read byte by byte.
LEMMA GetByte ==
  ASSUME NEW fields, NEW f, NEW l, FieldAt(fields, f, l), l.size = 1, NEW h
  PROVE  Get(fields, h, f) = (ByteAt(h, l.at + 1) \div l.low) % l.range
<1>1. f \notin {"identifier", "seqnumber"} /\ fields[f] = l /\ ~ (l.size > 2)
  BY DEF FieldAt
<1>2. GetData(h, 1, l.at) = [i \in 1..1 |-> ByteAt(h, l.at + i)]
  BY DEF GetData
<1>3. Number(GetData(h, 1, l.at)) = ByteAt(h, l.at + 1)
  BY <1>2 DEF Number
<1> QED
  BY <1>1, <1>3, Zenon DEF Get, HostOrder

\* A field of two bytes is the number they make,
LEMMA GetWord ==
  ASSUME NEW fields, NEW f, NEW l, FieldAt(fields, f, l), l.size = 2, NEW h,
         f \notin {"identifier", "seqnumber"}
  PROVE  Get(fields, h, f)
           = ((256 * ByteAt(h, l.at + 1) + ByteAt(h, l.at + 2)) \div l.low) % l.range
<1>1. fields[f] = l /\ ~ (l.size > 2)
  BY DEF FieldAt
<1>2. GetData(h, 2, l.at) = [i \in 1..2 |-> ByteAt(h, l.at + i)]
  BY DEF GetData
<1>3. Number(GetData(h, 2, l.at)) = 256 * ByteAt(h, l.at + 1) + ByteAt(h, l.at + 2)
  BY <1>2 DEF Number
<1> QED
  BY <1>1, <1>3, Zenon DEF Get, HostOrder

\* A field that is a word, in the order of the network.
WordAt(fields, f, l) ==
  /\ FieldAt(fields, f, l) /\ l.size = 2 /\ l.low = 1 /\ l.range = 65536
  /\ f \notin {"identifier", "seqnumber"}

\* and is replaced as a whole.
LEMMA PutWord ==
  ASSUME NEW fields, NEW f, NEW l, WordAt(fields, f, l), NEW h \in Seq(Byte), NEW v \in Word
  PROVE  /\ Fits(l, v)
         /\ 256 * ByteAt(Put(fields, h, f, v), l.at + 1)
               + ByteAt(Put(fields, h, f, v), l.at + 2) = v
<1> DEFINE p == Put(fields, h, f, v)
<1>1. Fits(l, v)
  <2>1. l.range = 65536
    BY DEF WordAt
  <2>2. l.size # 4
    BY DEF WordAt
  <2>3. v \in Nat /\ v <= l.range - 1 /\ l.range \in Int
    BY <2>1, WordIs
  <2> QED
    BY ONLY <2>3, <2>2 DEF Fits
<1>2. Get(fields, p, f) = v /\ p \in Seq(Byte)
  BY <1>1, PutField DEF WordAt
<1>3. ByteAt(p, l.at + 1) \in Byte /\ ByteAt(p, l.at + 2) \in Byte
  <2>1. l.at + 1 \in Int /\ l.at + 2 \in Int
    BY DEF WordAt, FieldAt, Layout
  <2> QED
    BY <1>2, <2>1, ByteAtType
<1> HIDE DEF p
<1>4. PICK n \in Nat : n = 256 * ByteAt(p, l.at + 1) + ByteAt(p, l.at + 2) /\ n <= 65535
  BY <1>3, TwoBytes, WordIs
<1>5. v = (n \div 1) % 65536
  BY <1>2, <1>4, GetWord DEF WordAt
<1>6. (n \div 1) % 65536 = n
  BY <1>4
<1> QED
  BY <1>1, <1>4, <1>5, <1>6 DEF p

\* SetChecksum(0), and then SetChecksum of what is computed.
PutTwice(fields, f, h, s, zero, new) ==
  zero = Put(fields, h, f, 0) /\ new = Put(fields, zero, f, s)

\* Writing a field twice changes its two bytes only.
LEMMA TwicePut ==
  ASSUME NEW fields, NEW f, NEW l, WordAt(fields, f, l), NEW h \in Seq(Byte), NEW s \in Word,
         NEW zero, NEW new, PutTwice(fields, f, h, s, zero, new)
  PROVE  /\ zero \in Seq(Byte) /\ new \in Seq(Byte)
         /\ Len(zero) = Greatest(Len(h), l.at + 2) /\ Len(new) = Len(zero)
         /\ \A i \in Int : i # l.at + 1 /\ i # l.at + 2 =>
              ByteAt(zero, i) = ByteAt(h, i) /\ ByteAt(new, i) = ByteAt(h, i)
         /\ ByteAt(zero, l.at + 1) = 0 /\ ByteAt(zero, l.at + 2) = 0
         /\ 256 * ByteAt(new, l.at + 1) + ByteAt(new, l.at + 2) = s
<1> USE DEF PutTwice
<1>1. l.at \in Nat /\ l.size = 2 /\ FieldAt(fields, f, l)
  BY DEF WordAt, FieldAt, Layout
<1>2. 0 \in Word
  BY WordIs
<1>3. Fits(l, 0) /\ Fits(l, s)
  BY <1>2, PutWord
<1>4. /\ zero \in Seq(Byte) /\ Len(zero) = Greatest(Len(h), l.at + 2)
      /\ \A i \in Int : i \notin (l.at + 1)..(l.at + 2) => ByteAt(zero, i) = ByteAt(h, i)
  BY <1>1, <1>3, PutField
<1>5. /\ new \in Seq(Byte) /\ Len(new) = Greatest(Len(zero), l.at + 2)
      /\ \A i \in Int : i \notin (l.at + 1)..(l.at + 2) => ByteAt(new, i) = ByteAt(zero, i)
  BY <1>1, <1>3, <1>4, PutField
<1>6. Len(new) = Len(zero)
  BY <1>1, <1>4, <1>5 DEF Greatest
<1>7. 256 * ByteAt(zero, l.at + 1) + ByteAt(zero, l.at + 2) = 0
  BY <1>2, PutWord
<1>8. ByteAt(zero, l.at + 1) \in Nat /\ ByteAt(zero, l.at + 2) \in Nat
  <2>1. l.at + 1 \in Int /\ l.at + 2 \in Int
    BY <1>1
  <2> QED
    BY <1>4, <2>1, ByteAtType, ByteIs
<1>9. ByteAt(zero, l.at + 1) = 0 /\ ByteAt(zero, l.at + 2) = 0
  BY <1>7, <1>8
<1>10. 256 * ByteAt(new, l.at + 1) + ByteAt(new, l.at + 2) = s
  BY <1>4, PutWord
<1>11. \A i \in Int : i # l.at + 1 /\ i # l.at + 2 => i \notin (l.at + 1)..(l.at + 2)
  BY <1>1
<1> QED
  BY <1>4, <1>5, <1>6, <1>9, <1>10, <1>11

\* A field apart from the checksum stays as it is.
LEMMA TwicePutApart ==
  ASSUME NEW fields, NEW f, NEW l, WordAt(fields, f, l), NEW h \in Seq(Byte), NEW s \in Word,
         NEW zero, NEW new, PutTwice(fields, f, h, s, zero, new),
         NEW g, NEW m, FieldAt(fields, g, m), Apart(l, m)
  PROVE  Get(fields, zero, g) = Get(fields, h, g) /\ Get(fields, new, g) = Get(fields, h, g)
<1> USE DEF PutTwice
<1>1. Fits(l, 0) /\ Fits(l, s) /\ FieldAt(fields, f, l) /\ zero \in Seq(Byte)
  <2>1. 0 \in Word
    BY WordIs
  <2> QED
    BY <2>1, PutWord, TwicePut DEF WordAt
<1> QED
  BY <1>1, PutApart

-----------------------------------------------------------------------------
(* The setters of the IP header.                                           *)

\* Where the checksum of the IP header is.
LEMMA IPChecksumAt ==
  WordAt(IPFields, "ipchecksum", IPFields["ipchecksum"]) /\ IPFields["ipchecksum"].at = 10
<1>1. "ipchecksum" \in IPNames
  BY DEF IPNames
<1>2. IPFields["ipchecksum"] = At(10, 2)
  BY DEF IPFields
<1>3. At(10, 2).size = 2 /\ At(10, 2).low = 1 /\ At(10, 2).range = 65536 /\ At(10, 2).at = 10
  BY DEF At
<1> QED
  BY <1>1, <1>2, <1>3, IPLayout DEF WordAt

\* The header length is 15 words at most, so that the sum is a word.
LEMMA IPSum ==
  ASSUME NEW h \in Seq(Byte)
  PROVE  /\ Get(IPFields, h, "hlen") \in 0..15
         /\ IPComputeChecksum(h) \in Word
<1>1. Get(IPFields, h, "hlen") \in 0..15
  <2>1. "hlen" \in IPNames /\ IPFields["hlen"] = Part(0, 1, 1, 16)
    BY DEF IPNames, IPFields
  <2>2. Fits(Part(0, 1, 1, 16), Get(IPFields, h, "hlen"))
    BY <2>1, IPLayout, GetFits
  <2> QED
    BY <2>2 DEF Fits, Part
<1>2. PICK n \in Nat : n = 4 * Get(IPFields, h, "hlen") /\ n <= 60
  BY <1>1
<1>3. GetData(h, n, 0) \in Seq(Byte) /\ Len(GetData(h, n, 0)) = n
  BY GetDataType
<1>4. PICK m \in Nat : m = (n + 1) \div 2 /\ n <= 2 * m /\ 2 * m <= n + 1
  BY HalfLength
<1>5. PICK e \in Nat : e = OnesComplementSum(GetData(h, n, 0)) /\ e <= 65535
  <2>1. m <= 65536 /\ m = (Len(GetData(h, n, 0)) + 1) \div 2
    BY <1>2, <1>3, <1>4
  <2> QED
    BY ONLY <1>3, <2>1, m \in Nat, SumIsFolded
<1>6. IPComputeChecksum(h) = 65535 - e
  BY <1>2, <1>5 DEF IPComputeChecksum, Complement
<1> QED
  BY <1>1, <1>5, <1>6, WordIs

\* Recomputing changes nothing but the checksum, and makes it right for a header of
\* five words.
LEMMA IPRecomputed ==
  ASSUME NEW h \in Seq(Byte)
  PROVE  /\ IPRecompute(h) \in Seq(Byte) /\ Len(IPRecompute(h)) = Greatest(Len(h), 12)
         /\ \A g \in IPNames \ {"ipchecksum"} :
              Get(IPFields, IPRecompute(h), g) = Get(IPFields, h, g)
         /\ Get(IPFields, h, "hlen") = 5 => IPChecksumCorrect(IPRecompute(h))
<1> DEFINE l    == IPFields["ipchecksum"]
           zero == Put(IPFields, h, "ipchecksum", 0)
           s    == IPComputeChecksum(zero)
           new  == Put(IPFields, zero, "ipchecksum", s)
<1>1. IPRecompute(h) = new
  BY DEF IPRecompute
<1>2. WordAt(IPFields, "ipchecksum", l) /\ l.at = 10
  BY IPChecksumAt
<1>3. zero \in Seq(Byte)
  <2>1. FieldAt(IPFields, "ipchecksum", l) /\ Fits(l, 0)
    <3>1. 0 \in Word
      BY WordIs
    <3> QED
      BY <1>2, <3>1, PutWord DEF WordAt
  <2> QED
    BY <2>1, PutField
<1>4. s \in Word
  BY <1>3, IPSum
<1> HIDE DEF l, zero, new, s
<1>5. PutTwice(IPFields, "ipchecksum", h, s, zero, new)
  BY DEF PutTwice, zero, new
<1>6. /\ new \in Seq(Byte)
      /\ Len(zero) = Greatest(Len(h), l.at + 2) /\ Len(new) = Len(zero)
      /\ \A i \in Int : i # l.at + 1 /\ i # l.at + 2 =>
           ByteAt(zero, i) = ByteAt(h, i) /\ ByteAt(new, i) = ByteAt(h, i)
      /\ ByteAt(zero, l.at + 1) = 0 /\ ByteAt(zero, l.at + 2) = 0
      /\ 256 * ByteAt(new, l.at + 1) + ByteAt(new, l.at + 2) = s
  BY <1>2, <1>4, <1>5, TwicePut
<1>7. ASSUME NEW g \in IPNames \ {"ipchecksum"}
      PROVE  Get(IPFields, zero, g) = Get(IPFields, h, g)
             /\ Get(IPFields, new, g) = Get(IPFields, h, g)
  <2>1. "ipchecksum" \in IPNames /\ "ipchecksum" \notin {"version", "hlen", "flags", "fragoffset"}
    BY DEF IPNames
  <2>2. {"ipchecksum", g} # {"version", "hlen"} /\ {"ipchecksum", g} # {"flags", "fragoffset"}
    BY <2>1
  <2>3. Apart(l, IPFields[g]) /\ FieldAt(IPFields, g, IPFields[g])
    BY <2>1, <2>2, IPApart, IPLayout DEF l
  <2> QED
    BY <1>2, <1>4, <1>5, <2>3, TwicePutApart
<1>8. ASSUME Get(IPFields, h, "hlen") = 5
      PROVE  IPChecksumCorrect(new)
  <2>1. Get(IPFields, zero, "hlen") = 5 /\ Get(IPFields, new, "hlen") = 5
    BY <1>7, <1>8 DEF IPNames
  <2> DEFINE b == GetData(zero, 20, 0)
             c == GetData(new, 20, 0)
  <2>2. b \in Seq(Byte) /\ c \in Seq(Byte) /\ Len(b) = 20 /\ Len(c) = 20
    BY <1>3, <1>6, GetDataType
  <2>3. \A i \in Int : /\ ByteAt(b, i) = IF i \in 1..20 THEN ByteAt(zero, i) ELSE 0
                      /\ ByteAt(c, i) = IF i \in 1..20 THEN ByteAt(new, i) ELSE 0
    <3> TAKE i \in Int
    <3>1. 20 \in Nat
      OBVIOUS
    <3> QED
      BY <1>3, <1>6, <3>1, GetFrontBytes, Zenon
  <2>4. s = Complement(OnesComplementSum(b))
    BY <2>1 DEF s, IPComputeChecksum
  <2>5. IPComputeChecksum(new) = Complement(OnesComplementSum(c))
    BY <2>1 DEF IPComputeChecksum
  <2> HIDE DEF b, c
  <2>6. PICK k \in Nat : k = 6
    OBVIOUS
  <2>7. /\ \A i \in Int : i # 2 * k - 1 /\ i # 2 * k => ByteAt(c, i) = ByteAt(b, i)
        /\ ByteAt(b, 2 * k - 1) = 0 /\ ByteAt(b, 2 * k) = 0
        /\ 256 * ByteAt(c, 2 * k - 1) + ByteAt(c, 2 * k) = s
    BY <1>2, <1>6, <2>3, <2>6
  <2>8. k > 0 /\ 2 * k <= Len(b) /\ Short(b) /\ Len(c) = Len(b)
    BY <2>2, <2>6 DEF Short, Limit
  <2>9. WithWord(b, k, s, c)
    BY <2>2, <2>7, <2>8 DEF WithWord
  <2>10. Complement(OnesComplementSum(c)) = 0
    BY <2>4, <2>8, <2>9, SumComplement, Zenon
  <2> QED
    BY <2>5, <2>10 DEF IPChecksumCorrect
<1> QED
  BY <1>1, <1>2, <1>6, <1>7, <1>8

\* A byte is its own number.
LEMMA OneByte ==
  ASSUME NEW b \in [1..1 -> Byte]
  PROVE  b \in Seq(Byte) /\ Len(b) = 1 /\ Number(b) = b[1]
<1>1. \A n \in Nat : \A c \in [1..n -> Byte] : c \in Seq(Byte) /\ Len(c) = n
  OBVIOUS
<1>2. b \in Seq(Byte) /\ Len(b) = 1
  BY <1>1, Zenon
<1> QED
  BY <1>2 DEF Number

\* What Put writes into a byte.
LEMMA PutByte ==
  ASSUME NEW fields, NEW f, NEW l, FieldAt(fields, f, l), l.size = 1,
         NEW h \in Seq(Byte), NEW v, Fits(l, v)
  PROVE  ByteAt(Put(fields, h, f, v), l.at + 1) = Written(ByteAt(h, l.at + 1), v, l.low, l.range)
<1> DEFINE old == ByteAt(h, l.at + 1)
           new == Written(old, v, l.low, l.range)
<1>1. /\ l.at \in Nat /\ fields[f] = l /\ ~ (l.size > 2)
      /\ f \notin {"identifier", "seqnumber"}
  BY DEF FieldAt, Layout
<1>2. old \in Byte
  <2>1. l.at + 1 \in Int
    BY <1>1
  <2> QED
    BY <2>1, ByteAtType
<1>3. Number(GetData(h, 1, l.at)) = old
  <2>1. GetData(h, 1, l.at) = [i \in 1..1 |-> ByteAt(h, l.at + i)]
    BY DEF GetData
  <2> QED
    BY <2>1 DEF Number
<1>4. Put(fields, h, f, v) = SetData(h, Bytes(new, 1), l.at)
  BY <1>1, <1>3, Zenon DEF Put, Written, HostOrder
<1>5. <<l.size, l.low, l.range>> \in Shapes /\ v \in 0..(l.range - 1)
  <2>1. l \in Layout /\ l.size # 4
    BY DEF FieldAt
  <2> QED
    BY ONLY <2>1, Fits(l, v) DEF Layout, Fits
<1> HIDE DEF old
<1>6. new \in OfSize(1)
  <2>1. old \in OfSize(1)
    BY <1>2 DEF OfSize
  <2>2. <<1, l.low, l.range>> \in Shapes
    BY <1>5
  <2> QED
    BY <1>5, <2>1, <2>2, WrittenNumber, Zenon
<1> HIDE DEF new
<1>7. PICK b \in [1..1 -> Byte] : b = Bytes(new, 1) /\ Number(b) = new
  BY <1>6, BytesNumber
<1>8. b \in Seq(Byte) /\ Len(b) = 1 /\ b[1] = new
  BY <1>7, OneByte, Zenon
<1>9. ByteAt(SetData(h, b, l.at), l.at + 1) = b[1]
  <2>1. PICK i \in Int : i = l.at + 1 /\ i - l.at \in 1..1 /\ i - l.at = 1
    BY <1>1
  <2>2. \A j \in Int : ByteAt(SetData(h, b, l.at), j)
          = IF j - l.at \in 1..Len(b) THEN b[j - l.at] ELSE ByteAt(h, j)
    BY <1>1, <1>8, SetDataBytes, Zenon
  <2> QED
    BY <1>8, <2>1, <2>2
<1> QED
  BY <1>4, <1>7, <1>8, <1>9 DEF new, old

\* The other half of a byte stays, and so does the part of the fragment offset that is
\* in the byte of the flags.
LEMMA OtherHalf ==
  ASSUME NEW old \in Nat, NEW v \in Nat, v < 16
  PROVE  /\ (Written(old, v, 16, 16) \div 1) % 16 = (old \div 1) % 16
         /\ (Written(old, v, 1, 16) \div 16) % 16 = (old \div 16) % 16
<1>1. (Written(old, v, 16, 16) \div 1) % 16 = (old \div 1) % 16
  BY DEF Written
<1>2. (Written(old, v, 1, 16) \div 16) % 16 = (old \div 16) % 16
  BY DEF Written
<1> QED
  BY <1>1, <1>2

\* The offset does not change with the flags above it.
LEMMA OtherPart ==
  ASSUME NEW old \in Nat, NEW v \in Nat, v < 8, NEW rest \in Nat
  PROVE  ((256 * Written(old, v, 32, 8) + rest) \div 1) % 8192
            = ((256 * old + rest) \div 1) % 8192
  BY DEF Written

\* A setter leaves every other field of the header as it is, those in the same byte too.
LEMMA PutIP ==
  ASSUME NEW h \in Seq(Byte), NEW f \in IPNames \ {"fragoffset"}, NEW v, Fits(IPFields[f], v),
         NEW g \in IPNames \ {f}
  PROVE  Get(IPFields, Put(IPFields, h, f, v), g) = Get(IPFields, h, g)
<1> DEFINE p == Put(IPFields, h, f, v)
           old == ByteAt(h, IPFields[f].at + 1)
<1>1. FieldAt(IPFields, f, IPFields[f]) /\ FieldAt(IPFields, g, IPFields[g])
  BY IPLayout
<1>2. CASE {f, g} # {"version", "hlen"} /\ {f, g} # {"flags", "fragoffset"}
  <2>1. Apart(IPFields[f], IPFields[g])
    BY <1>2, IPApart
  <2> QED
    BY <1>1, <2>1, PutApart
<1>3. ASSUME IPFields[f].size = 1
      PROVE  ByteAt(p, IPFields[f].at + 1) = Written(old, v, IPFields[f].low, IPFields[f].range)
  BY <1>1, <1>3, PutByte
<1>4. \A i \in Int : i \notin (IPFields[f].at + 1)..(IPFields[f].at + IPFields[f].size) =>
        ByteAt(p, i) = ByteAt(h, i)
  BY <1>1, PutField
<1>5. \A i \in Int : ByteAt(h, i) \in Nat
  BY ByteAtType, ByteIs
<1> HIDE DEF p
<1>6. CASE f = "version" /\ g = "hlen"
  <2>1. IPFields[f] = Part(0, 1, 16, 16) /\ IPFields[g] = Part(0, 1, 1, 16)
    BY <1>6 DEF IPFields
  <2>2. ByteAt(p, 1) = Written(ByteAt(h, 1), v, 16, 16) /\ v \in Nat /\ v < 16
    BY <1>3, <2>1 DEF Part, Fits
  <2>3. \A b : Get(IPFields, b, "hlen") = (ByteAt(b, 1) \div 1) % 16
    BY <1>1, <1>6, <2>1, GetByte DEF Part
  <2>4. (ByteAt(p, 1) \div 1) % 16 = (ByteAt(h, 1) \div 1) % 16
    <3>1. PICK a \in Nat : a = ByteAt(h, 1)
      BY <1>5
    <3>2. (Written(a, v, 16, 16) \div 1) % 16 = (a \div 1) % 16
      BY <2>2, OtherHalf, Zenon
    <3> QED
      BY <2>2, <3>1, <3>2
  <2> QED
    BY <1>6, <2>3, <2>4 DEF p
<1>7. CASE f = "hlen" /\ g = "version"
  <2>1. IPFields[g] = Part(0, 1, 16, 16) /\ IPFields[f] = Part(0, 1, 1, 16)
    BY <1>7 DEF IPFields
  <2>2. ByteAt(p, 1) = Written(ByteAt(h, 1), v, 1, 16) /\ v \in Nat /\ v < 16
    BY <1>3, <2>1 DEF Part, Fits
  <2>3. \A b : Get(IPFields, b, "version") = (ByteAt(b, 1) \div 16) % 16
    BY <1>1, <1>7, <2>1, GetByte DEF Part
  <2>4. (ByteAt(p, 1) \div 16) % 16 = (ByteAt(h, 1) \div 16) % 16
    <3>1. PICK a \in Nat : a = ByteAt(h, 1)
      BY <1>5
    <3>2. (Written(a, v, 1, 16) \div 16) % 16 = (a \div 16) % 16
      BY <2>2, OtherHalf, Zenon
    <3> QED
      BY <2>2, <3>1, <3>2
  <2> QED
    BY <1>7, <2>3, <2>4 DEF p
<1>8. CASE f = "flags" /\ g = "fragoffset"
  <2>1. IPFields[f] = Part(6, 1, 32, 8) /\ IPFields[g] = Part(6, 2, 1, 8192)
    BY <1>8 DEF IPFields
  <2>2. ByteAt(p, 7) = Written(ByteAt(h, 7), v, 32, 8) /\ v \in Nat /\ v < 8
    BY <1>3, <2>1 DEF Part, Fits
  <2>3. ByteAt(p, 8) = ByteAt(h, 8)
    BY <1>4, <2>1 DEF Part
  <2>4. \A b : Get(IPFields, b, "fragoffset")
                 = ((256 * ByteAt(b, 7) + ByteAt(b, 8)) \div 1) % 8192
    BY <1>1, <1>8, <2>1, GetWord DEF Part
  <2>5. PICK a \in Nat, b \in Nat : a = ByteAt(h, 7) /\ b = ByteAt(h, 8)
    BY <1>5
  <2>6. ((256 * Written(a, v, 32, 8) + b) \div 1) % 8192 = ((256 * a + b) \div 1) % 8192
    BY <2>2, OtherPart
  <2> QED
    BY <1>8, <2>2, <2>3, <2>4, <2>5, <2>6 DEF p
<1> QED
  BY <1>2, <1>6, <1>7, <1>8

\* SetFragOffset overwrites the flags and puts them back.
LEMMA FragOffset ==
  ASSUME NEW h \in Seq(Byte), NEW v, Fits(IPFields["fragoffset"], v)
  PROVE  /\ SetFragOffset(h, v) \in Seq(Byte)
         /\ Len(SetFragOffset(h, v)) = Greatest(Len(h), 8)
         /\ Get(IPFields, SetFragOffset(h, v), "fragoffset") = v
         /\ \A g \in IPNames \ {"fragoffset"} :
              Get(IPFields, SetFragOffset(h, v), g) = Get(IPFields, h, g)
<1> DEFINE m  == SetData(h, Bytes(v, 2), 6)
           fl == Get(IPFields, h, "flags")
           r  == Put(IPFields, m, "flags", fl)
<1>1. /\ "flags" \in IPNames /\ "fragoffset" \in IPNames
      /\ IPFields["flags"] = Part(6, 1, 32, 8) /\ IPFields["fragoffset"] = Part(6, 2, 1, 8192)
  BY DEF IPNames, IPFields
<1>2. \A g \in IPNames : FieldAt(IPFields, g, IPFields[g])
  BY IPLayout
<1>3. v \in Nat /\ v < 8192
  BY <1>1 DEF Fits, Part
<1>4. PICK b \in [1..2 -> Byte] : b = Bytes(v, 2) /\ Number(b) = v
  <2>1. v \in OfSize(2) /\ 2 \in {1, 2}
    BY <1>3, WordIs DEF OfSize
  <2> QED
    BY <2>1, BytesNumber, Zenon
<1>5. b \in Seq(Byte) /\ Len(b) = 2 /\ b[1] \in Nat /\ b[2] \in Nat /\ 256 * b[1] + b[2] = v
  <2>1. \A n \in Nat : \A c \in [1..n -> Byte] : c \in Seq(Byte) /\ Len(c) = n
    OBVIOUS
  <2>2. b \in Seq(Byte) /\ Len(b) = 2
    BY <2>1
  <2>3. b[1] \in Byte /\ b[2] \in Byte
    OBVIOUS
  <2> QED
    BY <1>4, <2>2, <2>3, ByteIs DEF Number
<1>6. /\ m \in Seq(Byte) /\ Len(m) = Greatest(Len(h), 8)
      /\ \A i \in Int : ByteAt(m, i) = IF i - 6 \in 1..2 THEN b[i - 6] ELSE ByteAt(h, i)
  <2>1. 6 \in Nat
    OBVIOUS
  <2>2. /\ SetData(h, b, 6) \in Seq(Byte)
        /\ Len(SetData(h, b, 6)) = Greatest(Len(h), 6 + Len(b))
        /\ \A i \in Int : ByteAt(SetData(h, b, 6), i)
              = IF i - 6 \in 1..Len(b) THEN b[i - 6] ELSE ByteAt(h, i)
    BY <1>5, <2>1, SetDataBytes, Zenon
  <2>3. 6 + 2 = 8
    OBVIOUS
  <2> QED
    BY <1>4, <1>5, <2>2, <2>3, Zenon
<1>7. Fits(IPFields["flags"], fl)
  BY <1>1, <1>2, GetFits
<1> HIDE DEF m, fl
<1>8. SetFragOffset(h, v) = r
  BY DEF SetFragOffset, m, fl
<1>9. r \in Seq(Byte) /\ Get(IPFields, r, "flags") = fl /\ Len(r) = Greatest(Len(m), 7)
  <2>1. IPFields["flags"].at + IPFields["flags"].size = 7
    BY <1>1 DEF Part
  <2> QED
    BY <1>1, <1>2, <1>6, <1>7, <2>1, PutField
<1>10. Len(r) = Greatest(Len(h), 8)
  BY <1>6, <1>9 DEF Greatest
<1>11. \A g \in IPNames \ {"flags"} : Get(IPFields, r, g) = Get(IPFields, m, g)
  <2>1. "flags" \in IPNames \ {"fragoffset"}
    BY <1>1
  <2> QED
    BY <1>6, <1>7, <2>1, PutIP
<1>12. Get(IPFields, m, "fragoffset") = v
  <2>1. Get(IPFields, m, "fragoffset") = ((256 * ByteAt(m, 7) + ByteAt(m, 8)) \div 1) % 8192
    BY <1>1, <1>2, GetWord DEF Part
  <2>2. ByteAt(m, 7) = b[1] /\ ByteAt(m, 8) = b[2]
    BY <1>6
  <2>3. (v \div 1) % 8192 = v
    BY <1>3
  <2> QED
    BY <1>5, <2>1, <2>2, <2>3
<1>13. ASSUME NEW g \in IPNames \ {"flags", "fragoffset"}
       PROVE  Get(IPFields, m, g) = Get(IPFields, h, g)
  <2>1. Apart(IPFields[g], IPFields["fragoffset"]) /\ FieldAt(IPFields, g, IPFields[g])
    <3>1. {g, "fragoffset"} # {"version", "hlen"} /\ {g, "fragoffset"} # {"flags", "fragoffset"}
      OBVIOUS
    <3>2. g \in IPNames /\ "fragoffset" \in IPNames /\ g # "fragoffset"
      BY <1>1
    <3>3. Apart(IPFields[g], IPFields["fragoffset"])
      BY ONLY <3>1, <3>2, IPApart
    <3> QED
      BY <1>2, <3>2, <3>3
  <2>2. \A i \in (IPFields[g].at + 1)..(IPFields[g].at + IPFields[g].size) :
          ByteAt(m, i) = ByteAt(h, i)
    <3>1. IPFields[g].at \in Nat /\ IPFields[g].size \in Nat
      BY <2>1 DEF FieldAt, Layout
    <3>2. IPFields["fragoffset"].at = 6 /\ IPFields["fragoffset"].size = 2
      BY <1>1 DEF Part
    <3> QED
      BY <1>6, <2>1, <3>1, <3>2 DEF Apart
  <2> QED
    BY <2>1, <2>2, GetSame
<1> QED
  BY <1>1, <1>8, <1>9, <1>10, <1>11, <1>12, <1>13 DEF fl

\* A setter of the IP header (ip.cc) sets its field and no other, whatever bytes the two
\* share, and makes the checksum right for a header without options.
THEOREM SetIPRight ==
  ASSUME NEW h \in Seq(Byte), NEW f \in IPNames \ {"ipchecksum"}, NEW v, Fits(IPFields[f], v)
  PROVE  /\ SetIP(h, f, v) \in Seq(Byte)
         /\ Get(IPFields, SetIP(h, f, v), f) = v
         /\ \A g \in IPNames \ {"ipchecksum", f} :
              Get(IPFields, SetIP(h, f, v), g) = Get(IPFields, h, g)
         /\ Len(h) <= 20 => /\ Len(SetIP(h, f, v)) <= 20
                            /\ Len(h) = 20 \/ f = "dest" => Len(SetIP(h, f, v)) = 20
         /\ Get(IPFields, SetIP(h, f, v), "hlen") = 5 => IPChecksumCorrect(SetIP(h, f, v))
<1> DEFINE m   == IF f = "fragoffset" THEN SetFragOffset(h, v) ELSE Put(IPFields, h, f, v)
           end == IPFields[f].at + IPFields[f].size
<1>1. SetIP(h, f, v) = IPRecompute(m)
  BY DEF SetIP
<1>2. end \in Nat /\ end <= 20 /\ (f = "dest" => end = 20) /\ (f = "fragoffset" => end = 8)
  BY DEF IPNames, IPFields, At, Part, Four
<1>3. /\ m \in Seq(Byte) /\ Len(m) = Greatest(Len(h), end)
      /\ Get(IPFields, m, f) = v
      /\ \A g \in IPNames \ {f} : Get(IPFields, m, g) = Get(IPFields, h, g)
  <2>1. CASE f = "fragoffset"
    BY <1>2, <2>1, FragOffset
  <2>2. CASE f # "fragoffset"
    <3>1. FieldAt(IPFields, f, IPFields[f])
      BY IPLayout
    <3>2. m = Put(IPFields, h, f, v)
      BY <2>2
    <3>3. \A g \in IPNames \ {f} : Get(IPFields, m, g) = Get(IPFields, h, g)
      BY <2>2, <3>2, PutIP
    <3> QED
      BY <3>1, <3>2, <3>3, PutField
  <2> QED
    BY <2>1, <2>2
<1> HIDE DEF m, end
<1>4. /\ IPRecompute(m) \in Seq(Byte) /\ Len(IPRecompute(m)) = Greatest(Len(m), 12)
      /\ \A g \in IPNames \ {"ipchecksum"} : Get(IPFields, IPRecompute(m), g) = Get(IPFields, m, g)
      /\ Get(IPFields, m, "hlen") = 5 => IPChecksumCorrect(IPRecompute(m))
  BY <1>3, IPRecomputed
<1>5. Len(h) <= 20 => /\ Len(IPRecompute(m)) <= 20
                      /\ Len(h) = 20 \/ f = "dest" => Len(IPRecompute(m)) = 20
  <2>1. PICK n \in Nat, k \in Nat, j \in Nat :
          /\ n = Len(h) /\ k = Len(m) /\ j = Len(IPRecompute(m))
          /\ k = Greatest(n, end) /\ j = Greatest(k, 12)
    BY <1>3, <1>4
  <2>2. k = Greatest(n, end) /\ j = Greatest(k, 12)
    BY <2>1
  <2>3. n <= 20 => j <= 20 /\ (n = 20 \/ f = "dest" => j = 20)
    BY ONLY <1>2, <2>2, n \in Nat, k \in Nat, j \in Nat DEF Greatest
  <2> QED
    BY <2>1, <2>3
<1>6. "hlen" \in IPNames \ {"ipchecksum"}
  BY DEF IPNames
<1> QED
  BY <1>1, <1>3, <1>4, <1>5, <1>6

-----------------------------------------------------------------------------
(* The setters of the headers after it.                                    *)

\* Bytes one after the other.
LEMMA BytesOfBoth ==
  ASSUME NEW p \in Seq(Byte), NEW q \in Seq(Byte)
  PROVE  /\ p \o q \in Seq(Byte) /\ Len(p \o q) = Len(p) + Len(q)
         /\ \A i \in Int : ByteAt(p \o q, i)
              = IF i <= Len(p) THEN ByteAt(p, i) ELSE ByteAt(q, i - Len(p))
<1>1. p \o q \in Seq(Byte) /\ Len(p \o q) = Len(p) + Len(q) /\ Len(p) \in Nat /\ Len(q) \in Nat
  OBVIOUS
<1>2. ASSUME NEW i \in Int
      PROVE  ByteAt(p \o q, i) = IF i <= Len(p) THEN ByteAt(p, i) ELSE ByteAt(q, i - Len(p))
  <2>1. CASE i \in 1..Len(p)
    <3>1. i \in 1..Len(p \o q) /\ (p \o q)[i] = p[i]
      BY <2>1
    <3> QED
      BY <2>1, <3>1 DEF ByteAt
  <2>2. CASE i > Len(p) /\ i <= Len(p) + Len(q)
    <3>1. i \in 1..Len(p \o q) /\ (p \o q)[i] = q[i - Len(p)] /\ i - Len(p) \in 1..Len(q)
      BY <2>2
    <3> QED
      BY <2>2, <3>1 DEF ByteAt
  <2>3. CASE i < 1
    BY <1>1, <2>3 DEF ByteAt
  <2>4. CASE i > Len(p) + Len(q)
    BY <1>1, <2>4 DEF ByteAt
  <2> QED
    BY <1>1, <2>1, <2>2, <2>3, <2>4
<1> QED
  BY <1>1, <1>2

Joined(x, p, q) ==
  /\ x \in Seq(Byte) /\ Len(x) = Len(p) + Len(q)
  /\ \A i \in Int : ByteAt(x, i) = IF i <= Len(p) THEN ByteAt(p, i) ELSE ByteAt(q, i - Len(p))

\* Two sequences of bytes, joined,
LEMMA Join ==
  ASSUME NEW p \in Seq(Byte), NEW q \in Seq(Byte)
  PROVE  Joined(p \o q, p, q)
  BY BytesOfBoth, Zenon DEF Joined

Pieces(x, p, b, r) ==
  /\ x \in Seq(Byte) /\ Len(x) = Len(p) + Len(b) + Len(r)
  /\ \A k \in Int : ByteAt(x, k) = IF k <= Len(p) THEN ByteAt(p, k)
       ELSE IF k <= Len(p) + Len(b) THEN ByteAt(b, k - Len(p))
       ELSE ByteAt(r, k - (Len(p) + Len(b)))

\* and three.
LEMMA JoinTwice ==
  ASSUME NEW p \in Seq(Byte), NEW b \in Seq(Byte), NEW r \in Seq(Byte)
  PROVE  Pieces(p \o b \o r, p, b, r)
<1>1. ASSUME NEW y, NEW x, Joined(y, p, b), Joined(x, y, r)
      PROVE  Pieces(x, p, b, r)
  <2>1. /\ Len(y) = Len(p) + Len(b)
        /\ \A k \in Int : ByteAt(y, k)
             = IF k <= Len(p) THEN ByteAt(p, k) ELSE ByteAt(b, k - Len(p))
    BY <1>1 DEF Joined
  <2>2. /\ x \in Seq(Byte) /\ Len(x) = Len(p) + Len(b) + Len(r)
        /\ \A k \in Int : ByteAt(x, k)
             = IF k <= Len(p) + Len(b) THEN ByteAt(y, k) ELSE ByteAt(r, k - (Len(p) + Len(b)))
    BY <1>1, <2>1 DEF Joined
  <2> QED
    BY <2>1, <2>2 DEF Pieces
<1>2. Joined(p \o b, p, b) /\ p \o b \in Seq(Byte)
  BY Join, BytesOfBoth, Zenon
<1>3. Joined(p \o b \o r, p \o b, r)
  BY <1>2, Join, Zenon
<1> QED
  BY <1>1, <1>2, <1>3, Zenon

\* A word of the middle is a word of the whole.
LEMMA WordWithin ==
  ASSUME NEW p \in Seq(Byte), NEW r \in Seq(Byte), NEW b \in Seq(Byte), NEW c \in Seq(Byte),
         NEW w, NEW j \in Nat, NEW i \in Nat, WithWord(b, j, w, c), Len(p) = 2 * i
  PROVE  WithWord(p \o b \o r, i + j, w, p \o c \o r)
<1>1. /\ j > 0 /\ 2 * j <= Len(b)
      /\ \A k \in Int : k # 2 * j - 1 /\ k # 2 * j => ByteAt(c, k) = ByteAt(b, k)
      /\ ByteAt(b, 2 * j - 1) = 0 /\ ByteAt(b, 2 * j) = 0
      /\ 256 * ByteAt(c, 2 * j - 1) + ByteAt(c, 2 * j) = w
  BY DEF WithWord
<1>2. PICK n \in Nat, m \in Nat, o \in Nat : n = Len(p) /\ m = Len(b) /\ o = Len(r) /\ m = Len(c)
  <2>1. Len(p) \in Nat /\ Len(b) \in Nat /\ Len(r) \in Nat
    OBVIOUS
  <2>2. Len(c) = Len(b)
    BY DEF WithWord
  <2> QED
    BY <2>1, <2>2, Zenon
<1> DEFINE x == p \o b \o r
           y == p \o c \o r
<1>3. /\ x \in Seq(Byte) /\ Len(x) = n + m + o
      /\ \A k \in Int : ByteAt(x, k) = IF k <= n THEN ByteAt(p, k)
           ELSE IF k <= n + m THEN ByteAt(b, k - n) ELSE ByteAt(r, k - (n + m))
  <2>1. Pieces(x, p, b, r)
    BY JoinTwice, Zenon
  <2> HIDE DEF x
  <2> QED
    BY <1>2, <2>1 DEF Pieces
<1>4. /\ y \in Seq(Byte) /\ Len(y) = n + m + o
      /\ \A k \in Int : ByteAt(y, k) = IF k <= n THEN ByteAt(p, k)
           ELSE IF k <= n + m THEN ByteAt(c, k - n) ELSE ByteAt(r, k - (n + m))
  <2>1. Pieces(y, p, c, r)
    BY JoinTwice, Zenon
  <2> HIDE DEF y
  <2> QED
    BY <1>2, <2>1 DEF Pieces
<1> HIDE DEF x, y
<1>5. n = 2 * i /\ 2 * j <= m
  BY <1>1, <1>2
<1>6. ASSUME NEW k \in Int, k # 2 * (i + j) - 1, k # 2 * (i + j)
      PROVE  ByteAt(y, k) = ByteAt(x, k)
  <2>1. k - n \in Int /\ k - n # 2 * j - 1 /\ k - n # 2 * j
    BY <1>5, <1>6
  <2>2. ByteAt(c, k - n) = ByteAt(b, k - n)
    BY <1>1, <2>1
  <2> QED
    BY <1>3, <1>4, <2>2
<1>7. PICK k \in Int : k = 2 * (i + j) /\ k - 1 = 2 * (i + j) - 1
  OBVIOUS
<1>8. /\ ~ (k <= n) /\ k <= n + m /\ ~ (k - 1 <= n) /\ k - 1 <= n + m /\ k - 1 \in Int
      /\ k - n = 2 * j /\ k - 1 - n = 2 * j - 1
  BY <1>1, <1>5, <1>7
<1>9. /\ ByteAt(x, k) = ByteAt(b, 2 * j) /\ ByteAt(x, k - 1) = ByteAt(b, 2 * j - 1)
      /\ ByteAt(y, k) = ByteAt(c, 2 * j) /\ ByteAt(y, k - 1) = ByteAt(c, 2 * j - 1)
  BY <1>3, <1>4, <1>8
<1>10. i + j \in Nat /\ i + j > 0 /\ 2 * (i + j) <= n + m + o
  BY <1>1, <1>5
<1>11. WithWord(x, i + j, w, y)
  BY <1>1, <1>3, <1>4, <1>5, <1>6, <1>7, <1>9, <1>10 DEF WithWord
<1> QED
  BY <1>11 DEF x, y

\* So many bytes are a sequence.
LEMMA BytesAre ==
  ASSUME NEW n \in Nat, NEW c \in [1..n -> Byte]
  PROVE  c \in Seq(Byte) /\ Len(c) = n
  OBVIOUS

\* Two bytes are a sequence of bytes.
LEMMA TwoAre ==
  ASSUME NEW x \in Byte, NEW y \in Byte
  PROVE  <<x, y>> \in Seq(Byte) /\ Len(<<x, y>>) = 2
  OBVIOUS

\* GetData of nothing is nothing.
LEMMA GetDataAny ==
  ASSUME NEW b \in Seq(Byte), NEW n \in Int
  PROVE  GetData(b, n, 0) \in Seq(Byte) /\ Len(GetData(b, n, 0)) = Greatest(0, n)
<1>1. \A m \in Nat : GetData(b, m, 0) \in Seq(Byte) /\ Len(GetData(b, m, 0)) = m
  <2>1. 0 \in Nat
    OBVIOUS
  <2> QED
    BY <2>1, GetDataType, Zenon
<1>2. CASE n >= 0
  <2>1. Greatest(0, n) = n /\ n \in Nat
    BY <1>2 DEF Greatest
  <2> QED
    BY <1>1, <2>1, Zenon
<1>3. CASE n < 0
  <2>1. 1..n = 1..0
    BY <1>3
  <2>2. GetData(b, n, 0) = GetData(b, 0, 0)
    BY <2>1, Zenon DEF GetData
  <2>3. Greatest(0, n) = 0 /\ 0 \in Nat
    BY <1>3 DEF Greatest
  <2> QED
    BY <1>1, <2>2, <2>3, Zenon
<1> QED
  BY <1>2, <1>3

\* The pseudo header is twelve bytes.
LEMMA PseudoHeaderType ==
  ASSUME NEW h \in Seq(Byte), NEW length \in Int
  PROVE  PseudoHeader(h, length) \in Seq(Byte) /\ Len(PseudoHeader(h, length)) = 12
<1> DEFINE s == Get(IPFields, h, "source")
           d == Get(IPFields, h, "dest")
           n == Get(IPFields, h, "protocol")
<1>1. s \in [1..4 -> Byte] /\ d \in [1..4 -> Byte] /\ n \in Byte
  <2>1. /\ {"source", "dest", "protocol"} \subseteq IPNames /\ IPFields["source"] = Four(12)
        /\ IPFields["dest"] = Four(16) /\ IPFields["protocol"] = At(9, 1)
    BY DEF IPNames, IPFields
  <2>2. Fits(Four(12), s) /\ Fits(Four(16), d) /\ Fits(At(9, 1), n)
    BY <2>1, IPLayout, GetFits
  <2>3. n \in Nat /\ n <= 255
    BY <2>2 DEF Fits, At
  <2> QED
    BY <2>2, <2>3, ByteIs DEF Fits, Four
<1> HIDE DEF s, d, n
<1>2. s \in Seq(Byte) /\ Len(s) = 4 /\ d \in Seq(Byte) /\ Len(d) = 4
  BY <1>1, BytesAre
<1>3. <<0, n>> \in Seq(Byte) /\ Len(<<0, n>>) = 2
  <2>1. 0 \in Byte
    BY ByteIs
  <2> QED
    BY <1>1, <2>1
<1>4. Bytes(length, 2) \in Seq(Byte) /\ Len(Bytes(length, 2)) = 2
  <2>1. PICK hi \in Byte, lo \in Byte : hi = (length \div 256) % 256 /\ lo = length % 256
    BY ByteIs
  <2>2. Bytes(length, 2) = <<hi, lo>>
    BY <2>1 DEF Bytes
  <2> QED
    BY <2>2, TwoAre
<1>5. s \o d \in Seq(Byte) /\ Len(s \o d) = 4 + 4
  <2>1. \A p, q \in Seq(Byte) : p \o q \in Seq(Byte) /\ Len(p \o q) = Len(p) + Len(q)
    OBVIOUS
  <2>2. s \o d \in Seq(Byte) /\ Len(s \o d) = Len(s) + Len(d)
    BY ONLY <1>2, <2>1, Zenon
  <2> QED
    BY ONLY <1>2, <2>2, Zenon
<1>6. s \o d \o <<0, n>> \in Seq(Byte) /\ Len(s \o d \o <<0, n>>) = (4 + 4) + 2
  BY <1>3, <1>5, BytesOfBoth, Zenon
<1>7. /\ s \o d \o <<0, n>> \o Bytes(length, 2) \in Seq(Byte)
      /\ Len(s \o d \o <<0, n>> \o Bytes(length, 2)) = ((4 + 4) + 2) + 2
  BY <1>4, <1>6, BytesOfBoth, Zenon
<1> QED
  BY <1>7 DEF PseudoHeader, s, d, n

\* The sum of bytes that are not too many is a word.
LEMMA SumType ==
  ASSUME NEW b \in Seq(Byte), Short(b)
  PROVE  Complement(OnesComplementSum(b)) \in Word
<1>1. PICK n \in Nat : n = (Len(b) + 1) \div 2 /\ Len(b) <= 2 * n /\ 2 * n <= Len(b) + 1
  <2>1. Len(b) \in Nat
    OBVIOUS
  <2> QED
    BY <2>1, HalfLength
<1>2. n <= 65536 /\ n = (Len(b) + 1) \div 2
  BY <1>1 DEF Short, Limit
<1>3. PICK e \in Nat : e = OnesComplementSum(b) /\ e <= 65535
  BY ONLY <1>2, n \in Nat, b \in Seq(Byte), SumIsFolded
<1> QED
  BY <1>3, WordIs DEF Complement

\* The checksum of a header is one of its words.
LEMMA FrontWord ==
  ASSUME NEW fields, NEW f, NEW l, WordAt(fields, f, l), NEW h \in Seq(Byte), NEW s \in Word,
         NEW zero, NEW new, PutTwice(fields, f, h, s, zero, new),
         NEW size \in Nat, NEW j \in Nat, l.at + 2 = 2 * j, 2 * j <= size
  PROVE  WithWord(GetData(zero, size, 0), j, s, GetData(new, size, 0))
<1> DEFINE b == GetData(zero, size, 0)
           c == GetData(new, size, 0)
<1>1. /\ zero \in Seq(Byte) /\ new \in Seq(Byte)
      /\ \A i \in Int : i # l.at + 1 /\ i # l.at + 2 =>
           ByteAt(zero, i) = ByteAt(h, i) /\ ByteAt(new, i) = ByteAt(h, i)
      /\ ByteAt(zero, l.at + 1) = 0 /\ ByteAt(zero, l.at + 2) = 0
      /\ 256 * ByteAt(new, l.at + 1) + ByteAt(new, l.at + 2) = s
  BY TwicePut
<1>2. l.at \in Nat
  BY DEF WordAt, FieldAt, Layout
<1>3. PICK m \in Nat : m = 2 * j /\ l.at + 2 = m /\ l.at + 1 = m - 1 /\ m - 1 \in 1..size
      /\ m \in 1..size
  BY <1>2
<1>4. b \in Seq(Byte) /\ c \in Seq(Byte) /\ Len(b) = size /\ Len(c) = size
  BY <1>1, GetDataType
<1>5. \A i \in Int : /\ ByteAt(b, i) = IF i \in 1..size THEN ByteAt(zero, i) ELSE 0
                    /\ ByteAt(c, i) = IF i \in 1..size THEN ByteAt(new, i) ELSE 0
  <2> TAKE i \in Int
  <2>1. zero \in Seq(Byte) /\ new \in Seq(Byte)
    BY <1>1
  <2> QED
    BY ONLY <2>1, size \in Nat, i \in Int, GetFrontBytes, Zenon
<1> HIDE DEF b, c
<1>6. \A i \in Int : i # m - 1 /\ i # m => ByteAt(c, i) = ByteAt(b, i)
  BY <1>1, <1>3, <1>5
<1>7. /\ ByteAt(b, m - 1) = 0 /\ ByteAt(b, m) = 0
      /\ 256 * ByteAt(c, m - 1) + ByteAt(c, m) = s
  BY <1>1, <1>3, <1>5
<1>8. j > 0 /\ 2 * j <= Len(b) /\ Len(c) = Len(b)
  BY <1>2, <1>4
<1> QED
  BY <1>3, <1>4, <1>6, <1>7, <1>8 DEF WithWord, b, c

\* What the receiver computes is 0, whatever comes before and after the header.
LEMMA SumInPlace ==
  ASSUME NEW p \in Seq(Byte), NEW r \in Seq(Byte), NEW b \in Seq(Byte), NEW c \in Seq(Byte),
         NEW s, NEW j \in Nat, WithWord(b, j, s, c), NEW i \in Nat, Len(p) = 2 * i,
         Short(p \o b \o r), s = Complement(OnesComplementSum(p \o b \o r))
  PROVE  Complement(OnesComplementSum(p \o c \o r)) = 0
<1>1. WithWord(b, j, s, c) /\ Len(p) = 2 * i
  OBVIOUS
<1>2. WithWord(p \o b \o r, i + j, s, p \o c \o r)
  BY ONLY <1>1, p \in Seq(Byte), r \in Seq(Byte), b \in Seq(Byte), c \in Seq(Byte),
          j \in Nat, i \in Nat, WordWithin, Zenon
<1> QED
  BY ONLY <1>2, SumComplement, Zenon, Short(p \o b \o r),
          s = Complement(OnesComplementSum(p \o b \o r))

\* A header none of whose fields share a byte.
Table(fields, names) ==
  \A f \in names : /\ FieldAt(fields, f, fields[f])
                   /\ \A g \in names \ {f} : Apart(fields[f], fields[g])

\* A field of a table is set, and no other field changes,
LEMMA PutTable ==
  ASSUME NEW fields, NEW names, Table(fields, names),
         NEW f \in names, NEW h \in Seq(Byte), NEW v, Fits(fields[f], v)
  PROVE  /\ Put(fields, h, f, v) \in Seq(Byte)
         /\ Len(Put(fields, h, f, v)) = Greatest(Len(h), fields[f].at + fields[f].size)
         /\ Get(fields, Put(fields, h, f, v), f) = v
         /\ \A g \in names \ {f} : Get(fields, Put(fields, h, f, v), g) = Get(fields, h, g)
<1>1. FieldAt(fields, f, fields[f])
  BY DEF Table
<1>2. ASSUME NEW g \in names \ {f}
      PROVE  Get(fields, Put(fields, h, f, v), g) = Get(fields, h, g)
  <2>1. FieldAt(fields, g, fields[g]) /\ Apart(fields[f], fields[g])
    BY DEF Table
  <2> QED
    BY <1>1, <2>1, PutApart
<1> QED
  BY <1>1, <1>2, PutField

\* A checksum is set to 0 and then to something, and the other fields are kept.
KeptTwice(fields, names, f, h, zero, new) ==
  /\ zero \in Seq(Byte) /\ new \in Seq(Byte)
  /\ Len(zero) = Greatest(Len(h), fields[f].at + 2) /\ Len(new) = Len(zero)
  /\ \A g \in names \ {f} : /\ Get(fields, zero, g) = Get(fields, h, g)
                            /\ Get(fields, new, g) = Get(fields, h, g)

\* nor when one is written twice.
LEMMA TwicePutTable ==
  ASSUME NEW fields, NEW names, Table(fields, names),
         NEW f \in names, WordAt(fields, f, fields[f]), NEW h \in Seq(Byte), NEW s \in Word,
         NEW zero, NEW new, PutTwice(fields, f, h, s, zero, new)
  PROVE  KeptTwice(fields, names, f, h, zero, new)
<1>1. ASSUME NEW g \in names \ {f}
      PROVE  Get(fields, zero, g) = Get(fields, h, g) /\ Get(fields, new, g) = Get(fields, h, g)
  <2>1. FieldAt(fields, g, fields[g]) /\ Apart(fields[f], fields[g])
    BY DEF Table
  <2> QED
    BY <2>1, TwicePutApart
<1> QED
  BY <1>1, TwicePut DEF KeptTwice

-----------------------------------------------------------------------------
(* TCP.                                                                    *)
TCPNames == {"srcport", "destport", "seqnum", "acknum", "tcphlen", "tcpflags", "winsize",
             "checksum", "urgent"}

\* The fields of the TCP header lie apart and within its 20 bytes.
LEMMA TCPTable ==
  /\ DOMAIN TCPFields = TCPNames /\ Table(TCPFields, TCPNames)
  /\ WordAt(TCPFields, "checksum", TCPFields["checksum"]) /\ TCPFields["checksum"].at = 16
  /\ TCPFields["urgent"] = At(18, 2) /\ TCPFields["tcphlen"] = Part(12, 1, 16, 16)
  /\ \A f \in TCPNames : TCPFields[f].at + TCPFields[f].size <= 20
<1>1. DOMAIN TCPFields = TCPNames
  BY DEF TCPFields, TCPNames
<1>2. ASSUME NEW f \in TCPNames
      PROVE  FieldAt(TCPFields, f, TCPFields[f])
  BY DEF TCPNames, TCPFields, FieldAt, Layout, Shapes, At, Part, Four
<1>3. ASSUME NEW f \in TCPNames, NEW g \in TCPNames \ {f}
      PROVE  Apart(TCPFields[f], TCPFields[g])
  BY DEF TCPNames, TCPFields, Apart, At, Part, Four
<1>4. /\ TCPFields["checksum"] = At(16, 2) /\ TCPFields["urgent"] = At(18, 2)
      /\ TCPFields["tcphlen"] = Part(12, 1, 16, 16)
  BY DEF TCPFields
<1>5. At(16, 2).size = 2 /\ At(16, 2).low = 1 /\ At(16, 2).range = 65536 /\ At(16, 2).at = 16
  BY DEF At
<1>6. "checksum" \in TCPNames
  BY DEF TCPNames
<1>7. ASSUME NEW f \in TCPNames
      PROVE  TCPFields[f].at + TCPFields[f].size <= 20
  BY DEF TCPNames, TCPFields, At, Part, Four
<1> QED
  BY <1>1, <1>2, <1>3, <1>4, <1>5, <1>6, <1>7 DEF Table, WordAt

\* The lengths that the IP header gives.
LEMMA IPLengths ==
  ASSUME NEW h \in Seq(Byte)
  PROVE  /\ Get(IPFields, h, "hlen") \in Nat /\ Get(IPFields, h, "hlen") <= 15
         /\ Get(IPFields, h, "totlen") \in Nat /\ Get(IPFields, h, "totlen") <= 65535
<1>1. Get(IPFields, h, "hlen") \in 0..15
  BY IPSum
<1>2. Get(IPFields, h, "totlen") \in Nat /\ Get(IPFields, h, "totlen") <= 65535
  <2>1. "totlen" \in IPNames /\ IPFields["totlen"] = At(2, 2)
    BY DEF IPNames, IPFields
  <2>2. Fits(At(2, 2), Get(IPFields, h, "totlen"))
    BY <2>1, IPLayout, GetFits
  <2>3. At(2, 2).size = 2 /\ At(2, 2).range = 65536
    BY DEF At
  <2> QED
    BY <2>2, <2>3 DEF Fits
<1> QED
  BY <1>1, <1>2

\* Three pieces are not too many bytes.
LEMMA ShortPieces ==
  ASSUME NEW p \in Seq(Byte), NEW b \in Seq(Byte), NEW r \in Seq(Byte),
         NEW n \in Nat, NEW m \in Nat, NEW o \in Nat, Len(p) = n, Len(b) = m, Len(r) = o,
         n + m + o <= Limit
  PROVE  p \o b \o r \in Seq(Byte) /\ Short(p \o b \o r)
<1>1. Pieces(p \o b \o r, p, b, r)
  BY ONLY p \in Seq(Byte), b \in Seq(Byte), r \in Seq(Byte), JoinTwice, Zenon
<1>2. p \o b \o r \in Seq(Byte) /\ Len(p \o b \o r) = Len(p) + Len(b) + Len(r)
  BY ONLY <1>1, Zenon DEF Pieces
<1>3. PICK k \in Nat : k = Len(p \o b \o r) /\ k = n + m + o
  BY ONLY <1>2, n \in Nat, m \in Nat, o \in Nat, Len(p) = n, Len(b) = m, Len(r) = o
<1>4. Short(p \o b \o r)
  BY <1>3 DEF Short
<1> QED
  BY <1>2, <1>4

\* What the checksum of a segment is computed over.
TCPSummed(h, iph, data, length, hlen) ==
  /\ length \in Int /\ length = Get(IPFields, iph, "totlen") - 4 * Get(IPFields, iph, "hlen")
  /\ hlen \in Nat /\ hlen = 4 * Get(TCPFields, h, "tcphlen")
  /\ PseudoHeader(iph, length) \in Seq(Byte) /\ Len(PseudoHeader(iph, length)) = 12
  /\ GetData(h, hlen, 0) \in Seq(Byte) /\ GetData(data, length - hlen, 0) \in Seq(Byte)
  /\ PseudoHeader(iph, length) \o GetData(h, hlen, 0) \o GetData(data, length - hlen, 0)
       \in Seq(Byte)
  /\ Short(PseudoHeader(iph, length) \o GetData(h, hlen, 0) \o GetData(data, length - hlen, 0))
  /\ TCPComputeChecksum(h, iph, data) = Complement(OnesComplementSum(
       PseudoHeader(iph, length) \o GetData(h, hlen, 0) \o GetData(data, length - hlen, 0)))

\* What TCPComputeChecksum sums up.
LEMMA TCPSum ==
  ASSUME NEW h \in Seq(Byte), NEW iph \in Seq(Byte), NEW data \in Seq(Byte)
  PROVE  /\ \E length, hlen : TCPSummed(h, iph, data, length, hlen)
         /\ TCPComputeChecksum(h, iph, data) \in Word
<1>1. PICK t \in Nat, w \in Nat : /\ t = Get(IPFields, iph, "totlen") /\ t <= 65535
                                /\ w = Get(IPFields, iph, "hlen") /\ w <= 15
  BY IPLengths
<1>2. PICK u \in Nat : u = Get(TCPFields, h, "tcphlen") /\ u <= 15
  <2>1. FieldAt(TCPFields, "tcphlen", Part(12, 1, 16, 16))
    BY TCPTable DEF Table, TCPNames
  <2>2. Fits(Part(12, 1, 16, 16), Get(TCPFields, h, "tcphlen"))
    BY <2>1, GetFits
  <2> QED
    BY <2>2 DEF Fits, Part
<1>3. PICK length \in Int, hlen \in Nat, rest \in Int :
        length = t - 4 * w /\ hlen = 4 * u /\ rest = length - hlen /\ hlen <= 60 /\ rest <= 65535
  BY <1>1, <1>2
<1>4. /\ length = Get(IPFields, iph, "totlen") - 4 * Get(IPFields, iph, "hlen")
      /\ hlen = 4 * Get(TCPFields, h, "tcphlen") /\ rest = length - hlen
  BY <1>1, <1>2, <1>3
<1> DEFINE p == PseudoHeader(iph, length)
           b == GetData(h, hlen, 0)
           r == GetData(data, rest, 0)
<1>5. p \in Seq(Byte) /\ Len(p) = 12
  BY PseudoHeaderType
<1>6. b \in Seq(Byte) /\ Len(b) = hlen
  BY GetDataType
<1>7. PICK k \in Nat : k = Greatest(0, rest) /\ k <= 65535
  <2>1. Greatest(0, rest) \in Nat /\ Greatest(0, rest) <= 65535
    BY <1>3 DEF Greatest
  <2> QED
    BY <2>1
<1>8. r \in Seq(Byte) /\ Len(r) = k
  BY <1>7, GetDataAny
<1>9. TCPComputeChecksum(h, iph, data) = Complement(OnesComplementSum(p \o b \o r))
  BY ONLY <1>4, Zenon DEF TCPComputeChecksum
<1> HIDE DEF p, b, r
<1>10. p \o b \o r \in Seq(Byte) /\ Short(p \o b \o r)
  <2>1. PICK n \in Nat : n = 12 /\ n + hlen + k <= Limit
    BY <1>3, <1>7 DEF Limit
  <2> QED
    BY ONLY <1>5, <1>6, <1>8, <2>1, hlen \in Nat, k \in Nat, ShortPieces, Zenon
<1>11. TCPSummed(h, iph, data, length, hlen)
  BY <1>4, <1>5, <1>6, <1>8, <1>9, <1>10, Zenon DEF TCPSummed, p, b, r
<1>12. Complement(OnesComplementSum(p \o b \o r)) \in Word
  BY ONLY <1>10, SumType, Zenon
<1> QED
  BY <1>9, <1>11, <1>12, Zenon

\* Once the header length is set, what the receiver will compute over the segment is 0.
LEMMA TCPSumRight ==
  ASSUME NEW h \in Seq(Byte), NEW iph \in Seq(Byte), NEW data \in Seq(Byte), NEW zero, NEW new,
         PutTwice(TCPFields, "checksum", h, TCPComputeChecksum(zero, iph, data), zero, new),
         zero \in Seq(Byte), new \in Seq(Byte),
         Get(TCPFields, zero, "tcphlen") = 5, Get(TCPFields, new, "tcphlen") = 5
  PROVE  TCPComputeChecksum(new, iph, data) = 0
<1> DEFINE l == TCPFields["checksum"]
           s == TCPComputeChecksum(zero, iph, data)
<1>1. PICK length, hlen : TCPSummed(zero, iph, data, length, hlen)
  BY TCPSum
<1>2. PICK length2, hlen2 : TCPSummed(new, iph, data, length2, hlen2)
  BY TCPSum
<1>3. hlen = 20 /\ hlen2 = 20 /\ length2 = length /\ length \in Int
  BY <1>1, <1>2 DEF TCPSummed
<1> DEFINE p == PseudoHeader(iph, length)
           r == GetData(data, length - 20, 0)
<1>4. /\ p \in Seq(Byte) /\ Len(p) = 12 /\ r \in Seq(Byte)
      /\ Short(p \o GetData(zero, 20, 0) \o r)
      /\ s = Complement(OnesComplementSum(p \o GetData(zero, 20, 0) \o r))
      /\ TCPComputeChecksum(new, iph, data)
           = Complement(OnesComplementSum(p \o GetData(new, 20, 0) \o r))
  BY <1>1, <1>2, <1>3, Zenon DEF TCPSummed
<1>5. WordAt(TCPFields, "checksum", l) /\ l.at = 16
  BY TCPTable
<1>6. s \in Word /\ PutTwice(TCPFields, "checksum", h, s, zero, new)
  BY TCPSum
<1> HIDE DEF l, s, p, r
<1>7. PICK i \in Nat, j \in Nat, size \in Nat : i = 6 /\ j = 9 /\ size = 20
  OBVIOUS
<1>8. l.at + 2 = 2 * j /\ 2 * j <= size /\ Len(p) = 2 * i
  BY <1>4, <1>5, <1>7
<1>9. WordAt(TCPFields, "checksum", l)
  BY <1>5
<1>10. WithWord(GetData(zero, size, 0), j, s, GetData(new, size, 0))
  BY ONLY <1>6, <1>8, <1>9, h \in Seq(Byte), size \in Nat, j \in Nat, FrontWord
<1>11. PICK b \in Seq(Byte), c \in Seq(Byte) : b = GetData(zero, 20, 0) /\ c = GetData(new, 20, 0)
  BY <1>7, <1>10 DEF WithWord
<1>12. /\ WithWord(b, j, s, c) /\ Short(p \o b \o r)
       /\ s = Complement(OnesComplementSum(p \o b \o r))
       /\ p \in Seq(Byte) /\ r \in Seq(Byte)
  BY <1>4, <1>7, <1>10, <1>11, Zenon
<1>13. Complement(OnesComplementSum(p \o c \o r)) = 0
  BY ONLY <1>8, <1>12, b \in Seq(Byte), c \in Seq(Byte), i \in Nat, j \in Nat, SumInPlace, Zenon
<1> QED
  BY <1>4, <1>11, <1>13, Zenon

\* A setter of the TCP header (tcp.cc) sets its field and no other, and makes the checksum
\* right, whatever the IP header and the data are at that time.
THEOREM SetTCPRight ==
  ASSUME NEW h \in Seq(Byte), Len(h) <= 20, NEW f \in TCPNames \ {"checksum", "urgent"},
         NEW v, Fits(TCPFields[f], v), NEW iph \in Seq(Byte), NEW data \in Seq(Byte), NEW new,
         new = TCPRecompute(Put(TCPFields, h, f, v), iph, data)
  PROVE  /\ new \in Seq(Byte) /\ Len(new) = 20
         /\ Get(TCPFields, new, f) = v
         /\ \A g \in TCPNames \ {"checksum", "urgent", f} :
              Get(TCPFields, new, g) = Get(TCPFields, h, g)
         /\ Get(TCPFields, new, "tcphlen") = 5 => TCPComputeChecksum(new, iph, data) = 0
<1> DEFINE m     == Put(TCPFields, h, f, v)
           whole == IF Len(m) < 20 THEN Put(TCPFields, m, "urgent", 0) ELSE m
           zero  == Put(TCPFields, whole, "checksum", 0)
           s     == TCPComputeChecksum(zero, iph, data)
<1>1. new = Put(TCPFields, zero, "checksum", s)
  BY DEF TCPRecompute
<1>2. Table(TCPFields, TCPNames) /\ {"checksum", "urgent", "tcphlen"} \subseteq TCPNames
  BY TCPTable DEF TCPNames
<1>3. /\ m \in Seq(Byte) /\ Len(m) <= 20 /\ Get(TCPFields, m, f) = v
      /\ \A g \in TCPNames \ {f} : Get(TCPFields, m, g) = Get(TCPFields, h, g)
  <2>1. PICK end \in Nat : end = TCPFields[f].at + TCPFields[f].size /\ end <= 20
    <3>1. FieldAt(TCPFields, f, TCPFields[f]) /\ TCPFields[f].at + TCPFields[f].size <= 20
      BY TCPTable DEF Table
    <3>2. TCPFields[f].at + TCPFields[f].size \in Nat
      BY <3>1 DEF FieldAt, Layout
    <3> QED
      BY <3>1, <3>2, Zenon
  <2>2. /\ m \in Seq(Byte) /\ Len(m) = Greatest(Len(h), end) /\ Get(TCPFields, m, f) = v
        /\ \A g \in TCPNames \ {f} : Get(TCPFields, m, g) = Get(TCPFields, h, g)
    BY <1>2, <2>1, PutTable
  <2>3. Greatest(Len(h), end) <= 20
    BY <2>1 DEF Greatest
  <2> QED
    BY <2>2, <2>3
<1> HIDE DEF m
<1>4. /\ whole \in Seq(Byte) /\ Len(whole) = 20
      /\ \A g \in TCPNames \ {"urgent"} : Get(TCPFields, whole, g) = Get(TCPFields, m, g)
  <2>1. CASE Len(m) < 20
    <3>1. Fits(TCPFields["urgent"], 0) /\ TCPFields["urgent"].at + TCPFields["urgent"].size = 20
      <4>1. TCPFields["urgent"] = At(18, 2)
        BY TCPTable
      <4>2. At(18, 2).at = 18 /\ At(18, 2).size = 2 /\ At(18, 2).range = 65536
        BY DEF At
      <4> QED
        BY <4>1, <4>2 DEF Fits
    <3>2. whole = Put(TCPFields, m, "urgent", 0)
      BY <2>1
    <3>3. /\ whole \in Seq(Byte) /\ Len(whole) = Greatest(Len(m), 20)
          /\ \A g \in TCPNames \ {"urgent"} : Get(TCPFields, whole, g) = Get(TCPFields, m, g)
      BY <1>2, <1>3, <3>1, <3>2, PutTable
    <3>4. Greatest(Len(m), 20) = 20
      BY <1>3, <2>1 DEF Greatest
    <3> QED
      BY <3>3, <3>4
  <2>2. CASE ~ (Len(m) < 20)
    <3>1. PICK n \in Nat : n = Len(m)
      BY <1>3
    <3>2. n <= 20 /\ ~ (n < 20)
      BY <1>3, <2>2, <3>1, Zenon
    <3>3. n = 20
      BY ONLY <3>2, n \in Nat
    <3>4. whole = m
      BY <2>2
    <3> QED
      BY <1>3, <3>1, <3>3, <3>4, Zenon
  <2> QED
    BY <2>1, <2>2
<1> HIDE DEF whole
<1>5. WordAt(TCPFields, "checksum", TCPFields["checksum"])
  BY TCPTable
<1>6. zero \in Seq(Byte)
  <2>1. Fits(TCPFields["checksum"], 0)
    <3>1. 0 \in Word
      BY WordIs
    <3> QED
      BY <1>5, <1>4, <3>1, PutWord
  <2> QED
    BY <1>2, <1>4, <2>1, PutTable
<1>7. s \in Word
  BY <1>6, TCPSum
<1> HIDE DEF s
<1>8. PutTwice(TCPFields, "checksum", whole, s, zero, new)
  BY <1>1 DEF PutTwice
<1> HIDE DEF zero
<1>9. /\ new \in Seq(Byte)
      /\ Len(zero) = Greatest(Len(whole), 18) /\ Len(new) = Len(zero)
      /\ \A g \in TCPNames \ {"checksum"} : /\ Get(TCPFields, zero, g) = Get(TCPFields, whole, g)
                                            /\ Get(TCPFields, new, g) = Get(TCPFields, whole, g)
  <2>1. TCPFields["checksum"].at + 2 = 18
    BY TCPTable
  <2>2. "checksum" \in TCPNames
    BY <1>2
  <2>3. KeptTwice(TCPFields, TCPNames, "checksum", whole, zero, new)
    BY ONLY <1>2, <1>4, <1>5, <1>7, <1>8, <2>2, TwicePutTable, Zenon
  <2> QED
    BY <2>1, <2>3 DEF KeptTwice
<1>10. Len(new) = 20
  BY <1>4, <1>9 DEF Greatest
<1>11. ASSUME Get(TCPFields, new, "tcphlen") = 5
       PROVE  TCPComputeChecksum(new, iph, data) = 0
  <2>1. Get(TCPFields, zero, "tcphlen") = 5
    BY <1>2, <1>9, <1>11
  <2>2. PutTwice(TCPFields, "checksum", whole, TCPComputeChecksum(zero, iph, data), zero, new)
    BY <1>8 DEF s
  <2> QED
    BY <1>4, <1>6, <1>9, <1>11, <2>1, <2>2, TCPSumRight
<1> QED
  BY <1>3, <1>4, <1>9, <1>10, <1>11

-----------------------------------------------------------------------------
(* UDP.                                                                    *)
UDPNames == {"srcport", "destport", "length", "checksum"}

\* The fields of the UDP header lie apart and within its 8 bytes.
LEMMA UDPTable ==
  /\ DOMAIN UDPFields = UDPNames /\ Table(UDPFields, UDPNames)
  /\ WordAt(UDPFields, "checksum", UDPFields["checksum"]) /\ UDPFields["checksum"].at = 6
  /\ UDPFields["length"] = At(4, 2)
  /\ \A f \in UDPNames : UDPFields[f].at + UDPFields[f].size <= 8
<1>1. DOMAIN UDPFields = UDPNames
  BY DEF UDPFields, UDPNames
<1>2. ASSUME NEW f \in UDPNames
      PROVE  FieldAt(UDPFields, f, UDPFields[f])
  BY DEF UDPNames, UDPFields, FieldAt, Layout, Shapes, At, Part, Four
<1>3. ASSUME NEW f \in UDPNames, NEW g \in UDPNames \ {f}
      PROVE  Apart(UDPFields[f], UDPFields[g])
  BY DEF UDPNames, UDPFields, Apart, At, Part, Four
<1>4. UDPFields["checksum"] = At(6, 2) /\ UDPFields["length"] = At(4, 2)
  BY DEF UDPFields
<1>5. At(6, 2).size = 2 /\ At(6, 2).low = 1 /\ At(6, 2).range = 65536 /\ At(6, 2).at = 6
  BY DEF At
<1>6. "checksum" \in UDPNames
  BY DEF UDPNames
<1>7. ASSUME NEW f \in UDPNames
      PROVE  UDPFields[f].at + UDPFields[f].size <= 8
  BY DEF UDPNames, UDPFields, At, Part, Four
<1> QED
  BY <1>1, <1>2, <1>3, <1>4, <1>5, <1>6, <1>7 DEF Table, WordAt

\* What the checksum of a datagram is computed over.
UDPSummed(h, iph, data, length) ==
  /\ length \in Int /\ length = Get(UDPFields, h, "length")
  /\ PseudoHeader(iph, length) \in Seq(Byte) /\ Len(PseudoHeader(iph, length)) = 12
  /\ GetData(data, length - 8, 0) \in Seq(Byte)
  /\ PseudoHeader(iph, length) \o GetData(h, 8, 0) \o GetData(data, length - 8, 0) \in Seq(Byte)
  /\ Short(PseudoHeader(iph, length) \o GetData(h, 8, 0) \o GetData(data, length - 8, 0))
  /\ UDPComputeChecksum(h, iph, data) = Complement(OnesComplementSum(
       PseudoHeader(iph, length) \o GetData(h, 8, 0) \o GetData(data, length - 8, 0)))

\* What UDPComputeChecksum sums up.
LEMMA UDPSum ==
  ASSUME NEW h \in Seq(Byte), NEW iph \in Seq(Byte), NEW data \in Seq(Byte)
  PROVE  /\ \E length : UDPSummed(h, iph, data, length)
         /\ UDPComputeChecksum(h, iph, data) \in Word
<1>1. PICK length \in Int, hlen \in Nat, rest \in Int :
        /\ length = Get(UDPFields, h, "length") /\ length <= 65535
        /\ hlen = 8 /\ rest = length - 8 /\ rest <= 65535
  <2>1. FieldAt(UDPFields, "length", At(4, 2))
    BY UDPTable DEF Table, UDPNames
  <2>2. Fits(At(4, 2), Get(UDPFields, h, "length"))
    BY <2>1, GetFits
  <2>3. At(4, 2).size = 2 /\ At(4, 2).range = 65536
    BY DEF At
  <2>4. PICK n \in Nat : n = Get(UDPFields, h, "length") /\ n <= 65535
    BY <2>2, <2>3 DEF Fits
  <2>5. n - 8 \in Int /\ n - 8 <= 65535 /\ n \in Int /\ 8 \in Nat
    BY <2>4
  <2> QED
    BY <2>4, <2>5
<1>2. length = Get(UDPFields, h, "length") /\ hlen = 8 /\ rest = length - 8
  BY <1>1
<1> DEFINE p == PseudoHeader(iph, length)
           b == GetData(h, hlen, 0)
           r == GetData(data, rest, 0)
<1>3. p \in Seq(Byte) /\ Len(p) = 12
  BY PseudoHeaderType
<1>4. b \in Seq(Byte) /\ Len(b) = hlen
  BY GetDataType
<1>5. PICK k \in Nat : k = Greatest(0, rest) /\ k <= 65535
  <2>1. Greatest(0, rest) \in Nat /\ Greatest(0, rest) <= 65535
    BY <1>1 DEF Greatest
  <2> QED
    BY <2>1
<1>6. r \in Seq(Byte) /\ Len(r) = k
  BY <1>5, GetDataAny
<1>7. UDPComputeChecksum(h, iph, data) = Complement(OnesComplementSum(p \o b \o r))
  BY ONLY <1>2, Zenon DEF UDPComputeChecksum
<1> HIDE DEF p, b, r
<1>8. p \o b \o r \in Seq(Byte) /\ Short(p \o b \o r)
  <2>1. PICK n \in Nat : n = 12 /\ n + hlen + k <= Limit
    BY <1>1, <1>5 DEF Limit
  <2> QED
    BY ONLY <1>3, <1>4, <1>6, <2>1, hlen \in Nat, k \in Nat, ShortPieces, Zenon
<1>9. UDPSummed(h, iph, data, length)
  BY <1>2, <1>3, <1>4, <1>6, <1>7, <1>8, Zenon DEF UDPSummed, p, b, r
<1>10. Complement(OnesComplementSum(p \o b \o r)) \in Word
  BY ONLY <1>8, SumType, Zenon
<1> QED
  BY <1>7, <1>9, <1>10, Zenon

\* What the receiver will compute over the datagram is 0.
LEMMA UDPSumRight ==
  ASSUME NEW h \in Seq(Byte), NEW iph \in Seq(Byte), NEW data \in Seq(Byte), NEW zero, NEW new,
         PutTwice(UDPFields, "checksum", h, UDPComputeChecksum(zero, iph, data), zero, new),
         zero \in Seq(Byte), new \in Seq(Byte),
         Get(UDPFields, zero, "length") = Get(UDPFields, new, "length")
  PROVE  UDPComputeChecksum(new, iph, data) = 0
<1> DEFINE l == UDPFields["checksum"]
           s == UDPComputeChecksum(zero, iph, data)
<1>1. PICK length : UDPSummed(zero, iph, data, length)
  BY UDPSum
<1>2. PICK length2 : UDPSummed(new, iph, data, length2)
  BY UDPSum
<1>3. length2 = length
  BY <1>1, <1>2 DEF UDPSummed
<1> DEFINE p == PseudoHeader(iph, length)
           r == GetData(data, length - 8, 0)
<1>4. /\ p \in Seq(Byte) /\ Len(p) = 12 /\ r \in Seq(Byte)
      /\ Short(p \o GetData(zero, 8, 0) \o r)
      /\ s = Complement(OnesComplementSum(p \o GetData(zero, 8, 0) \o r))
      /\ UDPComputeChecksum(new, iph, data)
           = Complement(OnesComplementSum(p \o GetData(new, 8, 0) \o r))
  BY <1>1, <1>2, <1>3, Zenon DEF UDPSummed
<1>5. WordAt(UDPFields, "checksum", l) /\ l.at = 6
  BY UDPTable
<1>6. s \in Word /\ PutTwice(UDPFields, "checksum", h, s, zero, new)
  BY UDPSum
<1> HIDE DEF l, s, p, r
<1>7. PICK i \in Nat, j \in Nat, size \in Nat : i = 6 /\ j = 4 /\ size = 8
  OBVIOUS
<1>8. l.at + 2 = 2 * j /\ 2 * j <= size /\ Len(p) = 2 * i
  BY <1>4, <1>5, <1>7
<1>9. WordAt(UDPFields, "checksum", l)
  BY <1>5
<1>10. WithWord(GetData(zero, size, 0), j, s, GetData(new, size, 0))
  BY ONLY <1>6, <1>8, <1>9, h \in Seq(Byte), size \in Nat, j \in Nat, FrontWord
<1>11. PICK b \in Seq(Byte), c \in Seq(Byte) : b = GetData(zero, 8, 0) /\ c = GetData(new, 8, 0)
  BY <1>7, <1>10 DEF WithWord
<1>12. /\ WithWord(b, j, s, c) /\ Short(p \o b \o r)
       /\ s = Complement(OnesComplementSum(p \o b \o r))
       /\ p \in Seq(Byte) /\ r \in Seq(Byte)
  BY <1>4, <1>7, <1>10, <1>11, Zenon
<1>13. Complement(OnesComplementSum(p \o c \o r)) = 0
  BY ONLY <1>8, <1>12, b \in Seq(Byte), c \in Seq(Byte), i \in Nat, j \in Nat, SumInPlace, Zenon
<1> QED
  BY <1>4, <1>11, <1>13, Zenon

\* A setter of the UDP header sets its field and no other, and makes the checksum right
\* once the length is set.
THEOREM SetUDPRight ==
  ASSUME NEW h \in Seq(Byte), Len(h) <= 8, NEW f \in UDPNames \ {"checksum"},
         NEW v, Fits(UDPFields[f], v), NEW iph \in Seq(Byte), NEW data \in Seq(Byte), NEW new,
         new = UDPRecompute(Put(UDPFields, h, f, v), iph, data)
  PROVE  /\ new \in Seq(Byte) /\ Len(new) = 8
         /\ Get(UDPFields, new, f) = v
         /\ \A g \in UDPNames \ {"checksum", f} : Get(UDPFields, new, g) = Get(UDPFields, h, g)
         /\ ~ (Get(UDPFields, new, "length") < 8) => UDPComputeChecksum(new, iph, data) = 0
<1> DEFINE m     == Put(UDPFields, h, f, v)
           zero  == Put(UDPFields, m, "checksum", 0)
           s     == UDPComputeChecksum(zero, iph, data)
           all   == Put(UDPFields, zero, "checksum", s)
<1>1. new = IF Get(UDPFields, zero, "length") < 8 THEN zero ELSE all
  BY DEF UDPRecompute
<1>2. Table(UDPFields, UDPNames) /\ {"checksum", "length"} \subseteq UDPNames
  BY UDPTable DEF UDPNames
<1>3. /\ m \in Seq(Byte) /\ Len(m) <= 8 /\ Get(UDPFields, m, f) = v
      /\ \A g \in UDPNames \ {f} : Get(UDPFields, m, g) = Get(UDPFields, h, g)
  <2>1. PICK end \in Nat : end = UDPFields[f].at + UDPFields[f].size /\ end <= 8
    <3>1. FieldAt(UDPFields, f, UDPFields[f]) /\ UDPFields[f].at + UDPFields[f].size <= 8
      BY UDPTable DEF Table
    <3>2. UDPFields[f].at + UDPFields[f].size \in Nat
      BY <3>1 DEF FieldAt, Layout
    <3> QED
      BY <3>1, <3>2, Zenon
  <2>2. /\ m \in Seq(Byte) /\ Len(m) = Greatest(Len(h), end) /\ Get(UDPFields, m, f) = v
        /\ \A g \in UDPNames \ {f} : Get(UDPFields, m, g) = Get(UDPFields, h, g)
    BY <1>2, <2>1, PutTable
  <2>3. Greatest(Len(h), end) <= 8
    BY <2>1 DEF Greatest
  <2> QED
    BY <2>2, <2>3
<1> HIDE DEF m
<1>4. WordAt(UDPFields, "checksum", UDPFields["checksum"])
  BY UDPTable
<1>5. zero \in Seq(Byte)
  <2>1. Fits(UDPFields["checksum"], 0)
    <3>1. 0 \in Word
      BY WordIs
    <3> QED
      BY <1>3, <1>4, <3>1, PutWord
  <2> QED
    BY <1>2, <1>3, <2>1, PutTable
<1>6. s \in Word
  BY <1>5, UDPSum
<1> HIDE DEF s
<1>7. PutTwice(UDPFields, "checksum", m, s, zero, all)
  BY DEF PutTwice
<1> HIDE DEF zero, all
<1>8. KeptTwice(UDPFields, UDPNames, "checksum", m, zero, all)
  <2>1. "checksum" \in UDPNames /\ m \in Seq(Byte)
    BY <1>2, <1>3
  <2> QED
    BY ONLY <1>2, <1>4, <1>6, <1>7, <2>1, TwicePutTable, Zenon
<1>9. /\ zero \in Seq(Byte) /\ all \in Seq(Byte) /\ Len(zero) = 8 /\ Len(all) = 8
      /\ \A g \in UDPNames \ {"checksum"} : /\ Get(UDPFields, zero, g) = Get(UDPFields, m, g)
                                            /\ Get(UDPFields, all, g) = Get(UDPFields, m, g)
  <2>1. UDPFields["checksum"].at + 2 = 8
    BY UDPTable
  <2>2. Greatest(Len(m), 8) = 8
    <3>1. PICK n \in Nat : n = Len(m) /\ n <= 8
      BY <1>3
    <3>2. Greatest(n, 8) = 8
      BY <3>1 DEF Greatest
    <3> QED
      BY <3>1, <3>2
  <2> QED
    BY <1>8, <2>1, <2>2 DEF KeptTwice
<1>10. /\ new \in Seq(Byte) /\ Len(new) = 8
       /\ \A g \in UDPNames \ {"checksum"} : Get(UDPFields, new, g) = Get(UDPFields, m, g)
  BY <1>1, <1>9
<1>11. ASSUME ~ (Get(UDPFields, new, "length") < 8)
       PROVE  UDPComputeChecksum(new, iph, data) = 0
  <2>1. Get(UDPFields, zero, "length") = Get(UDPFields, m, "length")
    BY <1>2, <1>9
  <2>2. Get(UDPFields, new, "length") = Get(UDPFields, m, "length")
    BY <1>2, <1>10
  <2>3. new = all
    BY <1>1, <1>11, <2>1, <2>2, Zenon
  <2>4. PutTwice(UDPFields, "checksum", m, UDPComputeChecksum(zero, iph, data), zero, new)
    BY <1>7, <2>3 DEF s
  <2>5. m \in Seq(Byte) /\ zero \in Seq(Byte) /\ new \in Seq(Byte)
    BY <1>3, <1>9, <1>10
  <2>6. Get(UDPFields, zero, "length") = Get(UDPFields, new, "length")
    BY <2>1, <2>2
  <2> QED
    BY ONLY <2>4, <2>5, <2>6, iph \in Seq(Byte), data \in Seq(Byte), UDPSumRight
<1>12. ASSUME NEW g \in UDPNames \ {"checksum", f}
       PROVE  Get(UDPFields, new, g) = Get(UDPFields, h, g)
  BY <1>3, <1>10
<1> QED
  BY <1>3, <1>10, <1>11, <1>12

-----------------------------------------------------------------------------
(* ICMP.  A pointer shares a byte with the identifier.                     *)
ICMPNames == {"type", "code", "checksum", "identifier", "seqnumber"}

\* The fields of the ICMP header, but for the pointer, lie apart and within its 8 bytes.
LEMMA ICMPTable ==
  /\ DOMAIN ICMPFields = ICMPNames \cup {"pointer"} /\ Table(ICMPFields, ICMPNames)
  /\ WordAt(ICMPFields, "checksum", ICMPFields["checksum"]) /\ ICMPFields["checksum"].at = 2
  /\ \A f \in ICMPNames : ICMPFields[f].at + ICMPFields[f].size <= 8
  /\ ICMPFields["seqnumber"].at + ICMPFields["seqnumber"].size = 8
<1>1. DOMAIN ICMPFields = ICMPNames \cup {"pointer"}
  BY DEF ICMPFields, ICMPNames
<1>2. ASSUME NEW f \in ICMPNames
      PROVE  FieldAt(ICMPFields, f, ICMPFields[f])
  BY DEF ICMPNames, ICMPFields, FieldAt, Layout, Shapes, At
<1>3. ASSUME NEW f \in ICMPNames, NEW g \in ICMPNames \ {f}
      PROVE  Apart(ICMPFields[f], ICMPFields[g])
  BY DEF ICMPNames, ICMPFields, Apart, At
<1>4. ICMPFields["checksum"] = At(2, 2) /\ ICMPFields["seqnumber"] = At(6, 2)
  BY DEF ICMPFields
<1>5. At(2, 2).size = 2 /\ At(2, 2).low = 1 /\ At(2, 2).range = 65536 /\ At(2, 2).at = 2
  BY DEF At
<1>6. "checksum" \in ICMPNames
  BY DEF ICMPNames
<1>7. ASSUME NEW f \in ICMPNames
      PROVE  ICMPFields[f].at + ICMPFields[f].size <= 8
  BY DEF ICMPNames, ICMPFields, At
<1>8. ICMPFields["seqnumber"].at + ICMPFields["seqnumber"].size = 8
  BY <1>4 DEF At
<1> QED
  BY <1>1, <1>2, <1>3, <1>4, <1>5, <1>6, <1>7, <1>8 DEF Table, WordAt

\* What the checksum of a message is computed over.
LEMMA ICMPSum ==
  ASSUME NEW h \in Seq(Byte), NEW data \in Seq(Byte), Len(data) <= 65507
  PROVE  /\ Short(<<>> \o GetData(h, 8, 0) \o data)
         /\ ICMPComputeChecksum(h, data)
              = Complement(OnesComplementSum(<<>> \o GetData(h, 8, 0) \o data))
         /\ ICMPComputeChecksum(h, data) \in Word
<1> DEFINE b == GetData(h, 8, 0)
<1>1. b \in Seq(Byte) /\ Len(b) = 8
  <2>1. 8 \in Nat /\ 0 \in Nat
    OBVIOUS
  <2> QED
    BY ONLY <2>1, h \in Seq(Byte), GetDataType, Zenon
<1> HIDE DEF b
<1>2. <<>> \o b = b /\ <<>> \in Seq(Byte) /\ Len(<<>>) = 0
  BY <1>1
<1>3. PICK k \in Nat, m \in Nat, n \in Nat : k = Len(data) /\ m = 8 /\ n = 0 /\ n + m + k <= Limit
  <2>1. Len(data) \in Nat /\ 8 \in Nat /\ 0 \in Nat /\ 0 + 8 + Len(data) <= Limit
    BY DEF Limit
  <2> QED
    BY <2>1
<1>4. <<>> \o b \o data \in Seq(Byte) /\ Short(<<>> \o b \o data)
  <2>1. Len(<<>>) = n /\ Len(b) = m /\ Len(data) = k /\ n + m + k <= Limit
    BY <1>1, <1>2, <1>3
  <2> QED
    BY ONLY <1>1, <1>2, <2>1, data \in Seq(Byte), n \in Nat, m \in Nat, k \in Nat, ShortPieces,
            Zenon
<1>5. ICMPComputeChecksum(h, data) = Complement(OnesComplementSum(<<>> \o b \o data))
  <2>1. ICMPComputeChecksum(h, data) = Complement(OnesComplementSum(b \o data))
    BY ONLY Zenon DEF ICMPComputeChecksum, b
  <2> QED
    BY ONLY <1>2, <2>1, Zenon
<1>6. Complement(OnesComplementSum(<<>> \o b \o data)) \in Word
  BY ONLY <1>4, SumType, Zenon
<1> QED
  BY ONLY <1>4, <1>5, <1>6, Zenon DEF b

\* Recomputing changes nothing but the checksum, and makes it right.
LEMMA ICMPRecomputed ==
  ASSUME NEW h \in Seq(Byte), NEW data \in Seq(Byte), Len(data) <= 65507
  PROVE  /\ ICMPRecompute(h, data) \in Seq(Byte)
         /\ Len(ICMPRecompute(h, data)) = Greatest(Len(h), 4)
         /\ \A g \in ICMPNames \ {"checksum"} :
              Get(ICMPFields, ICMPRecompute(h, data), g) = Get(ICMPFields, h, g)
         /\ ICMPComputeChecksum(ICMPRecompute(h, data), data) = 0
<1> DEFINE l    == ICMPFields["checksum"]
           zero == Put(ICMPFields, h, "checksum", 0)
           s    == ICMPComputeChecksum(zero, data)
           new  == Put(ICMPFields, zero, "checksum", s)
<1>1. new = ICMPRecompute(h, data)
  BY DEF ICMPRecompute
<1>2. Table(ICMPFields, ICMPNames) /\ "checksum" \in ICMPNames
  BY ICMPTable DEF ICMPNames
<1>3. WordAt(ICMPFields, "checksum", l)
  BY ICMPTable
<1>4. l.at = 2
  BY ICMPTable
<1>5. zero \in Seq(Byte)
  <2>1. Fits(l, 0)
    <3>1. 0 \in Word
      BY WordIs
    <3> QED
      BY <1>3, <3>1, PutWord
  <2> QED
    BY <1>2, <2>1, PutTable
<1>6. s \in Word
  BY <1>5, ICMPSum
<1> HIDE DEF l, s
<1>7. PutTwice(ICMPFields, "checksum", h, s, zero, new)
  BY DEF PutTwice
<1> HIDE DEF zero, new
<1>8. KeptTwice(ICMPFields, ICMPNames, "checksum", h, zero, new)
  <2>1. WordAt(ICMPFields, "checksum", ICMPFields["checksum"])
    BY <1>3 DEF l
  <2> QED
    BY ONLY <1>2, <1>6, <1>7, <2>1, h \in Seq(Byte), TwicePutTable, Zenon
<1>9. /\ new \in Seq(Byte) /\ Len(new) = Greatest(Len(h), 4)
      /\ \A g \in ICMPNames \ {"checksum"} : Get(ICMPFields, new, g) = Get(ICMPFields, h, g)
  <2>1. l.at + 2 = 4
    BY <1>4
  <2> QED
    BY <1>8, <2>1 DEF KeptTwice, l
<1>10. /\ Short(<<>> \o GetData(zero, 8, 0) \o data)
       /\ s = Complement(OnesComplementSum(<<>> \o GetData(zero, 8, 0) \o data))
       /\ ICMPComputeChecksum(new, data)
            = Complement(OnesComplementSum(<<>> \o GetData(new, 8, 0) \o data))
  BY <1>5, <1>9, ICMPSum DEF s
<1>11. PICK i \in Nat, j \in Nat, size \in Nat : i = 0 /\ j = 2 /\ size = 8
  OBVIOUS
<1>12. l.at + 2 = 2 * j /\ 2 * j <= size /\ Len(<<>>) = 2 * i /\ <<>> \in Seq(Byte)
  BY <1>4, <1>11
<1>13. WithWord(GetData(zero, size, 0), j, s, GetData(new, size, 0))
  BY ONLY <1>3, <1>6, <1>7, <1>12, h \in Seq(Byte), size \in Nat, j \in Nat, FrontWord
<1>14. PICK b \in Seq(Byte), c \in Seq(Byte) : b = GetData(zero, 8, 0) /\ c = GetData(new, 8, 0)
  BY <1>11, <1>13 DEF WithWord
<1>15. /\ WithWord(b, j, s, c) /\ Short(<<>> \o b \o data)
       /\ s = Complement(OnesComplementSum(<<>> \o b \o data))
  BY ONLY <1>10, <1>11, <1>13, <1>14, Zenon
<1>16. Complement(OnesComplementSum(<<>> \o c \o data)) = 0
  BY ONLY <1>12, <1>15, data \in Seq(Byte), b \in Seq(Byte), c \in Seq(Byte), i \in Nat, j \in Nat,
          SumInPlace, Zenon
<1>17. ICMPComputeChecksum(new, data) = 0
  BY ONLY <1>10, <1>14, <1>16, Zenon
<1> QED
  BY <1>1, <1>9, <1>17

\* A setter of the ICMP header sets its field and no other, and makes the checksum right.
THEOREM SetICMPRight ==
  ASSUME NEW h \in Seq(Byte), Len(h) <= 8, NEW f \in ICMPNames \ {"checksum"},
         NEW v, Fits(ICMPFields[f], v), NEW data \in Seq(Byte), Len(data) <= 65507, NEW new,
         new = ICMPRecompute(Put(ICMPFields, h, f, v), data)
  PROVE  /\ new \in Seq(Byte) /\ Len(new) <= 8 /\ (Len(h) = 8 \/ f = "seqnumber" => Len(new) = 8)
         /\ Get(ICMPFields, new, f) = v
         /\ \A g \in ICMPNames \ {"checksum", f} : Get(ICMPFields, new, g) = Get(ICMPFields, h, g)
         /\ ICMPComputeChecksum(new, data) = 0
<1> DEFINE m == Put(ICMPFields, h, f, v)
<1>1. PICK end \in Nat : /\ end = ICMPFields[f].at + ICMPFields[f].size /\ end <= 8
                         /\ f = "seqnumber" => end = 8
  <2>1. /\ FieldAt(ICMPFields, f, ICMPFields[f]) /\ ICMPFields[f].at + ICMPFields[f].size <= 8
        /\ f = "seqnumber" => ICMPFields[f].at + ICMPFields[f].size = 8
    BY ICMPTable DEF Table
  <2>2. ICMPFields[f].at + ICMPFields[f].size \in Nat
    BY <2>1 DEF FieldAt, Layout
  <2> QED
    BY <2>1, <2>2
<1>2. /\ m \in Seq(Byte) /\ Len(m) = Greatest(Len(h), end) /\ Get(ICMPFields, m, f) = v
      /\ \A g \in ICMPNames \ {f} : Get(ICMPFields, m, g) = Get(ICMPFields, h, g)
  <2>1. Table(ICMPFields, ICMPNames)
    BY ICMPTable
  <2> QED
    BY <1>1, <2>1, PutTable
<1> HIDE DEF m
<1>3. new = ICMPRecompute(m, data)
  BY DEF m
<1>4. /\ new \in Seq(Byte) /\ Len(new) = Greatest(Len(m), 4)
      /\ \A g \in ICMPNames \ {"checksum"} : Get(ICMPFields, new, g) = Get(ICMPFields, m, g)
      /\ ICMPComputeChecksum(new, data) = 0
  BY <1>2, <1>3, ICMPRecomputed
<1>5. Len(new) <= 8 /\ (Len(h) = 8 \/ f = "seqnumber" => Len(new) = 8)
  <2>1. PICK n \in Nat, k \in Nat, j \in Nat :
          /\ n = Len(h) /\ k = Len(m) /\ j = Len(new)
          /\ k = Greatest(n, end) /\ j = Greatest(k, 4) /\ n <= 8
    BY <1>2, <1>4
  <2>2. k = Greatest(n, end) /\ j = Greatest(k, 4) /\ n <= 8
    BY <2>1
  <2>3. j <= 8 /\ (n = 8 \/ f = "seqnumber" => j = 8)
    BY ONLY <1>1, <2>2, n \in Nat, k \in Nat, j \in Nat, end \in Nat DEF Greatest
  <2> QED
    BY <2>1, <2>3
<1>6. ASSUME NEW g \in ICMPNames \ {"checksum", f}
      PROVE  Get(ICMPFields, new, g) = Get(ICMPFields, h, g)
  BY <1>2, <1>4
<1> QED
  BY <1>2, <1>4, <1>5, <1>6

-----------------------------------------------------------------------------
(* The inductive invariant.                                                *)

\* What is built by setters that keep each other's fields: not a timestamp, whose time is
\* set after the checksum, nor a parameter problem, whose pointer is lost.
BuiltRight == {"syn", "synack", "ack", "fin", "finack", "udp", "echo", "mask", "unreachable",
               "exceeded"}

IPSet   == IPNames \ {"ipchecksum"}
TCPSet  == TCPNames \ {"checksum", "urgent"}
UDPSet  == UDPNames \ {"checksum"}
ICMPSet == ICMPNames \ {"checksum"}

\* A setter that is called, and its value, when n is the length of the payload.
IPCall(f, v)     == f \in IPSet /\ Fits(IPFields[f], v) /\ (f = "hlen" => v = 5)
TCPCall(f, v)    == f \in TCPSet /\ Fits(TCPFields[f], v) /\ (f = "tcphlen" => v = 5)
UDPCall(n, f, v) == f \in UDPSet /\ Fits(UDPFields[f], v) /\ (f = "length" => v = 8 + n)
ICMPCall(f, v)   ==
  \/ f \in ICMPSet /\ Fits(ICMPFields[f], v) /\ (f = "type" => v # 13)
  \/ f = "payload" /\ v \in Seq(Byte) /\ Len(v) >= 20 /\ Len(v) <= 56
  \/ f = "addressmask" /\ v \in Seq(Byte) /\ Len(v) = 4

RightCall(proto, n, f, v) ==
  \/ IPCall(f, v)
  \/ proto = 6 /\ TCPCall(f, v)
  \/ proto = 17 /\ UDPCall(n, f, v)
  \/ proto = 1 /\ ICMPCall(f, v)
Names == IPNames \cup TCPNames \cup UDPNames \cup ICMPNames \cup {"payload", "addressmask"}
RightCalls(proto, n) ==
  {c \in Names \X (Nat \cup Seq(Byte)) : RightCall(proto, n, c[1], c[2])}

\* There is a call for a field, and the last one has this value.
Calls(s, f)       == \E i \in 1..Len(s) : s[i][1] = f
LastCall(s, f, v) ==
  \E i \in 1..Len(s) : s[i][1] = f /\ s[i][2] = v /\ \A j \in (i + 1)..Len(s) : s[j][1] # f

\* A field has been set or is yet to be, and what it will be set to last.
Required(s, t, f) == f \in DOMAIN t \/ Calls(s, f)
Due(s, t, f, v)   == LastCall(s, f, v) \/ (f \in DOMAIN t /\ t[f] = v /\ ~ Calls(s, f))

\* The buffers, and the calls to come.
BuffersRight ==
  /\ kind.proto \in {1, 6, 17}
  /\ ip \in Seq(Byte) /\ tr \in Seq(Byte) /\ payload \in Seq(Byte)
  /\ Len(payload) <= 65507 /\ (kind.proto = 1 => Len(payload) <= 56)

CallsRight ==
  /\ todo \in Seq(RightCalls(kind.proto, Len(payload)))
  /\ todo # <<>> => todo[Len(todo)][1] \notin IPSet \cup {"payload"}
  /\ Required(todo, set, "hlen") /\ Required(todo, set, "dest")
  /\ Due(todo, set, "protocol", kind.proto)
  /\ kind.proto = 6 => /\ Required(todo, set, "tcphlen")
                       /\ Due(todo, set, "totlen", 40 + Len(payload))
  /\ kind.proto = 17 => Required(todo, set, "length")
  /\ kind.proto = 1 => /\ Required(todo, set, "type") /\ Required(todo, set, "payload")
                       /\ Required(todo, set, "seqnumber")

\* A field that has been set has its value still.
Kept(proto, n, iph, h, f, v) ==
  /\ RightCall(proto, n, f, v)
  /\ f \in IPSet => Get(IPFields, iph, f) = v
  /\ proto = 6 /\ f \in TCPSet => Get(TCPFields, h, f) = v
  /\ proto = 17 /\ f \in UDPSet => Get(UDPFields, h, f) = v
  /\ proto = 1 /\ f \in ICMPSet => Get(ICMPFields, h, f) = v
  /\ f = "payload" => n >= 20
FieldsRight ==
  \A f \in DOMAIN set : Kept(kind.proto, Len(payload), ip, tr, f, set[f])

LengthsRight ==
  /\ Len(ip) <= 20 /\ ("dest" \in DOMAIN set => Len(ip) = 20)
  /\ kind.proto = 6 => Len(tr) <= 20 /\ ("tcphlen" \in DOMAIN set => Len(tr) = 20)
  /\ kind.proto = 17 => Len(tr) <= 8 /\ ("length" \in DOMAIN set => Len(tr) = 8)
  /\ kind.proto = 1 => Len(tr) <= 8 /\ ("seqnumber" \in DOMAIN set => Len(tr) = 8)

\* The checksum of the IP header is right after every call, the other after the last.
SumsRight ==
  /\ "hlen" \in DOMAIN set => IPChecksumCorrect(ip)
  /\ todo = <<>> =>
       /\ kind.proto = 6 => TCPComputeChecksum(tr, ip, payload) = 0
       /\ kind.proto = 17 => UDPComputeChecksum(tr, ip, payload) = 0
       /\ kind.proto = 1 => ICMPComputeChecksum(tr, payload) = 0

\* A frame holds what was built, and padding if it is too short.
Framed(f, n) ==
  /\ n \in Nat /\ f = EthernetHeader \o ip \o tr \o payload \o Zeros(n)
  /\ n = 0 \/ 14 + Len(ip) + Len(tr) + Len(payload) + n = 60
FrameRight ==
  /\ frame # Nothing => todo = <<>> /\ \E n \in Nat : Framed(frame, n)
  /\ got # Nothing => frame # Nothing /\ got = TakenApart(frame)

WireInv ==
  BuffersRight /\ CallsRight /\ FieldsRight /\ LengthsRight /\ SumsRight /\ FrameRight

-----------------------------------------------------------------------------
(* Sequences of calls.                                                     *)

\* What is in a tuple of calls.
LEMMA CallsLeft ==
  ASSUME NEW S, NEW s \in Seq(S), NEW u \in Seq(S), NEW f, Calls(s, f)
  PROVE  Calls(s \o u, f)
<1>1. PICK i \in 1..Len(s) : s[i][1] = f
  BY DEF Calls
<1>2. i \in 1..Len(s \o u) /\ (s \o u)[i] = s[i]
  OBVIOUS
<1> QED
  BY <1>1, <1>2 DEF Calls

\* What is called in the second part is called in the whole,
LEMMA CallsRightOf ==
  ASSUME NEW S, NEW s \in Seq(S), NEW u \in Seq(S), NEW f, Calls(u, f)
  PROVE  Calls(s \o u, f)
<1>1. PICK i \in 1..Len(u) : u[i][1] = f
  BY DEF Calls
<1>2. Len(s) + i \in 1..Len(s \o u) /\ (s \o u)[Len(s) + i] = u[i]
  OBVIOUS
<1> QED
  BY <1>1, <1>2 DEF Calls

\* and nothing is called in the whole but what is in one of the parts.
LEMMA CallsOfBoth ==
  ASSUME NEW S, NEW s \in Seq(S), NEW u \in Seq(S), NEW f, Calls(s \o u, f)
  PROVE  Calls(s, f) \/ Calls(u, f)
<1>1. PICK i \in 1..Len(s \o u) : (s \o u)[i][1] = f
  BY DEF Calls
<1>2. CASE i <= Len(s)
  <2>1. i \in 1..Len(s) /\ (s \o u)[i] = s[i]
    BY <1>2
  <2> QED
    BY <1>1, <2>1 DEF Calls
<1>3. CASE i > Len(s)
  <2>1. i - Len(s) \in 1..Len(u) /\ (s \o u)[i] = u[i - Len(s)]
    BY <1>3
  <2> QED
    BY <1>1, <2>1 DEF Calls
<1> QED
  BY <1>2, <1>3

\* The last call is in the last part that has one.
LEMMA LastCallRight ==
  ASSUME NEW S, NEW s \in Seq(S), NEW u \in Seq(S), NEW f, NEW v, LastCall(u, f, v)
  PROVE  LastCall(s \o u, f, v)
<1>1. PICK i \in 1..Len(u) : u[i][1] = f /\ u[i][2] = v /\ \A j \in (i + 1)..Len(u) : u[j][1] # f
  BY DEF LastCall
<1>2. PICK k \in 1..Len(s \o u) : k = Len(s) + i /\ (s \o u)[k] = u[i]
  OBVIOUS
<1>3. ASSUME NEW j \in (k + 1)..Len(s \o u)
      PROVE  (s \o u)[j][1] # f
  <2>1. j - Len(s) \in (i + 1)..Len(u) /\ (s \o u)[j] = u[j - Len(s)]
    BY <1>2
  <2> QED
    BY <1>1, <2>1
<1> QED
  BY <1>1, <1>2, <1>3 DEF LastCall

\* The last call of a field stays the last before calls for others,
LEMMA LastCallLeft ==
  ASSUME NEW S, NEW s \in Seq(S), NEW u \in Seq(S), NEW f, NEW v, LastCall(s, f, v), ~ Calls(u, f)
  PROVE  LastCall(s \o u, f, v)
<1>1. PICK i \in 1..Len(s) : s[i][1] = f /\ s[i][2] = v /\ \A j \in (i + 1)..Len(s) : s[j][1] # f
  BY DEF LastCall
<1>2. i \in 1..Len(s \o u) /\ (s \o u)[i] = s[i]
  OBVIOUS
<1>3. ASSUME NEW j \in (i + 1)..Len(s \o u)
      PROVE  (s \o u)[j][1] # f
  <2>1. CASE j <= Len(s)
    <3>1. j \in (i + 1)..Len(s) /\ (s \o u)[j] = s[j]
      BY <2>1
    <3> QED
      BY <1>1, <3>1
  <2>2. CASE j > Len(s)
    <3>1. j - Len(s) \in 1..Len(u) /\ (s \o u)[j] = u[j - Len(s)]
      BY <2>2
    <3> QED
      BY <3>1 DEF Calls
  <2> QED
    BY <2>1, <2>2
<1> QED
  BY <1>1, <1>2, <1>3 DEF LastCall

\* The setter that is called next is a setter that is called.
Called(t, f, v, n) ==
  DOMAIN n = DOMAIN t \cup {f} /\ \A g \in DOMAIN t \cup {f} : n[g] = IF g = f THEN v ELSE t[g]

\* What is required stays required when the first call is made,
LEMMA RequiredStays ==
  ASSUME NEW S, NEW s \in Seq(S), s # <<>>, NEW t, NEW n, Called(t, Head(s)[1], Head(s)[2], n),
         NEW f, Required(s, t, f)
  PROVE  Required(Tail(s), n, f)
<1>1. Head(s) = s[1] /\ Len(s) \in Nat /\ Len(s) > 0
  OBVIOUS
<1>2. CASE f \in DOMAIN t \/ Head(s)[1] = f
  BY <1>2 DEF Required, Called
<1>3. CASE Calls(s, f) /\ Head(s)[1] # f
  <2>1. PICK i \in 1..Len(s) : s[i][1] = f
    BY <1>3 DEF Calls
  <2>2. i # 1
    BY <1>1, <1>3, <2>1
  <2>3. i - 1 \in 1..Len(Tail(s)) /\ Tail(s)[i - 1] = s[i]
    BY <2>2
  <2> QED
    BY <2>1, <2>3 DEF Required, Calls
<1> QED
  BY <1>2, <1>3 DEF Required

\* and the value it will have at the end stays the same.
LEMMA DueStays ==
  ASSUME NEW S, NEW s \in Seq(S), s # <<>>, NEW t, NEW n, Called(t, Head(s)[1], Head(s)[2], n),
         NEW f, NEW v, Due(s, t, f, v)
  PROVE  Due(Tail(s), n, f, v)
<1>1. Head(s) = s[1] /\ Len(s) \in Nat /\ Len(s) > 0 /\ 1 \in 1..Len(s)
  OBVIOUS
<1>2. ASSUME NEW i \in 1..Len(s), s[i][1] = f, s[i][2] = v, \A j \in (i + 1)..Len(s) : s[j][1] # f
      PROVE  Due(Tail(s), n, f, v)
  <2>1. CASE i = 1
    <3>1. ~ Calls(Tail(s), f)
      <4>1. ASSUME NEW j \in 1..Len(Tail(s))
            PROVE  Tail(s)[j][1] # f
        <5>1. Tail(s)[j] = s[j + 1] /\ j + 1 \in (i + 1)..Len(s)
          BY <2>1
        <5> QED
          BY <1>2, <5>1
      <4> QED
        BY <4>1 DEF Calls
    <3>2. f \in DOMAIN n /\ n[f] = v
      BY <1>1, <1>2, <2>1 DEF Called
    <3> QED
      BY <3>1, <3>2 DEF Due
  <2>2. CASE i # 1
    <3>1. PICK k \in 1..Len(Tail(s)) : k = i - 1 /\ Tail(s)[k] = s[i]
      BY <2>2
    <3>2. ASSUME NEW j \in (k + 1)..Len(Tail(s))
          PROVE  Tail(s)[j][1] # f
      <4>1. j + 1 \in (i + 1)..Len(s) /\ Tail(s)[j] = s[j + 1]
        BY <3>1
      <4> QED
        BY <1>2, <4>1
    <3> QED
      BY <1>2, <3>1, <3>2 DEF Due, LastCall
  <2> QED
    BY <2>1, <2>2
<1>3. CASE f \in DOMAIN t /\ t[f] = v /\ ~ Calls(s, f)
  <2>1. Head(s)[1] # f
    BY <1>1, <1>3 DEF Calls
  <2>2. ~ Calls(Tail(s), f)
    <3>1. ASSUME NEW j \in 1..Len(Tail(s))
          PROVE  Tail(s)[j][1] # f
      <4>1. Tail(s)[j] = s[j + 1] /\ j + 1 \in 1..Len(s)
        OBVIOUS
      <4> QED
        BY <1>3, <4>1 DEF Calls
    <3> QED
      BY <3>1 DEF Calls
  <2> QED
    BY <1>3, <2>1, <2>2 DEF Due, Called
<1> QED
  BY <1>2, <1>3 DEF Due, LastCall

\* When there is no call left, what was required is set.
LEMMA NoCallLeft ==
  ASSUME NEW t, NEW f
  PROVE  /\ Required(<<>>, t, f) => f \in DOMAIN t
         /\ \A v : Due(<<>>, t, f, v) => f \in DOMAIN t /\ t[f] = v
<1>1. ~ Calls(<<>>, f) /\ \A v : ~ LastCall(<<>>, f, v)
  BY DEF Calls, LastCall
<1> QED
  BY <1>1 DEF Required, Due

\* The last of the calls to come.
LEMMA TailLast ==
  ASSUME NEW S, NEW s \in Seq(S), s # <<>>
  PROVE  /\ Tail(s) \in Seq(S) /\ Head(s) \in S
         /\ Tail(s) # <<>> => Tail(s)[Len(Tail(s))] = s[Len(s)]
         /\ Tail(s) = <<>> => Head(s) = s[Len(s)]
<1> DEFINE t == Tail(s)
<1>1. /\ Len(s) \in Nat /\ Len(s) > 0 /\ t \in Seq(S) /\ Len(t) = Len(s) - 1 /\ Head(s) = s[1]
      /\ s[1] \in S /\ \A i \in 1..Len(t) : t[i] = s[i + 1]
  OBVIOUS
<1> HIDE DEF t
<1>2. \A q \in Seq(S) : Len(q) \in Nat /\ (Len(q) = 0 <=> q = <<>>)
  OBVIOUS
<1>3. PICK m \in Nat : m = Len(t)
  BY <1>1, <1>2
<1>4. Len(s) = m + 1 /\ (m = 0 <=> t = <<>>) /\ \A i \in 1..m : t[i] = s[i + 1]
  BY <1>1, <1>2, <1>3
<1>5. ASSUME t # <<>>
      PROVE  t[m] = s[m + 1]
  <2>1. m \in 1..m
    BY <1>4, <1>5
  <2> QED
    BY <1>4, <2>1
<1>6. ASSUME t = <<>>
      PROVE  s[1] = s[m + 1]
  BY <1>4, <1>6
<1>7. t \in Seq(S) /\ Head(s) \in S /\ (t # <<>> => t[Len(t)] = s[Len(s)])
      /\ (t = <<>> => Head(s) = s[Len(s)])
  BY <1>1, <1>3, <1>4, <1>5, <1>6, Zenon
<1> QED
  BY <1>7 DEF t

\* The last of a sequence of calls is the last of its second part.
LEMMA JoinLast ==
  ASSUME NEW S, NEW s \in Seq(S), NEW u \in Seq(S), u # <<>>
  PROVE  /\ s \o u \in Seq(S) /\ s \o u # <<>>
         /\ (s \o u)[Len(s \o u)] = u[Len(u)]
<1>1. Len(s) \in Nat /\ Len(u) \in Nat /\ Len(u) > 0 /\ Len(s \o u) = Len(s) + Len(u)
      /\ s \o u \in Seq(S)
  OBVIOUS
<1>2. PICK k \in 1..Len(u) : k = Len(u)
  BY <1>1
<1>3. (s \o u)[Len(s) + k] = u[k]
  OBVIOUS
<1>4. s \o u # <<>>
  BY <1>1
<1> QED
  BY <1>1, <1>2, <1>3, <1>4

-----------------------------------------------------------------------------
(* The calls that build a packet are setters that are called.              *)

\* A number below the range of a field fits into it,
LEMMA FitsNumber ==
  ASSUME NEW l, l.size # 4, l.range \in Nat, NEW v \in Nat, v < l.range
  PROVE  Fits(l, v)
  BY DEF Fits

\* and four bytes into a field of four.
LEMMA FitsFour ==
  ASSUME NEW l, l.size = 4, NEW v \in [1..4 -> Byte]
  PROVE  Fits(l, v)
  BY DEF Fits

\* The calls for the IP header.
LEMMA IPCalls ==
  ASSUME NEW n \in Nat, n <= 65535, NEW a \in [1..4 -> Byte]
  PROVE  /\ IPCall("version", 4) /\ IPCall("hlen", 5) /\ IPCall("tos", 0) /\ IPCall("totlen", n)
         /\ IPCall("id", n) /\ IPCall("flags", 2) /\ IPCall("fragoffset", 0) /\ IPCall("ttl", 64)
         /\ IPCall("protocol", 1) /\ IPCall("protocol", 6) /\ IPCall("protocol", 17)
         /\ IPCall("protocol", 255) /\ IPCall("source", a) /\ IPCall("dest", a)
<1>1. /\ \A v \in Nat : v < 16 => Fits(IPFields["version"], v) /\ Fits(IPFields["hlen"], v)
      /\ \A v \in Nat : v < 256 => Fits(IPFields["tos"], v) /\ Fits(IPFields["ttl"], v)
                                    /\ Fits(IPFields["protocol"], v)
      /\ \A v \in Nat : v < 65536 => Fits(IPFields["totlen"], v) /\ Fits(IPFields["id"], v)
      /\ \A v \in Nat : v < 8 => Fits(IPFields["flags"], v)
      /\ \A v \in Nat : v < 8192 => Fits(IPFields["fragoffset"], v)
  BY FitsNumber DEF IPFields, At, Part
<1>2. Fits(IPFields["source"], a) /\ Fits(IPFields["dest"], a)
  BY FitsFour DEF IPFields, Four
<1> QED
  BY <1>1, <1>2 DEF IPCall, IPSet, IPNames

\* and for the others.
LEMMA TCPCalls ==
  ASSUME NEW n \in Nat, n <= 65535, NEW a \in [1..4 -> Byte]
  PROVE  /\ TCPCall("srcport", n) /\ TCPCall("destport", n) /\ TCPCall("winsize", n)
         /\ TCPCall("tcphlen", 5) /\ (n < 64 => TCPCall("tcpflags", n))
         /\ TCPCall("seqnum", a) /\ TCPCall("acknum", a)
<1>1. /\ \A v \in Nat : v < 65536 => Fits(TCPFields["srcport"], v) /\ Fits(TCPFields["destport"], v)
                                      /\ Fits(TCPFields["winsize"], v)
      /\ \A v \in Nat : v < 16 => Fits(TCPFields["tcphlen"], v)
      /\ \A v \in Nat : v < 64 => Fits(TCPFields["tcpflags"], v)
  BY FitsNumber DEF TCPFields, At, Part
<1>2. Fits(TCPFields["seqnum"], a) /\ Fits(TCPFields["acknum"], a)
  BY FitsFour DEF TCPFields, Four
<1> QED
  BY <1>1, <1>2 DEF TCPCall, TCPSet, TCPNames

\* The calls for the UDP header.
LEMMA UDPCalls ==
  ASSUME NEW n \in Nat, n <= 65535, NEW m \in Nat, m <= 65527
  PROVE  UDPCall(m, "srcport", n) /\ UDPCall(m, "destport", n) /\ UDPCall(m, "length", 8 + m)
<1>1. \A v \in Nat : v < 65536 => Fits(UDPFields["srcport"], v) /\ Fits(UDPFields["destport"], v)
                                   /\ Fits(UDPFields["length"], v)
  BY FitsNumber DEF UDPFields, At, Part
<1> QED
  BY <1>1 DEF UDPCall, UDPSet, UDPNames

\* The calls for the ICMP header.
LEMMA ICMPCalls ==
  ASSUME NEW n \in Nat, n <= 255, NEW b \in Seq(Byte)
  PROVE  /\ n # 13 => ICMPCall("type", n)
         /\ ICMPCall("code", n) /\ ICMPCall("identifier", 0) /\ ICMPCall("seqnumber", 0)
         /\ Len(b) >= 20 /\ Len(b) <= 56 => ICMPCall("payload", b)
         /\ Len(b) = 4 => ICMPCall("addressmask", b)
<1>1. /\ \A v \in Nat : v < 256 => Fits(ICMPFields["type"], v) /\ Fits(ICMPFields["code"], v)
      /\ Fits(ICMPFields["identifier"], 0) /\ Fits(ICMPFields["seqnumber"], 0)
  BY FitsNumber DEF ICMPFields, At, Part
<1> QED
  BY <1>1 DEF ICMPCall, ICMPSet, ICMPNames

\* A setter that is called, as a call.
LEMMA CallIn ==
  ASSUME NEW proto, NEW n, NEW f \in Names, NEW v \in Nat \cup Seq(Byte), RightCall(proto, n, f, v)
  PROVE  <<f, v>> \in RightCalls(proto, n)
  BY DEF RightCalls

\* Each of these calls is among the right calls.
LEMMA IPCallIn ==
  ASSUME NEW proto, NEW n, NEW f, NEW v \in Nat \cup Seq(Byte), IPCall(f, v)
  PROVE  <<f, v>> \in RightCalls(proto, n)
<1>1. f \in Names /\ RightCall(proto, n, f, v)
  BY Zenon DEF IPCall, IPSet, Names, RightCall
<1> QED
  BY <1>1, CallIn

\* The same for TCP,
LEMMA TCPCallIn ==
  ASSUME NEW n, NEW f, NEW v \in Nat \cup Seq(Byte), TCPCall(f, v)
  PROVE  <<f, v>> \in RightCalls(6, n)
<1>1. f \in Names /\ RightCall(6, n, f, v)
  BY Zenon DEF TCPCall, TCPSet, Names, RightCall
<1> QED
  BY <1>1, CallIn

\* for UDP
LEMMA UDPCallIn ==
  ASSUME NEW n, NEW f, NEW v \in Nat \cup Seq(Byte), UDPCall(n, f, v)
  PROVE  <<f, v>> \in RightCalls(17, n)
<1>1. f \in Names /\ RightCall(17, n, f, v)
  BY Zenon DEF UDPCall, UDPSet, Names, RightCall
<1> QED
  BY <1>1, CallIn

\* and for ICMP.
LEMMA ICMPCallIn ==
  ASSUME NEW n, NEW f, NEW v \in Nat \cup Seq(Byte), ICMPCall(f, v)
  PROVE  <<f, v>> \in RightCalls(1, n)
<1>1. f \in Names /\ RightCall(1, n, f, v)
  BY Zenon DEF ICMPCall, ICMPSet, Names, RightCall
<1> QED
  BY <1>1, CallIn

\* Tuples of calls, and the fields they set.
LEMMA One ==
  ASSUME NEW S, NEW a \in S
  PROVE  /\ <<a>> \in Seq(S) /\ Len(<<a>>) = 1 /\ <<a>>[1] = a
         /\ \A f : Calls(<<a>>, f) <=> f = a[1]
<1>1. <<a>> \in Seq(S) /\ Len(<<a>>) = 1 /\ <<a>>[1] = a
  OBVIOUS
<1>2. \A i : i \in 1..1 <=> i = 1
  OBVIOUS
<1> QED
  BY ONLY <1>1, <1>2 DEF Calls

\* Two calls,
LEMMA Two ==
  ASSUME NEW S, NEW a \in S, NEW b \in S
  PROVE  /\ <<a, b>> \in Seq(S) /\ Len(<<a, b>>) = 2
         /\ <<a, b>>[1] = a /\ <<a, b>>[2] = b /\ <<a, b>> # <<>>
         /\ \A f : Calls(<<a, b>>, f) <=> f = a[1] \/ f = b[1]
<1>1. /\ <<a, b>> \in Seq(S) /\ Len(<<a, b>>) = 2
      /\ <<a, b>>[1] = a /\ <<a, b>>[2] = b /\ <<a, b>> # <<>>
  OBVIOUS
<1>2. \A i : i \in 1..2 <=> i = 1 \/ i = 2
  OBVIOUS
<1> QED
  BY ONLY <1>1, <1>2 DEF Calls

\* three,
LEMMA Three ==
  ASSUME NEW S, NEW a \in S, NEW b \in S, NEW c \in S
  PROVE  /\ <<a, b, c>> \in Seq(S) /\ Len(<<a, b, c>>) = 3 /\ <<a, b, c>> # <<>>
         /\ <<a, b, c>>[1] = a /\ <<a, b, c>>[2] = b /\ <<a, b, c>>[3] = c
         /\ \A f : Calls(<<a, b, c>>, f) <=> f = a[1] \/ f = b[1] \/ f = c[1]
<1>1. /\ <<a, b, c>> \in Seq(S) /\ Len(<<a, b, c>>) = 3 /\ <<a, b, c>> # <<>>
      /\ <<a, b, c>>[1] = a /\ <<a, b, c>>[2] = b /\ <<a, b, c>>[3] = c
  OBVIOUS
<1>2. \A i : i \in 1..3 <=> i = 1 \/ i = 2 \/ i = 3
  OBVIOUS
<1> QED
  BY ONLY <1>1, <1>2 DEF Calls

\* four bytes,
LEMMA Quadruple ==
  ASSUME NEW S, NEW a \in S, NEW b \in S, NEW c \in S, NEW d \in S
  PROVE  /\ <<a, b, c, d>> \in Seq(S) /\ Len(<<a, b, c, d>>) = 4 /\ <<a, b, c, d>> # <<>>
         /\ <<a, b, c, d>>[1] = a /\ <<a, b, c, d>>[2] = b
         /\ <<a, b, c, d>>[3] = c /\ <<a, b, c, d>>[4] = d
         /\ \A f : Calls(<<a, b, c, d>>, f) <=> f = a[1] \/ f = b[1] \/ f = c[1] \/ f = d[1]
<1>1. /\ <<a, b, c, d>> \in Seq(S) /\ Len(<<a, b, c, d>>) = 4 /\ <<a, b, c, d>> # <<>>
      /\ <<a, b, c, d>>[1] = a /\ <<a, b, c, d>>[2] = b
      /\ <<a, b, c, d>>[3] = c /\ <<a, b, c, d>>[4] = d
  OBVIOUS
<1>2. \A i : i \in 1..4 <=> i = 1 \/ i = 2 \/ i = 3 \/ i = 4
  OBVIOUS
<1> QED
  BY ONLY <1>1, <1>2 DEF Calls

\* six calls
LEMMA Six ==
  ASSUME NEW S, NEW a \in S, NEW b \in S, NEW c \in S, NEW d \in S, NEW e \in S, NEW f \in S
  PROVE  /\ <<a, b, c, d, e, f>> \in Seq(S) /\ Len(<<a, b, c, d, e, f>>) = 6
         /\ <<a, b, c, d, e, f>>[1] = a /\ <<a, b, c, d, e, f>>[2] = b
         /\ <<a, b, c, d, e, f>>[3] = c /\ <<a, b, c, d, e, f>>[4] = d
         /\ <<a, b, c, d, e, f>>[5] = e /\ <<a, b, c, d, e, f>>[6] = f
  OBVIOUS

\* and eleven.
LEMMA Eleven ==
  ASSUME NEW S, NEW a \in S, NEW b \in S, NEW c \in S, NEW d \in S, NEW e \in S, NEW f \in S,
         NEW g \in S, NEW h \in S, NEW i \in S, NEW j \in S, NEW k \in S
  PROVE  /\ <<a, b, c, d, e, f, g, h, i, j, k>> \in Seq(S)
         /\ Len(<<a, b, c, d, e, f, g, h, i, j, k>>) = 11
         /\ <<a, b, c, d, e, f, g, h, i, j, k>>[2] = b
         /\ <<a, b, c, d, e, f, g, h, i, j, k>>[11] = k
  OBVIOUS

\* The calls of the constructor of the IP header,
LEMMA DefaultCalls ==
  ASSUME NEW proto, NEW n, NEW id \in Word
  PROVE  /\ IPDefaults(id) \in Seq(RightCalls(proto, n))
         /\ Calls(IPDefaults(id), "hlen") /\ Calls(IPDefaults(id), "dest")
<1>1. Zeros(4) \in [1..4 -> Byte] /\ Zeros(4) \in Seq(Byte)
  BY ByteIs, BytesAre DEF Zeros
<1>2. /\ IPCall("version", 4) /\ IPCall("hlen", 5) /\ IPCall("tos", 0) /\ IPCall("totlen", 20)
      /\ IPCall("id", id) /\ IPCall("flags", 2) /\ IPCall("fragoffset", 0) /\ IPCall("ttl", 64)
      /\ IPCall("protocol", 255) /\ IPCall("source", Zeros(4)) /\ IPCall("dest", Zeros(4))
  BY <1>1, IPCalls, WordIs
<1>3. \A f : \A v \in Nat \cup Seq(Byte) : IPCall(f, v) => <<f, v>> \in RightCalls(proto, n)
  BY IPCallIn
<1>4. /\ <<"version", 4>> \in RightCalls(proto, n) /\ <<"hlen", 5>> \in RightCalls(proto, n)
      /\ <<"tos", 0>> \in RightCalls(proto, n) /\ <<"totlen", 20>> \in RightCalls(proto, n)
      /\ <<"id", id>> \in RightCalls(proto, n) /\ <<"flags", 2>> \in RightCalls(proto, n)
      /\ <<"fragoffset", 0>> \in RightCalls(proto, n) /\ <<"ttl", 64>> \in RightCalls(proto, n)
      /\ <<"protocol", 255>> \in RightCalls(proto, n)
      /\ <<"source", Zeros(4)>> \in RightCalls(proto, n)
      /\ <<"dest", Zeros(4)>> \in RightCalls(proto, n)
  <2>1. id \in Nat
    BY WordIs
  <2>2. \A k \in Nat : k \in Nat \cup Seq(Byte)
    OBVIOUS
  <2>3. 0 \in Nat /\ 2 \in Nat /\ 4 \in Nat /\ 5 \in Nat /\ 20 \in Nat /\ 64 \in Nat /\ 255 \in Nat
    OBVIOUS
  <2> QED
    BY ONLY <1>1, <1>2, <1>3, <2>1, <2>2, <2>3
<1>5. /\ IPDefaults(id) \in Seq(RightCalls(proto, n)) /\ Len(IPDefaults(id)) = 11
      /\ IPDefaults(id)[2] = <<"hlen", 5>> /\ IPDefaults(id)[11] = <<"dest", Zeros(4)>>
  BY ONLY <1>4, Eleven DEF IPDefaults
<1>6. IPDefaults(id)[2][1] = "hlen" /\ IPDefaults(id)[11][1] = "dest"
  BY <1>5
<1>7. 2 \in 1..Len(IPDefaults(id)) /\ 11 \in 1..Len(IPDefaults(id))
  BY ONLY <1>5
<1> QED
  BY ONLY <1>5, <1>6, <1>7, Zenon DEF Calls

\* and those that say where the packet goes.
LEMMA ToHostCalls ==
  ASSUME NEW proto \in {6, 17}, NEW n, NEW from \in [1..4 -> Byte], NEW to \in [1..4 -> Byte],
         NEW length \in Nat, length <= 65535
  PROVE  /\ ToHost(proto, from, to, length) \in Seq(RightCalls(proto, n))
         /\ LastCall(ToHost(proto, from, to, length), "protocol", proto)
         /\ LastCall(ToHost(proto, from, to, length), "totlen", length)
<1> DEFINE s == ToHost(proto, from, to, length)
<1>1. from \in Seq(Byte) /\ to \in Seq(Byte) /\ proto \in Nat
  <2>1. 4 \in Nat /\ proto \in Nat
    OBVIOUS
  <2> QED
    BY ONLY <2>1, BytesAre, from \in [1..4 -> Byte], to \in [1..4 -> Byte]
<1>2. IPCall("protocol", proto) /\ IPCall("source", from) /\ IPCall("dest", to)
      /\ IPCall("totlen", length)
  BY IPCalls
<1>3. \A f : \A v \in Nat \cup Seq(Byte) : IPCall(f, v) => <<f, v>> \in RightCalls(proto, n)
  BY IPCallIn
<1>4. /\ <<"protocol", proto>> \in RightCalls(proto, n)
      /\ <<"source", from>> \in RightCalls(proto, n)
      /\ <<"dest", to>> \in RightCalls(proto, n) /\ <<"totlen", length>> \in RightCalls(proto, n)
  BY ONLY <1>1, <1>2, <1>3, length \in Nat
<1>5. /\ s \in Seq(RightCalls(proto, n)) /\ Len(s) = 4
      /\ s[1] = <<"protocol", proto>> /\ s[2] = <<"source", from>>
      /\ s[3] = <<"dest", to>> /\ s[4] = <<"totlen", length>>
  BY ONLY <1>4, Quadruple DEF ToHost
<1> HIDE DEF s
<1>6. /\ s[1][1] = "protocol" /\ s[1][2] = proto /\ s[4][1] = "totlen" /\ s[4][2] = length
      /\ s[2][1] = "source" /\ s[3][1] = "dest"
  BY <1>5
<1>7. /\ 1 \in 1..Len(s) /\ \A j \in (1 + 1)..Len(s) : s[j][1] # "protocol"
      /\ 4 \in 1..Len(s) /\ \A j \in (4 + 1)..Len(s) : s[j][1] # "totlen"
  <2>1. ASSUME NEW j \in (1 + 1)..Len(s)
        PROVE  j = 2 \/ j = 3 \/ j = 4
    BY ONLY <1>5, <2>1
  <2>2. (4 + 1)..Len(s) = {}
    BY ONLY <1>5
  <2> QED
    BY ONLY <1>5, <1>6, <2>1, <2>2
<1>8. LastCall(s, "protocol", proto) /\ LastCall(s, "totlen", length)
  BY ONLY <1>6, <1>7, Zenon DEF LastCall
<1> QED
  BY ONLY <1>5, <1>8 DEF s

\* The calls after those of the constructor, for a packet with n bytes of payload.
Planned(s, proto, n) ==
  /\ s \in Seq(RightCalls(proto, n)) /\ s # <<>> /\ s[Len(s)][1] \notin IPSet \cup {"payload"}
  /\ LastCall(s, "protocol", proto)
  /\ proto = 6 => Calls(s, "tcphlen") /\ LastCall(s, "totlen", 40 + n)
  /\ proto = 17 => Calls(s, "length")
  /\ proto = 1 => Calls(s, "type") /\ Calls(s, "payload") /\ Calls(s, "seqnumber")

\* The calls for a segment (packet_factory.cc) are planned,
LEMMA SegmentPlanned ==
  ASSUME NEW flags \in {1, 2, 16, 17, 18}, NEW to \in [1..4 -> Byte], NEW port \in Word,
         NEW n \in [1..4 -> Byte], NEW data, NEW m \in Nat, m = Len(data), m <= 536,
         NEW me \in [1..4 -> Byte],
         me = Me
  PROVE  Planned(Segment(flags, to, port, n, data), 6, m)
<1> DEFINE R == RightCalls(6, m)
           V == Nat \cup Seq(Byte)
           a == ToHost(6, me, to, m + 40)
           b == << <<"srcport", port>>, <<"destport", port>>, <<"tcphlen", 5>>, <<"seqnum", n>> >>
           c == IF flags >= ACK THEN << <<"acknum", n>> >> ELSE <<>>
           d == << <<"tcpflags", flags>>, <<"winsize", 14600>> >>
<1>1. n \in Seq(Byte) /\ port \in Nat /\ port <= 65535
  <2>1. 4 \in Nat
    OBVIOUS
  <2>2. n \in Seq(Byte)
    BY ONLY <2>1, BytesAre, n \in [1..4 -> Byte]
  <2> QED
    BY ONLY <2>2, port \in Word, WordIs
<1>2. /\ TCPCall("srcport", port) /\ TCPCall("destport", port) /\ TCPCall("tcphlen", 5)
      /\ TCPCall("seqnum", n) /\ TCPCall("acknum", n) /\ TCPCall("tcpflags", flags)
      /\ TCPCall("winsize", 14600)
  BY ONLY <1>1, TCPCalls, flags \in {1, 2, 16, 17, 18}, n \in [1..4 -> Byte]
<1>3. /\ \A f : \A v \in V : TCPCall(f, v) => <<f, v>> \in R
      /\ port \in V /\ 5 \in V /\ n \in V /\ flags \in V /\ 14600 \in V
  <2>1. \A k \in Nat : k \in V
    OBVIOUS
  <2>2. 5 \in Nat /\ 14600 \in Nat /\ flags \in Nat
    OBVIOUS
  <2>3. n \in V
    BY <1>1
  <2>4. \A f : \A v \in V : TCPCall(f, v) => <<f, v>> \in R
    BY ONLY TCPCallIn
  <2> HIDE DEF V
  <2> QED
    BY ONLY <1>1, <2>1, <2>2, <2>3, <2>4
<1> HIDE DEF R, V
<1>4. /\ <<"srcport", port>> \in R /\ <<"destport", port>> \in R /\ <<"tcphlen", 5>> \in R
      /\ <<"seqnum", n>> \in R /\ <<"acknum", n>> \in R /\ <<"tcpflags", flags>> \in R
      /\ <<"winsize", 14600>> \in R
  BY ONLY <1>2, <1>3
<1>5. a \in Seq(R) /\ LastCall(a, "protocol", 6) /\ LastCall(a, "totlen", m + 40)
  <2>1. 6 \in {6, 17} /\ m + 40 \in Nat /\ m + 40 <= 65535
    OBVIOUS
  <2> QED
    BY ONLY <2>1, ToHostCalls, to \in [1..4 -> Byte], me \in [1..4 -> Byte] DEF R
<1>6. /\ b \in Seq(R) /\ Calls(b, "tcphlen") /\ ~ Calls(b, "protocol") /\ ~ Calls(b, "totlen")
  <2>1. PICK p \in R, q \in R, r \in R, u \in R :
          /\ p = <<"srcport", port>> /\ q = <<"destport", port>>
          /\ r = <<"tcphlen", 5>> /\ u = <<"seqnum", n>>
    BY ONLY <1>4
  <2>2. /\ <<p, q, r, u>> \in Seq(R)
        /\ \A f : Calls(<<p, q, r, u>>, f) <=> f = p[1] \/ f = q[1] \/ f = r[1] \/ f = u[1]
    BY ONLY Quadruple, p \in R, q \in R, r \in R, u \in R
  <2>3. p[1] = "srcport" /\ q[1] = "destport" /\ r[1] = "tcphlen" /\ u[1] = "seqnum"
    BY ONLY <2>1
  <2>4. b = <<p, q, r, u>>
    BY ONLY <2>1
  <2> HIDE DEF b
  <2> QED
    BY ONLY <2>2, <2>3, <2>4
<1>7. c \in Seq(R) /\ ~ Calls(c, "protocol") /\ ~ Calls(c, "totlen")
  <2>1. /\ << <<"acknum", n>> >> \in Seq(R) /\ ~ Calls(<< <<"acknum", n>> >>, "protocol")
        /\ ~ Calls(<< <<"acknum", n>> >>, "totlen")
    BY ONLY <1>4, One
  <2>2. <<>> \in Seq(R) /\ ~ Calls(<<>>, "protocol") /\ ~ Calls(<<>>, "totlen")
    BY DEF Calls
  <2> QED
    BY ONLY <2>1, <2>2, Zenon
<1>8. /\ d \in Seq(R) /\ ~ Calls(d, "protocol") /\ ~ Calls(d, "totlen")
      /\ d # <<>> /\ d[Len(d)][1] = "winsize"
  <2>1. /\ d \in Seq(R) /\ ~ Calls(d, "protocol") /\ ~ Calls(d, "totlen")
        /\ Len(d) = 2 /\ d[2] = <<"winsize", 14600>> /\ d # <<>>
    BY ONLY <1>4, Two
  <2> HIDE DEF d
  <2> QED
    BY ONLY <2>1
<1>9. Segment(flags, to, port, n, data) = a \o b \o c \o d /\ m + 40 = 40 + m
  BY DEF Segment
<1> HIDE DEF a, b, c, d
<1>10. /\ a \o b \in Seq(R) /\ Calls(a \o b, "tcphlen")
       /\ LastCall(a \o b, "protocol", 6) /\ LastCall(a \o b, "totlen", m + 40)
  <2>1. a \o b \in Seq(R)
    BY ONLY <1>5, <1>6
  <2> QED
    BY ONLY <1>5, <1>6, <2>1, CallsRightOf, LastCallLeft
<1>11. /\ a \o b \o c \in Seq(R) /\ Calls(a \o b \o c, "tcphlen")
       /\ LastCall(a \o b \o c, "protocol", 6) /\ LastCall(a \o b \o c, "totlen", m + 40)
  <2>1. a \o b \o c \in Seq(R)
    BY ONLY <1>7, <1>10
  <2> QED
    BY ONLY <1>7, <1>10, <2>1, CallsLeft, LastCallLeft
<1>12. /\ a \o b \o c \o d \in Seq(R) /\ Calls(a \o b \o c \o d, "tcphlen")
       /\ LastCall(a \o b \o c \o d, "protocol", 6) /\ LastCall(a \o b \o c \o d, "totlen", m + 40)
       /\ a \o b \o c \o d # <<>> /\ (a \o b \o c \o d)[Len(a \o b \o c \o d)] = d[Len(d)]
  BY ONLY <1>8, <1>11, CallsLeft, LastCallLeft, JoinLast
<1> DEFINE s == a \o b \o c \o d
<1>13. s[Len(s)][1] = "winsize"
  BY ONLY <1>8, <1>12
<1>14. "winsize" \notin IPSet \cup {"payload"}
  BY DEF IPSet, IPNames
<1>15. 6 # 17 /\ 6 # 1
  OBVIOUS
<1> HIDE DEF s
<1>16. /\ s \in Seq(R) /\ Calls(s, "tcphlen") /\ LastCall(s, "protocol", 6)
       /\ LastCall(s, "totlen", 40 + m) /\ s # <<>>
  BY ONLY <1>9, <1>12, Zenon DEF s
<1>17. Planned(s, 6, m)
  BY ONLY <1>13, <1>14, <1>15, <1>16 DEF R, Planned
<1> QED
  BY ONLY <1>9, <1>17, Zenon DEF s

\* those for a datagram (udp_module.cc) are,
LEMMA DatagramPlanned ==
  ASSUME NEW to \in [1..4 -> Byte], NEW port \in Word, NEW data, NEW m \in Nat, m = Len(data),
         m <= 65507, NEW me \in [1..4 -> Byte], me = Me
  PROVE  Planned(Datagram(to, port, data), 17, m)
<1> DEFINE R == RightCalls(17, m)
           V == Nat \cup Seq(Byte)
           a == ToHost(17, me, to, m + 28)
           b == << <<"srcport", port>>, <<"destport", port>>, <<"length", 8 + m>> >>
<1>1. port \in Nat /\ port <= 65535
  BY ONLY port \in Word, WordIs
<1>2. UDPCall(m, "srcport", port) /\ UDPCall(m, "destport", port) /\ UDPCall(m, "length", 8 + m)
  <2>1. m <= 65527
    OBVIOUS
  <2> QED
    BY ONLY <1>1, <2>1, UDPCalls, m \in Nat
<1>3. /\ \A f : \A v \in V : UDPCall(m, f, v) => <<f, v>> \in R
      /\ port \in V /\ 8 + m \in V
  <2>1. \A k \in Nat : k \in V
    OBVIOUS
  <2>2. 8 + m \in Nat
    OBVIOUS
  <2>3. \A f : \A v \in V : UDPCall(m, f, v) => <<f, v>> \in R
    BY ONLY UDPCallIn
  <2> HIDE DEF V
  <2> QED
    BY ONLY <1>1, <2>1, <2>2, <2>3
<1> HIDE DEF R, V
<1>4. <<"srcport", port>> \in R /\ <<"destport", port>> \in R /\ <<"length", 8 + m>> \in R
  BY ONLY <1>2, <1>3
<1>5. a \in Seq(R) /\ LastCall(a, "protocol", 17) /\ LastCall(a, "totlen", m + 28)
  <2>1. 17 \in {6, 17} /\ m + 28 \in Nat /\ m + 28 <= 65535
    OBVIOUS
  <2> QED
    BY ONLY <2>1, ToHostCalls, to \in [1..4 -> Byte], me \in [1..4 -> Byte] DEF R
<1>6. /\ b \in Seq(R) /\ Calls(b, "length") /\ ~ Calls(b, "protocol")
      /\ b # <<>> /\ b[Len(b)][1] = "length"
  <2>1. PICK p \in R, q \in R, r \in R :
          p = <<"srcport", port>> /\ q = <<"destport", port>> /\ r = <<"length", 8 + m>>
    BY ONLY <1>4
  <2>2. /\ <<p, q, r>> \in Seq(R) /\ Len(<<p, q, r>>) = 3 /\ <<p, q, r>>[3] = r
        /\ <<p, q, r>> # <<>>
        /\ \A f : Calls(<<p, q, r>>, f) <=> f = p[1] \/ f = q[1] \/ f = r[1]
    BY ONLY Three, p \in R, q \in R, r \in R
  <2>3. p[1] = "srcport" /\ q[1] = "destport" /\ r[1] = "length"
    BY ONLY <2>1
  <2>4. b = <<p, q, r>>
    BY ONLY <2>1
  <2> HIDE DEF b
  <2> QED
    BY ONLY <2>2, <2>3, <2>4
<1>7. Datagram(to, port, data) = a \o b
  BY DEF Datagram
<1> HIDE DEF a, b
<1> DEFINE s == a \o b
<1>8. /\ s \in Seq(R) /\ Calls(s, "length") /\ LastCall(s, "protocol", 17)
      /\ s # <<>> /\ s[Len(s)][1] = "length"
  BY ONLY <1>5, <1>6, CallsRightOf, LastCallLeft, JoinLast
<1>9. "length" \notin IPSet \cup {"payload"}
  BY DEF IPSet, IPNames
<1>10. 17 # 6 /\ 17 # 1
  OBVIOUS
<1> HIDE DEF s
<1>11. Planned(s, 17, m)
  BY ONLY <1>8, <1>9, <1>10 DEF R, Planned
<1> QED
  BY ONLY <1>7, <1>11, Zenon DEF s

\* and those for an ICMP message (icmp.cc).
LEMMA MessagePlanned ==
  ASSUME NEW type \in {3, 8, 11, 17}, NEW code \in {0, 3}, NEW to \in [1..4 -> Byte],
         NEW data \in Seq(Byte), Len(data) >= 20, Len(data) <= 56, NEW m, NEW me \in [1..4 -> Byte],
         me = Me
  PROVE  Planned(Message(type, code, to, data), 1, m)
<1> DEFINE R == RightCalls(1, m)
           V == Nat \cup Seq(Byte)
           a == << <<"tos", 0>>, <<"totlen", 48>>, <<"protocol", 1>>, <<"source", me>>,
                   <<"dest", to>>,
                   <<"type", type>> >>
           b == << <<"payload", data>>, <<"code", code>>, <<"identifier", 0>>, <<"seqnumber", 0>> >>
<1>1. me \in Seq(Byte) /\ to \in Seq(Byte)
  <2>1. 4 \in Nat
    OBVIOUS
  <2> QED
    BY ONLY <2>1, BytesAre, me \in [1..4 -> Byte], to \in [1..4 -> Byte]
<1>2. /\ IPCall("tos", 0) /\ IPCall("totlen", 48) /\ IPCall("protocol", 1)
      /\ IPCall("source", me) /\ IPCall("dest", to)
  <2>1. 48 \in Nat /\ 48 <= 65535
    OBVIOUS
  <2> QED
    BY ONLY <2>1, IPCalls, me \in [1..4 -> Byte], to \in [1..4 -> Byte]
<1>3. /\ ICMPCall("type", type) /\ ICMPCall("code", code) /\ ICMPCall("identifier", 0)
      /\ ICMPCall("seqnumber", 0) /\ ICMPCall("payload", data)
  BY ICMPCalls
<1>4. /\ \A f : \A v \in V : IPCall(f, v) => <<f, v>> \in R
      /\ \A f : \A v \in V : ICMPCall(f, v) => <<f, v>> \in R
      /\ 0 \in V /\ 1 \in V /\ 48 \in V /\ me \in V /\ to \in V /\ type \in V /\ code \in V
      /\ data \in V
  <2>1. (\A k \in Nat : k \in V) /\ (\A k \in Seq(Byte) : k \in V)
    OBVIOUS
  <2>2. 0 \in Nat /\ 1 \in Nat /\ 48 \in Nat /\ type \in Nat /\ code \in Nat
    OBVIOUS
  <2>3. \A f : \A v \in V : IPCall(f, v) => <<f, v>> \in R
    BY ONLY IPCallIn
  <2>4. \A f : \A v \in V : ICMPCall(f, v) => <<f, v>> \in R
    BY ONLY ICMPCallIn
  <2> HIDE DEF V
  <2> QED
    BY ONLY <1>1, <2>1, <2>2, <2>3, <2>4, data \in Seq(Byte)
<1> HIDE DEF R, V
<1>5. /\ <<"tos", 0>> \in R /\ <<"totlen", 48>> \in R /\ <<"protocol", 1>> \in R
      /\ <<"source", me>> \in R /\ <<"dest", to>> \in R /\ <<"type", type>> \in R
      /\ <<"payload", data>> \in R /\ <<"code", code>> \in R
      /\ <<"identifier", 0>> \in R /\ <<"seqnumber", 0>> \in R
  BY ONLY <1>2, <1>3, <1>4
<1>6. a \in Seq(R) /\ LastCall(a, "protocol", 1) /\ Calls(a, "type")
  <2>1. PICK c \in R, d \in R, e \in R, f \in R, g \in R, h \in R :
          /\ c = <<"tos", 0>> /\ d = <<"totlen", 48>> /\ e = <<"protocol", 1>>
          /\ f = <<"source", me>> /\ g = <<"dest", to>> /\ h = <<"type", type>>
    BY ONLY <1>5
  <2>2. /\ <<c, d, e, f, g, h>> \in Seq(R) /\ Len(<<c, d, e, f, g, h>>) = 6
        /\ <<c, d, e, f, g, h>>[3] = e /\ <<c, d, e, f, g, h>>[4] = f
        /\ <<c, d, e, f, g, h>>[5] = g /\ <<c, d, e, f, g, h>>[6] = h
    BY ONLY Six, c \in R, d \in R, e \in R, f \in R, g \in R, h \in R
  <2>3. e[1] = "protocol" /\ e[2] = 1 /\ f[1] = "source" /\ g[1] = "dest" /\ h[1] = "type"
    BY ONLY <2>1
  <2>4. a = <<c, d, e, f, g, h>>
    BY ONLY <2>1
  <2> HIDE DEF a
  <2>5. a \in Seq(R) /\ Len(a) = 6 /\ a[3] = e /\ a[4] = f /\ a[5] = g /\ a[6] = h
    BY ONLY <2>2, <2>4, Zenon
  <2>6. 3 \in 1..Len(a) /\ \A j \in (3 + 1)..Len(a) : a[j][1] # "protocol"
    <3>1. ASSUME NEW j \in (3 + 1)..Len(a)
          PROVE  j = 4 \/ j = 5 \/ j = 6
      BY ONLY <2>5, <3>1
    <3>2. 3 \in 1..Len(a)
      BY ONLY <2>5
    <3> QED
      BY ONLY <2>3, <2>5, <3>1, <3>2
  <2>7. a[3][1] = "protocol" /\ a[3][2] = 1 /\ a[6][1] = "type"
    BY ONLY <2>3, <2>5
  <2>8. 6 \in 1..Len(a)
    BY ONLY <2>5
  <2> QED
    BY ONLY <2>5, <2>6, <2>7, <2>8, Zenon DEF LastCall, Calls
<1>7. /\ b \in Seq(R) /\ Calls(b, "seqnumber") /\ Calls(b, "payload") /\ ~ Calls(b, "protocol")
      /\ b # <<>> /\ b[Len(b)][1] = "seqnumber"
  <2>1. PICK p \in R, q \in R, r \in R, u \in R :
          /\ p = <<"payload", data>> /\ q = <<"code", code>>
          /\ r = <<"identifier", 0>> /\ u = <<"seqnumber", 0>>
    BY ONLY <1>5
  <2>2. /\ <<p, q, r, u>> \in Seq(R) /\ Len(<<p, q, r, u>>) = 4 /\ <<p, q, r, u>>[4] = u
        /\ <<p, q, r, u>> # <<>>
        /\ \A f : Calls(<<p, q, r, u>>, f) <=> f = p[1] \/ f = q[1] \/ f = r[1] \/ f = u[1]
    BY ONLY Quadruple, p \in R, q \in R, r \in R, u \in R
  <2>3. p[1] = "payload" /\ q[1] = "code" /\ r[1] = "identifier" /\ u[1] = "seqnumber"
    BY ONLY <2>1
  <2>4. b = <<p, q, r, u>>
    BY ONLY <2>1
  <2> HIDE DEF b
  <2> QED
    BY ONLY <2>2, <2>3, <2>4
<1>8. Message(type, code, to, data) = a \o b
  <2>1. type # 12
    OBVIOUS
  <2>2. a \o <<>> = a
    BY ONLY <1>6
  <2> QED
    BY <2>1, <2>2, Zenon DEF Message
<1> HIDE DEF a, b
<1> DEFINE s == a \o b
<1>9. /\ s \in Seq(R) /\ Calls(s, "type") /\ Calls(s, "payload") /\ Calls(s, "seqnumber")
      /\ LastCall(s, "protocol", 1) /\ s # <<>> /\ s[Len(s)][1] = "seqnumber"
  BY ONLY <1>6, <1>7, CallsLeft, CallsRightOf, LastCallLeft, JoinLast
<1>10. "seqnumber" \notin IPSet \cup {"payload"}
  BY DEF IPSet, IPNames
<1>11. 1 # 6 /\ 1 # 17
  OBVIOUS
<1> HIDE DEF s
<1>12. Planned(s, 1, m)
  BY ONLY <1>9, <1>10, <1>11 DEF R, Planned
<1> QED
  BY ONLY <1>8, <1>12, Zenon DEF s

\* What an ICMP error quotes is of the length of a header and at most eight bytes more.
LEMMA OffenderLength ==
  ASSUME NEW header \in [1..20 -> Byte], NEW data \in Seq(Byte)
  PROVE  /\ Offender(header, data) \in Seq(Byte)
         /\ Len(Offender(header, data)) >= 20 /\ Len(Offender(header, data)) <= 56
<1>1. header \in Seq(Byte) /\ Len(header) = 20
  <2>1. 20 \in Nat
    OBVIOUS
  <2> QED
    BY ONLY <2>1, BytesAre, header \in [1..20 -> Byte]
<1>2. PICK n \in Nat : n = Len(data)
  OBVIOUS
<1>3. PICK m \in Nat : m = Least(8, n) /\ m <= n /\ m <= 8
  BY DEF Least
<1>4. SubSeq(data, 1, m) \in Seq(Byte) /\ Len(SubSeq(data, 1, m)) = m
  BY <1>2, <1>3
<1>5. Offender(header, data) = header \o SubSeq(data, 1, m)
  BY ONLY <1>2, <1>3, Zenon DEF Offender, ExtractFront
<1>6. /\ header \o SubSeq(data, 1, m) \in Seq(Byte)
      /\ Len(header \o SubSeq(data, 1, m)) = 20 + m
  <2>1. PICK t \in Seq(Byte) : t = SubSeq(data, 1, m) /\ Len(t) = m
    BY ONLY <1>4, Zenon
  <2>2. header \o t \in Seq(Byte) /\ Len(header \o t) = 20 + m
    BY ONLY <1>1, <2>1, t \in Seq(Byte), BytesOfBoth
  <2> QED
    BY ONLY <2>1, <2>2, Zenon
<1>7. 20 + m >= 20 /\ 20 + m <= 56
  BY ONLY <1>3, m \in Nat
<1> QED
  BY ONLY <1>5, <1>6, <1>7

\* Zeros are bytes.
LEMMA ZerosBytes ==
  ASSUME NEW n \in Nat
  PROVE  Zeros(n) \in Seq(Byte) /\ Len(Zeros(n)) = n
<1>1. 0 \in Byte
  BY ByteIs
<1>2. Zeros(n) \in [1..n -> Byte]
  BY ONLY <1>1 DEF Zeros
<1> QED
  BY ONLY <1>2, BytesAre, n \in Nat

\* Every packet that is built of setters that keep each other's fields is planned.
PlannedBuild(b) ==
  /\ b.proto \in {1, 6, 17} /\ b.data \in Seq(Byte)
  /\ Len(b.data) <= 65507 /\ (b.proto = 1 => Len(b.data) <= 56)
  /\ Planned(b.calls, b.proto, Len(b.data))

\* So is everything of BuiltRight.
LEMMA BuildsPlanned ==
  ASSUME NEW k \in BuiltRight, NEW to \in Hosts, NEW port \in Ports, NEW n \in Numbers,
         NEW data \in Datas, NEW header \in Headers, NEW b,
         b = Builds(to, port, n, data, header)[k],
         Len(b.data) <= MaxData(b.proto)
  PROVE  PlannedBuild(b)
<1>1. /\ to \in [1..4 -> Byte] /\ n \in [1..4 -> Byte] /\ Me \in [1..4 -> Byte] /\ port \in Word
      /\ data \in Seq(Byte) /\ header \in [1..20 -> Byte]
  BY AddressAssumption, ShortAssumption, DataAssumption, HeaderAssumption
<1>2. <<>> \in Seq(Byte) /\ Len(<<>>) = 0 /\ 0 <= 536 /\ 0 \in Nat
  OBVIOUS
<1>3. ASSUME NEW flags \in {1, 2, 16, 17, 18}, NEW d \in Seq(Byte), Len(d) <= 536,
             b = [proto |-> 6, data |-> d, calls |-> Segment(flags, to, port, n, d)]
      PROVE  PlannedBuild(b)
  <2>1. PICK m \in Nat : m = Len(d) /\ m <= 536 /\ m <= 65507
    BY <1>3
  <2>2. Planned(Segment(flags, to, port, n, d), 6, m)
    BY ONLY <1>1, <2>1, flags \in {1, 2, 16, 17, 18}, SegmentPlanned
  <2>3. b.proto = 6 /\ b.data = d /\ b.calls = Segment(flags, to, port, n, d)
    BY <1>3
  <2> QED
    BY ONLY <2>1, <2>2, <2>3, d \in Seq(Byte) DEF PlannedBuild
<1>4. ASSUME b = [proto |-> 17, data |-> data, calls |-> Datagram(to, port, data)]
      PROVE  PlannedBuild(b)
  <2>1. b.proto = 17 /\ b.data = data /\ b.calls = Datagram(to, port, data)
    BY <1>4
  <2>2. PICK m \in Nat : m = Len(data) /\ m <= 65507
    <3>1. Len(data) \in Nat
      BY ONLY <1>1
    <3>2. Len(data) <= 65507
      BY ONLY <2>1, Len(b.data) <= MaxData(b.proto) DEF MaxData
    <3> QED
      BY ONLY <3>1, <3>2
  <2>3. Planned(Datagram(to, port, data), 17, m)
    BY ONLY <1>1, <2>2, DatagramPlanned
  <2> QED
    BY ONLY <1>1, <2>1, <2>2, <2>3 DEF PlannedBuild
<1>5. ASSUME NEW type \in {3, 8, 11, 17}, NEW code \in {0, 3}, NEW dest \in [1..4 -> Byte],
             NEW d \in Seq(Byte), Len(d) >= 20, Len(d) <= 56,
             b = [proto |-> 1, data |-> <<>>, calls |-> Message(type, code, dest, d)]
      PROVE  PlannedBuild(b)
  <2>1. b.proto = 1 /\ b.data = <<>> /\ b.calls = Message(type, code, dest, d)
    BY <1>5
  <2>2. Planned(Message(type, code, dest, d), 1, 0)
    BY ONLY <1>1, <1>5, type \in {3, 8, 11, 17}, code \in {0, 3}, dest \in [1..4 -> Byte],
            d \in Seq(Byte), MessagePlanned
  <2> QED
    BY ONLY <1>2, <2>1, <2>2 DEF PlannedBuild
<1>6. CASE k \in {"syn", "synack", "ack", "fin", "finack"}
  <2>1. \E flags \in {1, 2, 16, 17, 18}, d \in {<<>>, data} :
          b = [proto |-> 6, data |-> d, calls |-> Segment(flags, to, port, n, d)]
    BY <1>6 DEF Builds, SYN, ACK, FIN
  <2>2. PICK flags \in {1, 2, 16, 17, 18}, d \in {<<>>, data} :
          b = [proto |-> 6, data |-> d, calls |-> Segment(flags, to, port, n, d)]
    BY <2>1
  <2>3. d \in Seq(Byte) /\ Len(d) <= 536
    <3>1. b.proto = 6 /\ b.data = d
      BY <2>2
    <3>2. d \in Seq(Byte)
      BY ONLY <1>1, <1>2, d \in {<<>>, data}, Zenon
    <3>3. MaxData(6) = 536
      BY DEF MaxData
    <3>4. Len(b.data) <= MaxData(b.proto)
      OBVIOUS
    <3>5. Len(d) <= 536
      BY ONLY <3>1, <3>3, <3>4
    <3> QED
      BY ONLY <3>2, <3>5
  <2> QED
    BY <1>3, <2>2, <2>3
<1>7. CASE k = "udp"
  BY <1>4, <1>7 DEF Builds
<1>8. CASE k \in {"echo", "mask"}
  <2>1. Zeros(56) \in Seq(Byte) /\ Len(Zeros(56)) >= 20 /\ Len(Zeros(56)) <= 56
    BY ZerosBytes
  <2>2. Broadcast \in [1..4 -> Byte]
    BY ByteIs DEF Broadcast
  <2>3. \/ b = [proto |-> 1, data |-> <<>>, calls |-> Message(8, 0, to, Zeros(56))]
        \/ b = [proto |-> 1, data |-> <<>>, calls |-> Message(17, 0, Broadcast, Zeros(56))]
    BY <1>8 DEF Builds
  <2> QED
    BY <1>1, <1>5, <2>1, <2>2, <2>3
<1>9. CASE k \in {"unreachable", "exceeded"}
  <2>1. /\ Offender(header, data) \in Seq(Byte)
        /\ Len(Offender(header, data)) >= 20 /\ Len(Offender(header, data)) <= 56
    BY <1>1, OffenderLength
  <2>2. \/ b = [proto |-> 1, data |-> <<>>, calls |-> Message(3, 3, to, Offender(header, data))]
        \/ b = [proto |-> 1, data |-> <<>>, calls |-> Message(11, 0, to, Offender(header, data))]
    BY <1>9 DEF Builds
  <2> QED
    BY <1>1, <1>5, <2>1, <2>2
<1> QED
  BY <1>6, <1>7, <1>8, <1>9 DEF BuiltRight

\* The calls of the constructor and those after them.
PlannedWhole(s, proto, n) ==
  /\ s \in Seq(RightCalls(proto, n)) /\ s # <<>> /\ s[Len(s)][1] \notin IPSet \cup {"payload"}
  /\ Calls(s, "hlen") /\ Calls(s, "dest") /\ LastCall(s, "protocol", proto)
  /\ proto = 6 => Calls(s, "tcphlen") /\ LastCall(s, "totlen", 40 + n)
  /\ proto = 17 => Calls(s, "length")
  /\ proto = 1 => Calls(s, "type") /\ Calls(s, "payload") /\ Calls(s, "seqnumber")

\* After the calls of the constructor of the IP header they are planned still.
LEMMA PlannedJoin ==
  ASSUME NEW proto, NEW n, NEW id \in Word, NEW c, Planned(c, proto, n)
  PROVE  PlannedWhole(IPDefaults(id) \o c, proto, n)
<1> DEFINE R == RightCalls(proto, n)
           d == IPDefaults(id)
<1>1. d \in Seq(R) /\ Calls(d, "hlen") /\ Calls(d, "dest")
  BY DefaultCalls
<1>2. /\ c \in Seq(R) /\ c # <<>> /\ c[Len(c)][1] \notin IPSet \cup {"payload"}
      /\ LastCall(c, "protocol", proto)
      /\ proto = 6 => Calls(c, "tcphlen") /\ LastCall(c, "totlen", 40 + n)
      /\ proto = 17 => Calls(c, "length")
      /\ proto = 1 => Calls(c, "type") /\ Calls(c, "payload") /\ Calls(c, "seqnumber")
  BY DEF Planned
<1> HIDE DEF R, d
<1>3. d \o c \in Seq(R) /\ d \o c # <<>> /\ (d \o c)[Len(d \o c)] = c[Len(c)]
  BY ONLY <1>1, <1>2, JoinLast
<1>4. Calls(d \o c, "hlen") /\ Calls(d \o c, "dest")
  BY ONLY <1>1, <1>2, CallsLeft
<1>5. (\A f : Calls(c, f) => Calls(d \o c, f))
      /\ \A f, v : LastCall(c, f, v) => LastCall(d \o c, f, v)
  BY ONLY <1>1, <1>2, CallsRightOf, LastCallRight
<1> DEFINE s == d \o c
<1>6. s[Len(s)] = c[Len(c)]
  BY ONLY <1>3
<1> HIDE DEF s
<1>7. /\ s \in Seq(R) /\ s # <<>> /\ Calls(s, "hlen") /\ Calls(s, "dest")
      /\ (\A f : Calls(c, f) => Calls(s, f)) /\ \A f, v : LastCall(c, f, v) => LastCall(s, f, v)
  BY ONLY <1>3, <1>4, <1>5 DEF s
<1>8. PlannedWhole(s, proto, n)
  BY ONLY <1>2, <1>6, <1>7 DEF PlannedWhole, R
<1> QED
  BY ONLY <1>8 DEF s, d

\* The invariant holds when a packet is begun.
LEMMA InitRight ==
  ASSUME Kinds \subseteq BuiltRight, Init
  PROVE  WireInv
<1> DEFINE Start(b, k, id) ==
             /\ Len(b.data) <= MaxData(b.proto)
             /\ kind = [proto |-> b.proto, name |-> k]
             /\ todo = IPDefaults(id) \o b.calls /\ payload = b.data
             /\ ip = <<>> /\ tr = <<>> /\ set = <<>>
             /\ frame = Nothing /\ got = Nothing
<1>1. PICK k \in Kinds, to \in Hosts, port \in Ports, n \in Numbers, id \in Ids, data \in Datas,
           header \in Headers : Start(Builds(to, port, n, data, header)[k], k, id)
  BY Zenon DEF Init
<1> HIDE DEF Start
<1>2. PICK b : b = Builds(to, port, n, data, header)[k] /\ Start(b, k, id)
  BY <1>1, Zenon
<1>3. /\ b = Builds(to, port, n, data, header)[k]
      /\ Len(b.data) <= MaxData(b.proto)
      /\ kind = [proto |-> b.proto, name |-> k]
      /\ todo = IPDefaults(id) \o b.calls /\ payload = b.data
      /\ ip = <<>> /\ tr = <<>> /\ set = <<>>
      /\ frame = Nothing /\ got = Nothing
  BY ONLY <1>2, Zenon DEF Start
<1>4. PlannedBuild(b)
  <2>1. k \in BuiltRight
    OBVIOUS
  <2>2. b = Builds(to, port, n, data, header)[k] /\ Len(b.data) <= MaxData(b.proto)
    BY <1>3
  <2> QED
    BY ONLY <2>1, <2>2, to \in Hosts, port \in Ports, n \in Numbers, data \in Datas,
            header \in Headers, BuildsPlanned
<1>5. kind.proto = b.proto
  BY <1>3
<1>6. id \in Word
  BY ShortAssumption
<1>7. PlannedWhole(todo, kind.proto, Len(payload))
  <2>1. todo = IPDefaults(id) \o b.calls /\ payload = b.data
    BY <1>3
  <2>2. Planned(b.calls, b.proto, Len(b.data))
    BY <1>4 DEF PlannedBuild
  <2>3. PlannedWhole(IPDefaults(id) \o b.calls, b.proto, Len(b.data))
    BY ONLY <1>6, <2>2, PlannedJoin
  <2> QED
    BY ONLY <1>5, <2>1, <2>3
<1>8. ip = <<>> /\ tr = <<>> /\ set = <<>> /\ DOMAIN set = {} /\ frame = Nothing /\ got = Nothing
  BY <1>3
<1>9. BuffersRight
  <2>1. <<>> \in Seq(Byte)
    OBVIOUS
  <2> QED
    BY <1>3, <1>4, <1>5, <1>8, <2>1 DEF BuffersRight, PlannedBuild
<1>10. CallsRight
  BY ONLY <1>7, Zenon DEF PlannedWhole, CallsRight, Required, Due
<1>11. FieldsRight
  BY <1>8 DEF FieldsRight
<1>12. LengthsRight
  <2>1. Len(ip) = 0 /\ Len(tr) = 0
    BY <1>8
  <2> QED
    BY ONLY <1>8, <2>1 DEF LengthsRight
<1>13. SumsRight
  BY ONLY <1>7, <1>8 DEF SumsRight, PlannedWhole
<1>14. FrameRight
  BY ONLY <1>8 DEF FrameRight
<1> QED
  BY <1>9, <1>10, <1>11, <1>12, <1>13, <1>14 DEF WireInv

-----------------------------------------------------------------------------
(* A setter.                                                               *)

\* What a call does to the buffers.
IPEffect(f, v)  == IPCall(f, v) /\ ip' = SetIP(ip, f, v) /\ tr' = tr /\ payload' = payload
TCPEffect(f, v) ==
  /\ kind.proto = 6 /\ TCPCall(f, v)
  /\ tr' = TCPRecompute(Put(TCPFields, tr, f, v), ip, payload) /\ ip' = ip /\ payload' = payload
UDPEffect(f, v) ==
  /\ kind.proto = 17 /\ UDPCall(Len(payload), f, v)
  /\ tr' = UDPRecompute(Put(UDPFields, tr, f, v), ip, payload) /\ ip' = ip /\ payload' = payload
ICMPEffect(f, v) ==
  /\ kind.proto = 1 /\ f \in ICMPSet /\ Fits(ICMPFields[f], v) /\ (f = "type" => v # 13)
  /\ tr' = ICMPRecompute(Put(ICMPFields, tr, f, v), payload) /\ ip' = ip /\ payload' = payload
PayloadEffect(f, v) ==
  /\ kind.proto = 1 /\ f = "payload" /\ v \in Seq(Byte) /\ Len(v) >= 20 /\ Len(v) <= 56
  /\ payload' = v /\ ip' = ip /\ tr' = tr
MaskEffect(f, v) ==
  /\ kind.proto = 1 /\ f = "addressmask" /\ v \in Seq(Byte) /\ Len(v) = 4
  /\ payload' = SetData(payload, v, 0) /\ tr' = ICMPRecompute(tr, payload') /\ ip' = ip

Effect(f, v) ==
  \/ IPEffect(f, v) \/ TCPEffect(f, v) \/ UDPEffect(f, v) \/ ICMPEffect(f, v)
  \/ PayloadEffect(f, v) \/ MaskEffect(f, v)

\* The fields of one header are not in another.
LEMMA OtherNames ==
  /\ DOMAIN IPFields = IPNames /\ IPSet \subseteq IPNames
  /\ \A f \in TCPSet \cup UDPSet \cup ICMPSet :
       f \notin IPNames \cup {"payload", "addressmask", "originate"}
  /\ "payload" \notin IPNames /\ "addressmask" \notin IPNames /\ "originate" \notin IPNames
<1>1. DOMAIN IPFields = IPNames
  BY IPLayout
<1> QED
  BY <1>1 DEF IPNames, IPSet, TCPNames, TCPSet, UDPNames, UDPSet, ICMPNames, ICMPSet

\* Set is a right call, and has its effect.
LEMMA SetEffect ==
  ASSUME BuffersRight, CallsRight, Set, NEW f, NEW v, f = Head(todo)[1], v = Head(todo)[2]
  PROVE  /\ todo # <<>> /\ todo' = Tail(todo) /\ kind' = kind /\ frame' = frame /\ got' = got
         /\ Called(set, f, v, set') /\ RightCall(kind.proto, Len(payload), f, v)
         /\ Effect(f, v)
<1>1. /\ todo # <<>> /\ todo' = Tail(todo) /\ kind' = kind /\ frame' = frame /\ got' = got
      /\ set' = [g \in DOMAIN set \cup {f} |-> IF g = f THEN v ELSE set[g]]
      /\ \/ f \in DOMAIN IPFields /\ ip' = SetIP(ip, f, v) /\ tr' = tr /\ payload' = payload
         \/ f = "payload" /\ payload' = v /\ ip' = ip /\ tr' = tr
         \/ /\ f \notin DOMAIN IPFields \cup {"payload", "addressmask", "originate"}
            /\ tr' = SetTransport(tr, f, v) /\ ip' = ip /\ payload' = payload
         \/ /\ f \in {"addressmask", "originate"}
            /\ payload' = SetData(payload, v, 0)
            /\ tr' = IF f = "addressmask" THEN ICMPRecompute(tr, payload') ELSE tr
            /\ ip' = ip
  BY DEF Set
<1>2. Called(set, f, v, set')
  BY <1>1 DEF Called
<1>3. RightCall(kind.proto, Len(payload), f, v)
  <2> DEFINE R == RightCalls(kind.proto, Len(payload))
  <2>1. todo \in Seq(R)
    BY DEF CallsRight
  <2> HIDE DEF R
  <2>2. Head(todo) \in R
    BY <1>1, <2>1, TailLast
  <2> QED
    BY <2>2 DEF R, RightCalls
<1>4. ASSUME IPCall(f, v)
      PROVE  Effect(f, v)
  <2>1. f \in IPNames
    BY <1>4, Zenon DEF IPCall, IPSet
  <2>2. ip' = SetIP(ip, f, v) /\ tr' = tr /\ payload' = payload
    BY <1>1, <2>1, OtherNames
  <2> QED
    BY <1>4, <2>2 DEF IPEffect, Effect
<1>5. ASSUME kind.proto = 6 /\ TCPCall(f, v)
      PROVE  Effect(f, v)
  <2>1. f \in TCPSet
    BY <1>5 DEF TCPCall
  <2>2. tr' = SetTransport(tr, f, v) /\ ip' = ip /\ payload' = payload
    BY <1>1, <2>1, OtherNames
  <2>3. SetTransport(tr, f, v) = TCPRecompute(Put(TCPFields, tr, f, v), ip, payload)
    BY <1>5 DEF SetTransport
  <2> QED
    BY <1>5, <2>2, <2>3 DEF TCPEffect, Effect
<1>6. ASSUME kind.proto = 17 /\ UDPCall(Len(payload), f, v)
      PROVE  Effect(f, v)
  <2>1. f \in UDPSet
    BY <1>6 DEF UDPCall
  <2>2. tr' = SetTransport(tr, f, v) /\ ip' = ip /\ payload' = payload
    BY <1>1, <2>1, OtherNames
  <2>3. SetTransport(tr, f, v) = UDPRecompute(Put(UDPFields, tr, f, v), ip, payload)
    BY <1>6 DEF SetTransport
  <2> QED
    BY <1>6, <2>2, <2>3 DEF UDPEffect, Effect
<1>7. ASSUME kind.proto = 1 /\ ICMPCall(f, v)
      PROVE  Effect(f, v)
  <2>1. CASE f \in ICMPSet /\ Fits(ICMPFields[f], v) /\ (f = "type" => v # 13)
    <3>1. tr' = SetTransport(tr, f, v) /\ ip' = ip /\ payload' = payload
      BY <1>1, <2>1, OtherNames
    <3>2. SetTransport(tr, f, v) = ICMPRecompute(Put(ICMPFields, tr, f, v), payload)
      BY <1>7 DEF SetTransport
    <3> QED
      BY <1>7, <2>1, <3>1, <3>2 DEF ICMPEffect, Effect
  <2>2. CASE f = "payload" /\ v \in Seq(Byte) /\ Len(v) >= 20 /\ Len(v) <= 56
    <3>1. payload' = v /\ ip' = ip /\ tr' = tr
      BY <1>1, <2>2, OtherNames
    <3> QED
      BY <1>7, <2>2, <3>1 DEF PayloadEffect, Effect
  <2>3. CASE f = "addressmask" /\ v \in Seq(Byte) /\ Len(v) = 4
    <3>1. payload' = SetData(payload, v, 0) /\ tr' = ICMPRecompute(tr, payload') /\ ip' = ip
      BY <1>1, <2>3, OtherNames
    <3> QED
      BY <1>7, <2>3, <3>1 DEF MaskEffect, Effect
  <2> QED
    BY <1>7, <2>1, <2>2, <2>3 DEF ICMPCall
<1>8. Effect(f, v)
  BY <1>3, <1>4, <1>5, <1>6, <1>7 DEF RightCall
<1> QED
  BY <1>1, <1>2, <1>3, <1>8

\* The calls to come stay as they must be.
LEMMA SetCalls ==
  ASSUME CallsRight, todo # <<>>, todo' = Tail(todo), kind' = kind,
         Called(set, Head(todo)[1], Head(todo)[2], set'),
         kind.proto = 1 \/ Len(payload') = Len(payload)
  PROVE  CallsRight'
<1> DEFINE R == RightCalls(kind.proto, Len(payload))
<1>1. RightCalls(kind'.proto, Len(payload')) = R
  <2>1. CASE kind.proto = 1
    <3>1. 1 # 17
      OBVIOUS
    <3>2. \A f, v : RightCall(1, Len(payload'), f, v) <=> RightCall(1, Len(payload), f, v)
      BY ONLY <3>1, Zenon DEF RightCall
    <3> QED
      BY <2>1, <3>2 DEF RightCalls
  <2> QED
    BY <2>1
<1>2. todo \in Seq(R) /\ todo[Len(todo)][1] \notin IPSet \cup {"payload"}
  BY DEF CallsRight
<1> HIDE DEF R
<1>3. /\ Tail(todo) \in Seq(R)
      /\ Tail(todo) # <<>> => Tail(todo)[Len(Tail(todo))][1] \notin IPSet \cup {"payload"}
  <2>1. /\ Tail(todo) \in Seq(R)
        /\ Tail(todo) # <<>> => Tail(todo)[Len(Tail(todo))] = todo[Len(todo)]
    BY ONLY <1>2, todo # <<>>, TailLast
  <2> QED
    BY ONLY <1>2, <2>1, Zenon
<1>4. \A f : Required(todo, set, f) => Required(todo', set', f)
  BY <1>2, RequiredStays
<1>5. \A f, v : Due(todo, set, f, v) => Due(todo', set', f, v)
  BY <1>2, DueStays
<1>6. kind.proto = 6 => 40 + Len(payload') = 40 + Len(payload)
  OBVIOUS
<1>7. /\ Required(todo, set, "hlen") /\ Required(todo, set, "dest")
      /\ Due(todo, set, "protocol", kind.proto)
      /\ kind.proto = 6 => /\ Required(todo, set, "tcphlen")
                           /\ Due(todo, set, "totlen", 40 + Len(payload))
      /\ kind.proto = 17 => Required(todo, set, "length")
      /\ kind.proto = 1 => /\ Required(todo, set, "type") /\ Required(todo, set, "payload")
                           /\ Required(todo, set, "seqnumber")
  BY DEF CallsRight
<1>8. /\ Required(todo', set', "hlen") /\ Required(todo', set', "dest")
      /\ Due(todo', set', "protocol", kind'.proto)
      /\ kind'.proto = 6 => /\ Required(todo', set', "tcphlen")
                            /\ Due(todo', set', "totlen", 40 + Len(payload'))
      /\ kind'.proto = 17 => Required(todo', set', "length")
      /\ kind'.proto = 1 => /\ Required(todo', set', "type") /\ Required(todo', set', "payload")
                            /\ Required(todo', set', "seqnumber")
  BY ONLY <1>4, <1>5, <1>6, <1>7, kind' = kind
<1>9. /\ todo' \in Seq(RightCalls(kind'.proto, Len(payload')))
      /\ todo' # <<>> => todo'[Len(todo')][1] \notin IPSet \cup {"payload"}
  BY ONLY <1>1, <1>3, todo' = Tail(todo)
<1> QED
  BY ONLY <1>8, <1>9 DEF CallsRight

\* What a call must do: set its field, keep the others, and make the checksums right.
EffectRight(f, v) ==
  /\ BuffersRight'
  /\ kind.proto = 1 \/ Len(payload') = Len(payload)
  /\ Kept(kind.proto, Len(payload'), ip', tr', f, v)
  /\ \A g, w : g # f /\ Kept(kind.proto, Len(payload), ip, tr, g, w)
                 => Kept(kind.proto, Len(payload'), ip', tr', g, w)
  /\ Len(ip') <= 20 /\ (Len(ip) = 20 \/ f = "dest" => Len(ip') = 20)
  /\ kind.proto = 6 => Len(tr') <= 20 /\ (Len(tr) = 20 \/ f = "tcphlen" => Len(tr') = 20)
  /\ kind.proto = 17 => Len(tr') <= 8 /\ (Len(tr) = 8 \/ f = "length" => Len(tr') = 8)
  /\ kind.proto = 1 => Len(tr') <= 8 /\ (Len(tr) = 8 \/ f = "seqnumber" => Len(tr') = 8)
  /\ (ip' = ip /\ f # "hlen") \/ (Get(IPFields, ip', "hlen") = 5 => IPChecksumCorrect(ip'))
  /\ f \notin IPSet \cup {"payload"} =>
       /\ kind.proto = 6 /\ Get(TCPFields, tr', "tcphlen") = 5
            => TCPComputeChecksum(tr', ip', payload') = 0
       /\ kind.proto = 17 /\ ~ (Get(UDPFields, tr', "length") < 8)
            => UDPComputeChecksum(tr', ip', payload') = 0
       /\ kind.proto = 1 => ICMPComputeChecksum(tr', payload') = 0

\* A setter of the IP header does what it must,
LEMMA IPEffectRight ==
  ASSUME BuffersRight, LengthsRight, kind' = kind, NEW f, NEW v, IPEffect(f, v)
  PROVE  EffectRight(f, v)
<1>1. /\ f \in IPSet /\ Fits(IPFields[f], v) /\ (f = "hlen" => v = 5) /\ IPCall(f, v)
      /\ ip' = SetIP(ip, f, v) /\ tr' = tr /\ payload' = payload
  BY DEF IPEffect, IPCall
<1>2. ip \in Seq(Byte) /\ Len(ip) <= 20
  BY DEF BuffersRight, LengthsRight
<1>3. /\ ip' \in Seq(Byte)
      /\ Get(IPFields, ip', f) = v
      /\ \A g \in IPNames \ {"ipchecksum", f} : Get(IPFields, ip', g) = Get(IPFields, ip, g)
      /\ Len(ip) <= 20 => /\ Len(ip') <= 20
                          /\ Len(ip) = 20 \/ f = "dest" => Len(ip') = 20
      /\ Get(IPFields, ip', "hlen") = 5 => IPChecksumCorrect(ip')
  <2>1. f \in IPNames \ {"ipchecksum"}
    BY <1>1 DEF IPSet
  <2> QED
    BY ONLY <1>1, <1>2, <2>1, SetIPRight
<1>4. BuffersRight'
  BY <1>1, <1>3 DEF BuffersRight
<1>5. f \notin TCPSet /\ f \notin UDPSet /\ f \notin ICMPSet /\ f # "payload"
      /\ f # "tcphlen" /\ f # "length" /\ f # "seqnumber"
  BY <1>1 DEF IPSet, IPNames, TCPSet, TCPNames, UDPSet, UDPNames, ICMPSet, ICMPNames
<1>6. Kept(kind.proto, Len(payload'), ip', tr', f, v)
  BY <1>1, <1>3, <1>5 DEF Kept, RightCall
<1>7. ASSUME NEW g, NEW w, g # f, Kept(kind.proto, Len(payload), ip, tr, g, w)
      PROVE  Kept(kind.proto, Len(payload'), ip', tr', g, w)
  BY <1>1, <1>3, <1>7 DEF Kept, IPSet
<1>8. /\ kind.proto = 6 => Len(tr') <= 20 /\ (Len(tr) = 20 \/ f = "tcphlen" => Len(tr') = 20)
      /\ kind.proto = 17 => Len(tr') <= 8 /\ (Len(tr) = 8 \/ f = "length" => Len(tr') = 8)
      /\ kind.proto = 1 => Len(tr') <= 8 /\ (Len(tr) = 8 \/ f = "seqnumber" => Len(tr') = 8)
  BY <1>1, <1>5 DEF LengthsRight
<1> QED
  BY ONLY <1>1, <1>2, <1>3, <1>4, <1>6, <1>7, <1>8 DEF EffectRight

\* one of the TCP header,
LEMMA TCPEffectRight ==
  ASSUME BuffersRight, LengthsRight, kind' = kind, NEW f, NEW v, TCPEffect(f, v)
  PROVE  EffectRight(f, v)
<1>1. /\ kind.proto = 6 /\ f \in TCPSet /\ Fits(TCPFields[f], v) /\ RightCall(6, Len(payload), f, v)
      /\ tr' = TCPRecompute(Put(TCPFields, tr, f, v), ip, payload) /\ ip' = ip /\ payload' = payload
  BY DEF TCPEffect, TCPCall, RightCall
<1>2. /\ tr \in Seq(Byte) /\ ip \in Seq(Byte) /\ payload \in Seq(Byte) /\ Len(payload) <= 65507
      /\ Len(tr) <= 20 /\ Len(ip) <= 20
  BY <1>1 DEF BuffersRight, LengthsRight
<1>3. /\ tr' \in Seq(Byte)
      /\ Get(TCPFields, tr', f) = v
      /\ \A g \in TCPSet \ {f} : Get(TCPFields, tr', g) = Get(TCPFields, tr, g)
      /\ Len(tr') = 20
      /\ Get(TCPFields, tr', "tcphlen") = 5 => TCPComputeChecksum(tr', ip, payload) = 0
  <2>1. f \in TCPNames \ {"checksum", "urgent"}
    BY <1>1 DEF TCPSet
  <2>2. /\ tr' \in Seq(Byte)
        /\ Get(TCPFields, tr', f) = v
        /\ \A g \in TCPNames \ {"checksum", "urgent", f} :
             Get(TCPFields, tr', g) = Get(TCPFields, tr, g)
        /\ Len(tr') = 20
        /\ Get(TCPFields, tr', "tcphlen") = 5 => TCPComputeChecksum(tr', ip, payload) = 0
    BY ONLY <1>1, <1>2, <2>1, SetTCPRight
  <2> QED
    BY ONLY <2>2 DEF TCPSet
<1>4. BuffersRight'
  BY <1>1, <1>3 DEF BuffersRight
<1>5. f \notin IPSet /\ f # "payload" /\ f # "dest" /\ f # "hlen"
  BY <1>1 DEF TCPSet, TCPNames, IPSet, IPNames
<1>6. /\ kind.proto # 1 /\ kind.proto # 17
  BY <1>1
<1>7. Kept(kind.proto, Len(payload'), ip', tr', f, v)
  BY ONLY <1>1, <1>3, <1>5, <1>6 DEF Kept
<1>8. ASSUME NEW g, NEW w, g # f, Kept(kind.proto, Len(payload), ip, tr, g, w)
      PROVE  Kept(kind.proto, Len(payload'), ip', tr', g, w)
  BY ONLY <1>1, <1>3, <1>6, <1>8 DEF Kept
<1> QED
  BY ONLY <1>1, <1>2, <1>3, <1>4, <1>5, <1>6, <1>7, <1>8 DEF EffectRight, LengthsRight

\* one of the UDP header,
LEMMA UDPEffectRight ==
  ASSUME BuffersRight, LengthsRight, kind' = kind, NEW f, NEW v, UDPEffect(f, v)
  PROVE  EffectRight(f, v)
<1>1. /\ kind.proto = 17 /\ f \in UDPSet /\ Fits(UDPFields[f], v)
      /\ RightCall(17, Len(payload), f, v)
      /\ tr' = UDPRecompute(Put(UDPFields, tr, f, v), ip, payload) /\ ip' = ip /\ payload' = payload
  BY DEF UDPEffect, UDPCall, RightCall
<1>2. /\ tr \in Seq(Byte) /\ ip \in Seq(Byte) /\ payload \in Seq(Byte) /\ Len(payload) <= 65507
      /\ Len(tr) <= 8 /\ Len(ip) <= 20
  BY <1>1 DEF BuffersRight, LengthsRight
<1>3. /\ tr' \in Seq(Byte)
      /\ Get(UDPFields, tr', f) = v
      /\ \A g \in UDPSet \ {f} : Get(UDPFields, tr', g) = Get(UDPFields, tr, g)
      /\ Len(tr') = 8
      /\ ~ (Get(UDPFields, tr', "length") < 8) => UDPComputeChecksum(tr', ip, payload) = 0
  <2>1. f \in UDPNames \ {"checksum"}
    BY <1>1 DEF UDPSet
  <2>2. /\ tr' \in Seq(Byte)
        /\ Get(UDPFields, tr', f) = v
        /\ \A g \in UDPNames \ {"checksum", f} : Get(UDPFields, tr', g) = Get(UDPFields, tr, g)
        /\ Len(tr') = 8
        /\ ~ (Get(UDPFields, tr', "length") < 8) => UDPComputeChecksum(tr', ip, payload) = 0
    BY ONLY <1>1, <1>2, <2>1, SetUDPRight
  <2> QED
    BY ONLY <2>2 DEF UDPSet
<1>4. BuffersRight'
  BY <1>1, <1>3 DEF BuffersRight
<1>5. f \notin IPSet /\ f # "payload" /\ f # "dest" /\ f # "hlen"
  BY <1>1 DEF UDPSet, UDPNames, IPSet, IPNames
<1>6. /\ kind.proto # 6 /\ kind.proto # 1
  BY <1>1
<1>7. Kept(kind.proto, Len(payload'), ip', tr', f, v)
  BY ONLY <1>1, <1>3, <1>5, <1>6 DEF Kept
<1>8. ASSUME NEW g, NEW w, g # f, Kept(kind.proto, Len(payload), ip, tr, g, w)
      PROVE  Kept(kind.proto, Len(payload'), ip', tr', g, w)
  BY ONLY <1>1, <1>3, <1>6, <1>8 DEF Kept
<1> QED
  BY ONLY <1>1, <1>2, <1>3, <1>4, <1>5, <1>6, <1>7, <1>8 DEF EffectRight, LengthsRight

\* one of the ICMP header,
LEMMA ICMPEffectRight ==
  ASSUME BuffersRight, LengthsRight, kind' = kind, NEW f, NEW v, ICMPEffect(f, v)
  PROVE  EffectRight(f, v)
<1>1. /\ kind.proto = 1 /\ f \in ICMPSet /\ Fits(ICMPFields[f], v)
      /\ RightCall(1, Len(payload), f, v)
      /\ tr' = ICMPRecompute(Put(ICMPFields, tr, f, v), payload) /\ ip' = ip /\ payload' = payload
  BY DEF ICMPEffect, ICMPCall, RightCall
<1>2. /\ tr \in Seq(Byte) /\ ip \in Seq(Byte) /\ payload \in Seq(Byte) /\ Len(payload) <= 65507
      /\ Len(tr) <= 8 /\ Len(ip) <= 20
  BY <1>1 DEF BuffersRight, LengthsRight
<1>3. /\ tr' \in Seq(Byte)
      /\ Get(ICMPFields, tr', f) = v
      /\ \A g \in ICMPSet \ {f} : Get(ICMPFields, tr', g) = Get(ICMPFields, tr, g)
      /\ Len(tr') <= 8 /\ (Len(tr) = 8 \/ f = "seqnumber" => Len(tr') = 8)
      /\ ICMPComputeChecksum(tr', payload) = 0
  <2>1. f \in ICMPNames \ {"checksum"}
    BY <1>1 DEF ICMPSet
  <2>2. /\ tr' \in Seq(Byte)
        /\ Get(ICMPFields, tr', f) = v
        /\ \A g \in ICMPNames \ {"checksum", f} : Get(ICMPFields, tr', g) = Get(ICMPFields, tr, g)
        /\ Len(tr') <= 8 /\ (Len(tr) = 8 \/ f = "seqnumber" => Len(tr') = 8)
        /\ ICMPComputeChecksum(tr', payload) = 0
    BY ONLY <1>1, <1>2, <2>1, SetICMPRight
  <2> QED
    BY ONLY <2>2 DEF ICMPSet
<1>4. BuffersRight'
  BY <1>1, <1>3 DEF BuffersRight
<1>5. f \notin IPSet /\ f # "payload" /\ f # "dest" /\ f # "hlen"
  BY <1>1 DEF ICMPSet, ICMPNames, IPSet, IPNames
<1>6. /\ kind.proto # 6 /\ kind.proto # 17
  BY <1>1
<1>7. Kept(kind.proto, Len(payload'), ip', tr', f, v)
  BY ONLY <1>1, <1>3, <1>5, <1>6 DEF Kept
<1>8. ASSUME NEW g, NEW w, g # f, Kept(kind.proto, Len(payload), ip, tr, g, w)
      PROVE  Kept(kind.proto, Len(payload'), ip', tr', g, w)
  BY ONLY <1>1, <1>3, <1>6, <1>8 DEF Kept
<1> QED
  BY ONLY <1>1, <1>2, <1>3, <1>4, <1>5, <1>6, <1>7, <1>8 DEF EffectRight, LengthsRight

\* the one of the payload,
LEMMA PayloadEffectRight ==
  ASSUME BuffersRight, LengthsRight, kind' = kind, NEW f, NEW v, PayloadEffect(f, v)
  PROVE  EffectRight(f, v)
<1>1. /\ kind.proto = 1 /\ f = "payload" /\ v \in Seq(Byte) /\ Len(v) >= 20 /\ Len(v) <= 56
      /\ payload' = v /\ ip' = ip /\ tr' = tr
  BY DEF PayloadEffect
<1>2. f \notin IPSet /\ f \notin ICMPSet /\ f # "dest" /\ f # "hlen" /\ f # "seqnumber"
  BY <1>1 DEF ICMPSet, ICMPNames, IPSet, IPNames
<1>3. Len(payload') >= 20 /\ Len(payload') <= 56 /\ Len(payload') <= 65507
  BY <1>1
<1>4. kind.proto # 6 /\ kind.proto # 17 /\ 1 # 6 /\ 1 # 17
  BY <1>1
<1>5. BuffersRight'
  BY <1>1, <1>3 DEF BuffersRight
<1>6. RightCall(1, Len(payload'), f, v)
  BY ONLY <1>1 DEF RightCall, ICMPCall
<1>7. Kept(kind.proto, Len(payload'), ip', tr', f, v)
  BY ONLY <1>1, <1>2, <1>3, <1>4, <1>6 DEF Kept
<1>8. ASSUME NEW g, NEW w, g # f, Kept(kind.proto, Len(payload), ip, tr, g, w)
      PROVE  Kept(kind.proto, Len(payload'), ip', tr', g, w)
  <2>1. RightCall(1, Len(payload'), g, w)
    BY ONLY <1>1, <1>4, <1>8, Zenon DEF Kept, RightCall
  <2> QED
    BY ONLY <1>1, <1>4, <1>8, <2>1 DEF Kept
<1> QED
  BY ONLY <1>1, <1>2, <1>4, <1>5, <1>7, <1>8, LengthsRight DEF EffectRight, LengthsRight

\* and the one of the address mask.
LEMMA MaskEffectRight ==
  ASSUME BuffersRight, LengthsRight, kind' = kind, NEW f, NEW v, MaskEffect(f, v)
  PROVE  EffectRight(f, v)
<1>1. /\ kind.proto = 1 /\ f = "addressmask" /\ v \in Seq(Byte) /\ Len(v) = 4
      /\ payload' = SetData(payload, v, 0) /\ tr' = ICMPRecompute(tr, payload') /\ ip' = ip
  BY DEF MaskEffect
<1>2. /\ tr \in Seq(Byte) /\ ip \in Seq(Byte) /\ payload \in Seq(Byte) /\ Len(payload) <= 56
      /\ Len(tr) <= 8 /\ Len(ip) <= 20
  BY <1>1 DEF BuffersRight, LengthsRight
<1>3. PICK m \in Nat : m = Len(payload) /\ m <= 56
  BY <1>2
<1>4. payload' \in Seq(Byte) /\ Len(payload') = Greatest(m, 4)
  <2>1. /\ SetData(payload, v, 0) \in Seq(Byte)
        /\ Len(SetData(payload, v, 0)) = Greatest(Len(payload), 0 + Len(v))
    BY ONLY <1>1, <1>2, 0 \in Nat, SetDataBytes
  <2>2. 0 + 4 = 4
    OBVIOUS
  <2> QED
    BY ONLY <1>1, <1>3, <2>1, <2>2
<1>5. /\ Len(payload') <= 56 /\ Len(payload') <= 65507
      /\ Len(payload) >= 20 => Len(payload') >= 20
  <2>1. Greatest(m, 4) <= 56 /\ Greatest(m, 4) <= 65507 /\ (m >= 20 => Greatest(m, 4) >= 20)
    BY ONLY <1>3, m \in Nat DEF Greatest
  <2> QED
    BY ONLY <1>3, <1>4, <2>1
<1>6. /\ tr' \in Seq(Byte) /\ Len(tr') = Greatest(Len(tr), 4)
      /\ \A g \in ICMPNames \ {"checksum"} : Get(ICMPFields, tr', g) = Get(ICMPFields, tr, g)
      /\ ICMPComputeChecksum(tr', payload') = 0
  BY ONLY <1>1, <1>2, <1>4, <1>5, ICMPRecomputed
<1>7. Len(tr') <= 8 /\ (Len(tr) = 8 => Len(tr') = 8)
  <2>1. PICK n \in Nat : n = Len(tr) /\ n <= 8
    BY <1>2
  <2>2. Greatest(n, 4) <= 8 /\ (n = 8 => Greatest(n, 4) = 8)
    BY <2>1 DEF Greatest
  <2> QED
    BY ONLY <1>6, <2>1, <2>2
<1>8. f \notin IPSet /\ f \notin ICMPSet /\ f # "dest" /\ f # "hlen" /\ f # "seqnumber"
      /\ f # "payload"
  BY <1>1 DEF ICMPSet, ICMPNames, IPSet, IPNames
<1>9. kind.proto # 6 /\ kind.proto # 17
  BY <1>1
<1>10. BuffersRight'
  BY <1>1, <1>4, <1>5, <1>6 DEF BuffersRight
<1>11. RightCall(1, Len(payload'), f, v)
  BY ONLY <1>1 DEF RightCall, ICMPCall
<1>12. Kept(kind.proto, Len(payload'), ip', tr', f, v)
  BY ONLY <1>1, <1>8, <1>9, <1>11 DEF Kept
<1>13. ASSUME NEW g, NEW w, g # f, Kept(kind.proto, Len(payload), ip, tr, g, w)
      PROVE  Kept(kind.proto, Len(payload'), ip', tr', g, w)
  <2>1. 1 # 17
    OBVIOUS
  <2>2. RightCall(1, Len(payload'), g, w)
    BY ONLY <1>1, <1>13, <2>1, Zenon DEF Kept, RightCall
  <2> QED
    BY ONLY <1>1, <1>5, <1>6, <1>9, <1>13, <2>2 DEF Kept, ICMPSet
<1> QED
  BY ONLY <1>1, <1>2, <1>5, <1>6, <1>7, <1>8, <1>9, <1>10, <1>12, <1>13 DEF EffectRight

\* A setter keeps the invariant.
LEMMA SetRight ==
  ASSUME WireInv, Set
  PROVE  WireInv'
<1>1. BuffersRight /\ CallsRight /\ FieldsRight /\ LengthsRight /\ SumsRight /\ FrameRight
  BY DEF WireInv
<1>2. PICK f, v : f = Head(todo)[1] /\ v = Head(todo)[2]
  OBVIOUS
<1>3. /\ todo # <<>> /\ todo' = Tail(todo) /\ kind' = kind /\ frame' = frame /\ got' = got
      /\ Called(set, f, v, set') /\ RightCall(kind.proto, Len(payload), f, v)
      /\ Effect(f, v)
  BY <1>1, <1>2, SetEffect
<1>4. EffectRight(f, v)
  BY <1>1, <1>3, IPEffectRight, TCPEffectRight, UDPEffectRight, ICMPEffectRight,
     PayloadEffectRight, MaskEffectRight DEF Effect
<1>5. BuffersRight'
  BY <1>4 DEF EffectRight
<1>6. CallsRight'
  <2>1. kind.proto = 1 \/ Len(payload') = Len(payload)
    BY <1>4 DEF EffectRight
  <2>2. Called(set, Head(todo)[1], Head(todo)[2], set')
    BY <1>2, <1>3
  <2> QED
    BY <1>1, <1>3, <2>1, <2>2, SetCalls
<1>7. FieldsRight'
  <2> SUFFICES ASSUME NEW g \in DOMAIN set'
               PROVE  Kept(kind.proto, Len(payload'), ip', tr', g, set'[g])
    BY <1>3 DEF FieldsRight
  <2>1. CASE g = f
    <3>1. set'[g] = v
      BY <1>3, <2>1 DEF Called
    <3> QED
      BY <1>4, <2>1, <3>1 DEF EffectRight
  <2>2. CASE g # f
    <3>1. g \in DOMAIN set /\ set'[g] = set[g]
      BY <1>3, <2>2 DEF Called
    <3>2. Kept(kind.proto, Len(payload), ip, tr, g, set[g])
      BY <1>1, <3>1 DEF FieldsRight
    <3> QED
      BY <1>4, <2>2, <3>1, <3>2 DEF EffectRight
  <2> QED
    BY <2>1, <2>2
<1>8. DOMAIN set' = DOMAIN set \cup {f}
  BY <1>3 DEF Called
<1>9. LengthsRight'
  BY ONLY <1>1, <1>3, <1>4, <1>8 DEF EffectRight, LengthsRight
<1>10. "hlen" \in DOMAIN set' => IPChecksumCorrect(ip')
  <2>1. ASSUME "hlen" \in DOMAIN set'
        PROVE  Get(IPFields, ip', "hlen") = 5
    <3>1. /\ RightCall(kind'.proto, Len(payload'), "hlen", set'["hlen"])
          /\ "hlen" \in IPSet => Get(IPFields, ip', "hlen") = set'["hlen"]
      BY ONLY <1>7, <2>1 DEF FieldsRight, Kept
    <3> QED
      BY <3>1 DEF RightCall, IPCall, TCPCall, UDPCall, ICMPCall, IPSet, IPNames, TCPSet, TCPNames,
                  UDPSet, UDPNames, ICMPSet, ICMPNames
  <2>2. CASE ip' = ip /\ f # "hlen"
    BY <1>1, <1>8, <2>2 DEF SumsRight
  <2> QED
    BY <1>4, <2>1, <2>2 DEF EffectRight
<1>11. ASSUME todo' = <<>>
       PROVE  /\ kind'.proto = 6 => TCPComputeChecksum(tr', ip', payload') = 0
              /\ kind'.proto = 17 => UDPComputeChecksum(tr', ip', payload') = 0
              /\ kind'.proto = 1 => ICMPComputeChecksum(tr', payload') = 0
  <2>1. f \notin IPSet \cup {"payload"}
    <3>1. Head(todo) = todo[Len(todo)]
      BY <1>1, <1>3, <1>11, TailLast DEF CallsRight
    <3> QED
      BY <1>1, <1>2, <1>3, <3>1 DEF CallsRight
  <2>2. ASSUME kind'.proto = 6
        PROVE  Get(TCPFields, tr', "tcphlen") = 5
    <3>1. "tcphlen" \in DOMAIN set'
      BY <1>6, <1>11, <2>2, NoCallLeft DEF CallsRight
    <3>2. /\ RightCall(6, Len(payload'), "tcphlen", set'["tcphlen"])
          /\ "tcphlen" \in TCPSet => Get(TCPFields, tr', "tcphlen") = set'["tcphlen"]
      BY ONLY <1>7, <2>2, <3>1 DEF FieldsRight, Kept
    <3> QED
      BY <3>2 DEF RightCall, IPCall, TCPCall, IPSet, IPNames, TCPSet, TCPNames
  <2>3. ASSUME kind'.proto = 17
        PROVE  ~ (Get(UDPFields, tr', "length") < 8)
    <3>1. "length" \in DOMAIN set'
      BY <1>6, <1>11, <2>3, NoCallLeft DEF CallsRight
    <3>2. /\ RightCall(17, Len(payload'), "length", set'["length"])
          /\ "length" \in UDPSet => Get(UDPFields, tr', "length") = set'["length"]
      BY ONLY <1>7, <2>3, <3>1 DEF FieldsRight, Kept
    <3>3. Get(UDPFields, tr', "length") = 8 + Len(payload')
      BY <3>2 DEF RightCall, IPCall, UDPCall, IPSet, IPNames, UDPSet, UDPNames
    <3>4. Len(payload') \in Nat
      BY <1>5 DEF BuffersRight
    <3> QED
      BY ONLY <3>3, <3>4
  <2> QED
    BY ONLY <1>3, <1>4, <2>1, <2>2, <2>3 DEF EffectRight
<1>12. SumsRight'
  BY ONLY <1>10, <1>11 DEF SumsRight
<1>13. FrameRight'
  <2>1. frame = Nothing /\ got = Nothing
    BY <1>1, <1>3 DEF FrameRight
  <2> QED
    BY ONLY <1>3, <2>1 DEF FrameRight
<1> QED
  BY ONLY <1>5, <1>6, <1>7, <1>9, <1>12, <1>13 DEF WireInv

-----------------------------------------------------------------------------
(* The frame.                                                              *)

\* The Ethernet header has 14 bytes.
LEMMA EthernetHeaderBytes == EthernetHeader \in Seq(Byte) /\ Len(EthernetHeader) = 14
<1>1. Zeros(6) \in Seq(Byte) /\ Len(Zeros(6)) = 6
  BY ZerosBytes
<1>2. SetData(Zeros(6), Zeros(6), 6) \in Seq(Byte) /\ Len(SetData(Zeros(6), Zeros(6), 6)) = 12
  <2>1. 6 \in Nat /\ Greatest(6, 6 + 6) = 12
    BY DEF Greatest
  <2> QED
    BY ONLY <1>1, <2>1, SetDataBytes
<1>3. EthernetFields["ethertype"] = At(12, 2)
  BY DEF EthernetFields
<1>4. /\ FieldAt(EthernetFields, "ethertype", At(12, 2)) /\ Fits(At(12, 2), 2048)
      /\ At(12, 2).at = 12 /\ At(12, 2).size = 2
  BY <1>3, FitsNumber DEF FieldAt, At, Layout, Shapes
<1>5. Greatest(12, 12 + 2) = 14
  BY DEF Greatest
<1>6. PICK h \in Seq(Byte) : h = SetData(Zeros(6), Zeros(6), 6) /\ Len(h) = 12
  BY ONLY <1>2, Zenon
<1>7. EthernetHeader = Put(EthernetFields, h, "ethertype", 2048)
  BY ONLY <1>6 DEF EthernetHeader
<1>8. PICK l : /\ FieldAt(EthernetFields, "ethertype", l) /\ Fits(l, 2048)
               /\ l.at = 12 /\ l.size = 2
  BY ONLY <1>4
<1>9. /\ EthernetHeader \in Seq(Byte)
      /\ Len(EthernetHeader) = Greatest(Len(h), l.at + l.size)
  BY ONLY <1>7, <1>8, h \in Seq(Byte), PutField
<1> QED
  BY ONLY <1>5, <1>6, <1>8, <1>9

\* What is in front of the rest, and the rest.
LEMMA FrontAndAfter ==
  ASSUME NEW p \in Seq(Byte), NEW q \in Seq(Byte), NEW n \in Nat, n = Len(p)
  PROVE  ExtractFront(p \o q, n) = p /\ After(p \o q, n) = q
<1>1. PICK m \in Nat : m = Len(q)
  OBVIOUS
<1>2. p \o q \in Seq(Byte) /\ Len(p \o q) = n + m
  BY <1>1
<1>3. Least(n, n + m) = n
  BY DEF Least
<1>4. SubSeq(p \o q, 1, n) = p
  <2>1. /\ SubSeq(p \o q, 1, n) \in Seq(Byte) /\ Len(SubSeq(p \o q, 1, n)) = n
        /\ \A i \in 1..n : SubSeq(p \o q, 1, n)[i] = (p \o q)[i]
    BY <1>1, <1>2
  <2>2. \A i \in 1..n : (p \o q)[i] = p[i]
    OBVIOUS
  <2> QED
    BY <2>1, <2>2
<1>5. SubSeq(p \o q, n + 1, n + m) = q
  <2>1. /\ SubSeq(p \o q, n + 1, n + m) \in Seq(Byte) /\ Len(SubSeq(p \o q, n + 1, n + m)) = m
        /\ \A i \in 1..m : SubSeq(p \o q, n + 1, n + m)[i] = (p \o q)[n + i]
    BY <1>1, <1>2
  <2>2. \A i \in 1..m : (p \o q)[n + i] = q[i]
    BY <1>1
  <2>3. PICK t \in Seq(Byte) : t = SubSeq(p \o q, n + 1, n + m)
    BY ONLY <2>1, Zenon
  <2>4. Len(t) = m /\ \A i \in 1..m : t[i] = q[i]
    BY ONLY <2>1, <2>2, <2>3
  <2>5. t = q
    BY ONLY <1>1, <2>4, t \in Seq(Byte), q \in Seq(Byte)
  <2> QED
    BY ONLY <2>3, <2>5
<1> QED
  BY ONLY <1>2, <1>3, <1>4, <1>5 DEF ExtractFront, After

\* A field of what is in front is a field of the whole.
Inside(fields, f, p) ==
  FieldAt(fields, f, fields[f]) /\ p \in Seq(Byte) /\ fields[f].at + fields[f].size <= Len(p)

\* A field that lies within the first part of a sequence is read from that part.
LEMMA GetFront ==
  ASSUME NEW fields, NEW f, NEW p, Inside(fields, f, p), NEW q, q \in Seq(Byte)
  PROVE  Get(fields, p \o q, f) = Get(fields, p, f)
<1>1. PICK l : FieldAt(fields, f, l) /\ p \in Seq(Byte) /\ l.at + l.size <= Len(p)
  BY Zenon DEF Inside
<1>2. l.at \in Nat /\ l.size \in Nat
  BY <1>1 DEF FieldAt, Layout
<1>3. \A i \in (l.at + 1)..(l.at + l.size) : ByteAt(p \o q, i) = ByteAt(p, i)
  <2>1. \A i \in Int :
          ByteAt(p \o q, i) = IF i <= Len(p) THEN ByteAt(p, i) ELSE ByteAt(q, i - Len(p))
    BY <1>1, BytesOfBoth
  <2> QED
    BY <1>1, <1>2, <2>1
<1> QED
  BY <1>1, <1>3, GetSame

\* What is summed is not the padding.
LEMMA GetDataFront ==
  ASSUME NEW p \in Seq(Byte), NEW q \in Seq(Byte), NEW n \in Nat, n = Len(p)
  PROVE  GetData(p \o q, n, 0) = GetData(p, n, 0)
<1>1. \A i \in Int : ByteAt(p \o q, i) = IF i <= Len(p) THEN ByteAt(p, i) ELSE ByteAt(q, i - Len(p))
  BY BytesOfBoth
<1>2. \A i \in (0 + 1)..(0 + n) : ByteAt(p \o q, i) = ByteAt(p, i)
  BY <1>1
<1> QED
  BY <1>2, SameBytes

\* Where the brackets are does not matter.
LEMMA Associative ==
  ASSUME NEW p \in Seq(Byte), NEW q \in Seq(Byte), NEW r \in Seq(Byte)
  PROVE  p \o q \in Seq(Byte) /\ (p \o q) \o r = p \o (q \o r)
  OBVIOUS

\* Five parts, from the last one.
InFive(f, e, p, q, r, z) ==
  /\ e \in Seq(Byte) /\ p \in Seq(Byte) /\ q \in Seq(Byte) /\ r \in Seq(Byte) /\ z \in Seq(Byte)
  /\ f = e \o p \o q \o r \o z
FromLast(f, e, p, q, r, z, b, c, d) ==
  /\ d \in Seq(Byte) /\ c \in Seq(Byte) /\ b \in Seq(Byte)
  /\ d = r \o z /\ c = q \o d /\ b = p \o c /\ f = e \o b

\* A sequence of five parts, from the last.
LEMMA FiveParts ==
  ASSUME NEW f, NEW e, NEW p, NEW q, NEW r, NEW z, InFive(f, e, p, q, r, z)
  PROVE  \E b, c, d : FromLast(f, e, p, q, r, z, b, c, d)
<1>1. e \in Seq(Byte) /\ p \in Seq(Byte) /\ q \in Seq(Byte) /\ r \in Seq(Byte) /\ z \in Seq(Byte)
  BY DEF InFive
<1>2. r \in Seq(Byte) /\ z \in Seq(Byte)
  BY <1>1
<1>3. q \in Seq(Byte)
  BY <1>1
<1>4. e \in Seq(Byte) /\ p \in Seq(Byte)
  BY <1>1
<1>5. PICK d \in Seq(Byte) : d = r \o z
  BY ONLY <1>1, Associative, Zenon
<1>6. PICK c \in Seq(Byte) : c = q \o d
  BY ONLY <1>1, d \in Seq(Byte), Associative, Zenon
<1>7. PICK b \in Seq(Byte) : b = p \o c
  BY ONLY <1>1, c \in Seq(Byte), Associative, Zenon
<1>8. PICK x \in Seq(Byte) : x = e \o p
  BY ONLY <1>1, Associative, Zenon
<1>9. PICK y \in Seq(Byte) : y = x \o q
  BY ONLY <1>1, x \in Seq(Byte), Associative, Zenon
<1>10. (y \o r) \o z = y \o (r \o z)
  BY ONLY <1>2, y \in Seq(Byte)
<1>11. (x \o q) \o d = x \o (q \o d)
  BY ONLY <1>3, x \in Seq(Byte), d \in Seq(Byte)
<1>12. (e \o p) \o c = e \o (p \o c)
  BY ONLY <1>4, c \in Seq(Byte)
<1>13. f = e \o p \o q \o r \o z
  BY DEF InFive
<1>14. f = e \o b
  BY ONLY <1>13, <1>5, <1>6, <1>7, <1>8, <1>9, <1>10, <1>11, <1>12, Zenon
<1>15. FromLast(f, e, p, q, r, z, b, c, d)
  BY ONLY <1>5, <1>6, <1>7, <1>14, d \in Seq(Byte), c \in Seq(Byte), b \in Seq(Byte),
          Zenon DEF FromLast
<1> QED
  BY <1>15

\* What is known of a packet when no call is left.
Finished ==
  /\ ip \in Seq(Byte) /\ tr \in Seq(Byte) /\ payload \in Seq(Byte) /\ kind.proto \in {1, 6, 17}
  /\ Len(ip) = 20 /\ Get(IPFields, ip, "hlen") = 5 /\ Get(IPFields, ip, "protocol") = kind.proto
  /\ IPChecksumCorrect(ip)
  /\ kind.proto = 6 =>
       /\ Len(tr) = 20 /\ Get(TCPFields, tr, "tcphlen") = 5
       /\ Get(IPFields, ip, "totlen") = 40 + Len(payload)
       /\ TCPComputeChecksum(tr, ip, payload) = 0
  /\ kind.proto = 17 =>
       /\ Len(tr) = 8 /\ Get(UDPFields, tr, "length") = 8 + Len(payload)
       /\ UDPComputeChecksum(tr, ip, payload) = 0
  /\ kind.proto = 1 =>
       /\ Len(tr) = 8 /\ Len(payload) >= 20 /\ Len(payload) <= 56
       /\ Get(ICMPFields, tr, "type") # 13 /\ ICMPComputeChecksum(tr, payload) = 0

\* The fields that must be set are set, and stay so until the next packet.
AllSet ==
  /\ {"hlen", "dest", "protocol"} \subseteq DOMAIN set /\ set["protocol"] = kind.proto
  /\ kind.proto = 6 => {"tcphlen", "totlen"} \subseteq DOMAIN set
       /\ set["totlen"] = 40 + Len(payload)
  /\ kind.proto = 17 => "length" \in DOMAIN set
  /\ kind.proto = 1 => {"type", "payload", "seqnumber"} \subseteq DOMAIN set

\* When no call is left every field has been set,
LEMMA SetWhenFinished ==
  ASSUME CallsRight, todo = <<>>
  PROVE  AllSet
<1>1. \A f : Required(todo, set, f) => f \in DOMAIN set
  BY NoCallLeft
<1>2. \A f, v : Due(todo, set, f, v) => f \in DOMAIN set /\ set[f] = v
  BY NoCallLeft
<1> QED
  BY ONLY <1>1, <1>2, CallsRight DEF CallsRight, AllSet

\* and the packet is finished.
LEMMA WhenFinished ==
  ASSUME WireInv, todo = <<>>
  PROVE  Finished
<1>1. BuffersRight /\ CallsRight /\ FieldsRight /\ LengthsRight /\ SumsRight
  BY DEF WireInv
<1>2. AllSet
  BY <1>1, SetWhenFinished
<1>3. \A f \in DOMAIN set : Kept(kind.proto, Len(payload), ip, tr, f, set[f])
  BY <1>1 DEF FieldsRight
<1>4. Len(ip) = 20 /\ Get(IPFields, ip, "hlen") = 5 /\ Get(IPFields, ip, "protocol") = kind.proto
  <2>1. /\ Kept(kind.proto, Len(payload), ip, tr, "hlen", set["hlen"])
        /\ Kept(kind.proto, Len(payload), ip, tr, "protocol", kind.proto)
    BY ONLY <1>2, <1>3 DEF AllSet
  <2>2. set["hlen"] = 5
    BY ONLY <2>1 DEF Kept, RightCall, IPCall, TCPCall, UDPCall, ICMPCall, IPSet, IPNames, TCPSet,
       TCPNames, UDPSet, UDPNames, ICMPSet, ICMPNames
  <2>3. "hlen" \in IPSet /\ "protocol" \in IPSet
    BY DEF IPSet, IPNames
  <2> QED
    BY ONLY <1>1, <1>2, <2>1, <2>2, <2>3 DEF Kept, LengthsRight, AllSet
<1>5. ASSUME kind.proto = 6
      PROVE  /\ Len(tr) = 20 /\ Get(TCPFields, tr, "tcphlen") = 5
             /\ Get(IPFields, ip, "totlen") = 40 + Len(payload)
  <2>1. /\ Kept(6, Len(payload), ip, tr, "tcphlen", set["tcphlen"])
        /\ Kept(6, Len(payload), ip, tr, "totlen", 40 + Len(payload))
    BY ONLY <1>2, <1>3, <1>5 DEF AllSet
  <2>2. set["tcphlen"] = 5
    BY ONLY <2>1 DEF Kept, RightCall, IPCall, TCPCall, IPSet, IPNames, TCPSet, TCPNames
  <2>3. "tcphlen" \in TCPSet /\ "totlen" \in IPSet
    BY DEF IPSet, IPNames, TCPSet, TCPNames
  <2> QED
    BY ONLY <1>1, <1>2, <1>5, <2>1, <2>2, <2>3 DEF Kept, LengthsRight, AllSet
<1>6. ASSUME kind.proto = 17
      PROVE  Len(tr) = 8 /\ Get(UDPFields, tr, "length") = 8 + Len(payload)
  <2>1. Kept(17, Len(payload), ip, tr, "length", set["length"])
    BY ONLY <1>2, <1>3, <1>6 DEF AllSet
  <2>2. set["length"] = 8 + Len(payload)
    BY ONLY <2>1 DEF Kept, RightCall, IPCall, UDPCall, IPSet, IPNames, UDPSet, UDPNames
  <2>3. "length" \in UDPSet
    BY DEF UDPSet, UDPNames
  <2> QED
    BY ONLY <1>1, <1>2, <1>6, <2>1, <2>2, <2>3 DEF Kept, LengthsRight, AllSet
<1>7. ASSUME kind.proto = 1
      PROVE  Len(tr) = 8 /\ Len(payload) >= 20 /\ Get(ICMPFields, tr, "type") # 13
  <2>1. /\ Kept(1, Len(payload), ip, tr, "type", set["type"])
        /\ Kept(1, Len(payload), ip, tr, "payload", set["payload"])
    BY ONLY <1>2, <1>3, <1>7 DEF AllSet
  <2>2. set["type"] # 13
    BY ONLY <2>1 DEF Kept, RightCall, IPCall, ICMPCall, IPSet, IPNames, ICMPSet, ICMPNames
  <2>3. "type" \in ICMPSet
    BY DEF ICMPSet, ICMPNames
  <2> QED
    BY ONLY <1>1, <1>2, <1>7, <2>1, <2>2, <2>3 DEF Kept, LengthsRight, AllSet
<1>8. IPChecksumCorrect(ip)
  BY ONLY <1>1, <1>2 DEF SumsRight, AllSet
<1>9. /\ kind.proto = 6 => TCPComputeChecksum(tr, ip, payload) = 0
      /\ kind.proto = 17 => UDPComputeChecksum(tr, ip, payload) = 0
      /\ kind.proto = 1 => ICMPComputeChecksum(tr, payload) = 0 /\ Len(payload) <= 56
  BY ONLY <1>1, todo = <<>> DEF SumsRight, BuffersRight
<1>10. ip \in Seq(Byte) /\ tr \in Seq(Byte) /\ payload \in Seq(Byte) /\ kind.proto \in {1, 6, 17}
  BY ONLY <1>1 DEF BuffersRight
<1> QED
  BY ONLY <1>4, <1>5, <1>6, <1>7, <1>8, <1>9, <1>10 DEF Finished

\* A packet taken apart is the packet that was built, and padding.
LEMMA TakenApartRight ==
  ASSUME Finished, NEW f, NEW n, Framed(f, n)
  PROVE  /\ TakenApart(f) = [proto |-> kind.proto, ip |-> ip, tr |-> tr,
            payload |-> payload \o Zeros(n)]
         /\ kind.proto = 1 => n = 0
<1>1. /\ n \in Nat /\ f = EthernetHeader \o ip \o tr \o payload \o Zeros(n)
      /\ n = 0 \/ 14 + Len(ip) + Len(tr) + Len(payload) + n = 60
  BY DEF Framed
<1>2. /\ ip \in Seq(Byte) /\ tr \in Seq(Byte) /\ payload \in Seq(Byte) /\ Zeros(n) \in Seq(Byte)
      /\ EthernetHeader \in Seq(Byte) /\ Len(EthernetHeader) = 14 /\ Len(ip) = 20
  BY <1>1, EthernetHeaderBytes, ZerosBytes DEF Finished
<1>3. PICK e \in Seq(Byte), z \in Seq(Byte) : e = EthernetHeader /\ Len(e) = 14 /\ z = Zeros(n)
  BY ONLY <1>2
<1>4. PICK b, r, d : FromLast(f, e, ip, tr, payload, z, b, r, d)
  <2>1. InFive(f, e, ip, tr, payload, z)
    BY ONLY <1>1, <1>2, <1>3, e \in Seq(Byte), z \in Seq(Byte) DEF InFive
  <2> QED
    BY ONLY <2>1, FiveParts, Zenon
<1>5. /\ d \in Seq(Byte) /\ r \in Seq(Byte) /\ b \in Seq(Byte)
      /\ d = payload \o z /\ r = tr \o d /\ b = ip \o r /\ f = e \o b
  BY ONLY <1>4 DEF FromLast
<1>6. After(f, 14) = b
  BY ONLY <1>3, <1>5, e \in Seq(Byte), 14 \in Nat, FrontAndAfter
<1>7. Get(IPFields, b, "hlen") = 5
  <2>1. FieldAt(IPFields, "hlen", IPFields["hlen"]) /\ IPFields["hlen"] = Part(0, 1, 1, 16)
    BY IPLayout DEF IPNames, IPFields
  <2>2. Inside(IPFields, "hlen", ip)
    BY ONLY <1>2, <2>1 DEF Part, Inside
  <2>3. Get(IPFields, ip \o r, "hlen") = Get(IPFields, ip, "hlen")
    BY ONLY <1>5, <2>2, GetFront, Zenon
  <2> QED
    BY <1>5, <2>3 DEF Finished
<1>8. ExtractFront(b, 20) = ip /\ After(b, 20) = r /\ 4 * 5 = 20
  <2>1. b = ip \o r /\ 20 = Len(ip) /\ 20 \in Nat /\ 4 * 5 = 20
    BY ONLY <1>2, <1>5
  <2>2. PICK n20 \in Nat : n20 = 20 /\ n20 = Len(ip)
    BY ONLY <2>1
  <2>3. ExtractFront(ip \o r, n20) = ip /\ After(ip \o r, n20) = r
    BY ONLY <1>2, <1>5, <2>2, n20 \in Nat, FrontAndAfter
  <2> QED
    BY ONLY <2>1, <2>2, <2>3
<1>9. Get(IPFields, ip, "protocol") = kind.proto
  BY DEF Finished
<1> DEFINE size == IF kind.proto = 6 THEN 4 * Get(TCPFields, r, "tcphlen") ELSE 8
<1>10. size = Len(tr) /\ size \in Nat
  <2>1. CASE kind.proto = 6
    <3>1. FieldAt(TCPFields, "tcphlen", TCPFields["tcphlen"])
          /\ TCPFields["tcphlen"] = Part(12, 1, 16, 16)
      BY TCPTable DEF Table, TCPNames
    <3>2. Len(tr) = 20 /\ Get(TCPFields, tr, "tcphlen") = 5
      BY <2>1 DEF Finished
    <3>3. Inside(TCPFields, "tcphlen", tr)
      BY ONLY <1>2, <3>1, <3>2 DEF Part, Inside
    <3>4. Get(TCPFields, tr \o d, "tcphlen") = Get(TCPFields, tr, "tcphlen")
      BY ONLY <1>5, <3>3, GetFront, Zenon
    <3> QED
      BY ONLY <1>5, <2>1, <3>2, <3>4
  <2>2. CASE kind.proto # 6
    BY <2>2 DEF Finished
  <2> QED
    BY <2>1, <2>2
<1>11. ExtractFront(r, size) = tr /\ After(r, size) = d
  <2> HIDE DEF size
  <2>1. PICK k \in Nat : k = size /\ k = Len(tr)
    BY ONLY <1>10, Zenon
  <2>2. ExtractFront(tr \o d, k) = tr /\ After(tr \o d, k) = d
    BY ONLY <1>2, <1>5, <2>1, k \in Nat, FrontAndAfter
  <2> QED
    BY ONLY <1>5, <2>1, <2>2
<1>12. TakenApart(f) = [proto |-> kind.proto, ip |-> ip, tr |-> tr, payload |-> d]
  BY ONLY <1>6, <1>7, <1>8, <1>9, <1>11 DEF TakenApart
<1>13. ASSUME kind.proto = 1
       PROVE  n = 0
  <2>1. PICK m \in Nat : m = Len(payload) /\ m >= 20 /\ Len(tr) = 8
    BY <1>2, <1>13 DEF Finished
  <2>2. n = 0 \/ 14 + 20 + 8 + m + n = 60
    BY ONLY <1>1, <1>2, <2>1
  <2> QED
    BY ONLY <1>1, <2>1, <2>2, m \in Nat
<1> QED
  BY ONLY <1>3, <1>5, <1>12, <1>13

\* Sending keeps the invariant.
LEMMA SendRight ==
  ASSUME WireInv, Send
  PROVE  WireInv'
<1>1. /\ todo = <<>> /\ frame = Nothing
      /\ UNCHANGED <<kind, todo, ip, tr, payload, set, got>>
      /\ \E padded \in BOOLEAN :
           frame' = (EthernetHeader \o ip \o tr \o payload)
             \o (IF padded /\ Len(EthernetHeader \o ip \o tr \o payload) < 60
                 THEN Zeros(60 - Len(EthernetHeader \o ip \o tr \o payload)) ELSE <<>>)
  BY Zenon DEF Send
<1>2. got = Nothing
  BY <1>1 DEF WireInv, FrameRight
<1>3. \E n \in Nat : Framed(frame', n)
  <2>1. /\ ip \in Seq(Byte) /\ tr \in Seq(Byte) /\ payload \in Seq(Byte)
        /\ EthernetHeader \in Seq(Byte) /\ Len(EthernetHeader) = 14
    BY EthernetHeaderBytes DEF WireInv, BuffersRight
  <2>2. PICK i \in Nat, j \in Nat, k \in Nat : i = Len(ip) /\ j = Len(tr) /\ k = Len(payload)
    BY ONLY <2>1
  <2>3. PICK w \in Seq(Byte) : w = EthernetHeader \o ip \o tr \o payload /\ Len(w) = 14 + i + j + k
    <3>1. PICK e \in Seq(Byte) : e = EthernetHeader /\ Len(e) = 14
      BY ONLY <2>1
    <3>2. e \o ip \in Seq(Byte) /\ Len(e \o ip) = 14 + i
      BY ONLY <2>1, <2>2, <3>1, e \in Seq(Byte), BytesOfBoth
    <3>3. (e \o ip) \o tr \in Seq(Byte) /\ Len((e \o ip) \o tr) = 14 + i + j
      BY ONLY <2>1, <2>2, <3>2, BytesOfBoth
    <3>4. ((e \o ip) \o tr) \o payload \in Seq(Byte)
          /\ Len(((e \o ip) \o tr) \o payload) = 14 + i + j + k
      BY ONLY <2>1, <2>2, <3>3, BytesOfBoth
    <3> QED
      BY ONLY <3>1, <3>4
  <2>4. \/ frame' = w \o <<>>
        \/ Len(w) < 60 /\ frame' = w \o Zeros(60 - Len(w))
    BY ONLY <1>1, <2>3, Zenon
  <2>5. <<>> = Zeros(0)
    BY DEF Zeros
  <2>6. CASE frame' = w \o <<>>
    <3>1. Framed(frame', 0)
      BY ONLY <2>3, <2>5, <2>6 DEF Framed
    <3> QED
      BY <3>1
  <2>7. CASE Len(w) < 60 /\ frame' = w \o Zeros(60 - Len(w))
    <3>1. PICK n \in Nat : n = 60 - Len(w)
      <4>1. Len(w) \in Nat /\ Len(w) < 60
        BY ONLY <2>7, w \in Seq(Byte)
      <4>2. PICK m \in Nat : m = Len(w) /\ m < 60
        BY ONLY <4>1
      <4>3. 60 - m \in Nat
        BY ONLY <4>2, m \in Nat
      <4> QED
        BY ONLY <4>2, <4>3, Zenon
    <3>2. 14 + i + j + k + n = 60
      BY ONLY <2>3, <3>1, i \in Nat, j \in Nat, k \in Nat, n \in Nat
    <3>3. Framed(frame', n)
      BY ONLY <2>2, <2>3, <2>7, <3>1, <3>2, n \in Nat DEF Framed
    <3> QED
      BY <3>3
  <2> QED
    BY <2>4, <2>6, <2>7
<1>4. FrameRight'
  BY ONLY <1>1, <1>2, <1>3 DEF FrameRight, Framed
<1>5. BuffersRight' /\ CallsRight' /\ FieldsRight' /\ LengthsRight' /\ SumsRight'
  BY <1>1 DEF WireInv, BuffersRight, CallsRight, FieldsRight, LengthsRight, SumsRight
<1> QED
  BY <1>4, <1>5 DEF WireInv

\* Receiving keeps the invariant.
LEMMA ReceiveRight ==
  ASSUME WireInv, Receive
  PROVE  WireInv'
<1>1. /\ frame # Nothing /\ got' = TakenApart(frame)
      /\ UNCHANGED <<kind, todo, ip, tr, payload, set, frame>>
  BY DEF Receive
<1>2. FrameRight'
  BY <1>1 DEF WireInv, FrameRight, Framed
<1>3. BuffersRight' /\ CallsRight' /\ FieldsRight' /\ LengthsRight' /\ SumsRight'
  BY <1>1 DEF WireInv, BuffersRight, CallsRight, FieldsRight, LengthsRight, SumsRight
<1> QED
  BY <1>2, <1>3 DEF WireInv

\* What the receiver has is what was built, and padding.
LEMMA GotRight ==
  ASSUME WireInv, got # Nothing
  PROVE  /\ todo = <<>> /\ Finished
         /\ \E n \in Nat :
              /\ got = [proto |-> kind.proto, ip |-> ip, tr |-> tr, payload |-> payload \o Zeros(n)]
              /\ kind.proto = 1 => n = 0
<1>1. frame # Nothing /\ got = TakenApart(frame) /\ todo = <<>> /\ \E n \in Nat : Framed(frame, n)
  BY DEF WireInv, FrameRight
<1>2. Finished
  BY <1>1, WhenFinished
<1>3. PICK n \in Nat : Framed(frame, n)
  BY <1>1
<1>4. /\ got = [proto |-> kind.proto, ip |-> ip, tr |-> tr, payload |-> payload \o Zeros(n)]
      /\ kind.proto = 1 => n = 0
  BY ONLY <1>1, <1>2, <1>3, TakenApartRight
<1> QED
  BY <1>1, <1>2, <1>4

\* The calls of an answer.
Answer(s, a, b) ==
  \/ s = << <<"source", a>>, <<"dest", b>> >> \o << <<"type", 0>> >>
  \/ s = << <<"source", a>>, <<"dest", b>> >>
           \o << <<"type", 18>>, <<"addressmask", <<255, 255, 0, 0>> >> >>
GoodAnswer(s, n) ==
  /\ s \in Seq(RightCalls(1, n)) /\ s # <<>> /\ s[Len(s)][1] \notin IPSet \cup {"payload"}
  /\ ~ Calls(s, "protocol")
\* They are right calls, and the last one computes the checksum.
LEMMA AnswerCalls ==
  ASSUME NEW a \in [1..4 -> Byte], NEW b \in [1..4 -> Byte], NEW n, NEW s, Answer(s, a, b)
  PROVE  GoodAnswer(s, n)
<1> DEFINE R == RightCalls(1, n)
           V == Nat \cup Seq(Byte)
           m == <<255, 255, 0, 0>>
<1>1. a \in Seq(Byte) /\ b \in Seq(Byte)
  <2>1. 4 \in Nat
    OBVIOUS
  <2> QED
    BY ONLY <2>1, BytesAre, a \in [1..4 -> Byte], b \in [1..4 -> Byte]
<1>2. m \in Seq(Byte) /\ Len(m) = 4
  <2>1. 255 \in Byte /\ 0 \in Byte
    BY ByteIs
  <2> QED
    BY ONLY <2>1, Quadruple
<1>3. IPCall("source", a) /\ IPCall("dest", b)
  <2>1. 0 \in Nat /\ 0 <= 65535
    OBVIOUS
  <2> QED
    BY ONLY <2>1, IPCalls, a \in [1..4 -> Byte], b \in [1..4 -> Byte]
<1> HIDE DEF m
<1>4. ICMPCall("type", 0) /\ ICMPCall("type", 18) /\ ICMPCall("addressmask", m)
  <2>1. 0 \in Nat /\ 0 <= 255 /\ 18 \in Nat /\ 18 <= 255 /\ 0 # 13 /\ 18 # 13
    OBVIOUS
  <2> QED
    BY ONLY <1>2, <2>1, ICMPCalls
<1>5. /\ \A f : \A v \in V : IPCall(f, v) => <<f, v>> \in R
      /\ \A f : \A v \in V : ICMPCall(f, v) => <<f, v>> \in R
      /\ 0 \in V /\ 18 \in V /\ a \in V /\ b \in V /\ m \in V
  <2>1. (\A k \in Nat : k \in V) /\ (\A k \in Seq(Byte) : k \in V)
    OBVIOUS
  <2>2. 0 \in Nat /\ 18 \in Nat
    OBVIOUS
  <2>3. \A f : \A v \in V : IPCall(f, v) => <<f, v>> \in R
    BY ONLY IPCallIn
  <2>4. \A f : \A v \in V : ICMPCall(f, v) => <<f, v>> \in R
    BY ONLY ICMPCallIn
  <2> HIDE DEF V
  <2> QED
    BY ONLY <1>1, <1>2, <2>1, <2>2, <2>3, <2>4
<1> HIDE DEF R, V
<1>6. PICK p \in R, q \in R, r \in R, t \in R, u \in R :
        /\ p = <<"source", a>> /\ q = <<"dest", b>> /\ r = <<"type", 0>> /\ t = <<"type", 18>>
        /\ u = <<"addressmask", m>>
  BY ONLY <1>3, <1>4, <1>5
<1>7. /\ p[1] = "source" /\ q[1] = "dest" /\ r[1] = "type" /\ t[1] = "type"
      /\ u[1] = "addressmask"
  BY ONLY <1>6
<1>8. s = <<p, q>> \o <<r>> \/ s = <<p, q>> \o <<t, u>>
  BY ONLY <1>6, Answer(s, a, b) DEF m, Answer
<1>9. <<p, q>> \in Seq(R) /\ ~ Calls(<<p, q>>, "protocol")
  BY ONLY <1>7, p \in R, q \in R, Two
<1>10. /\ <<r>> \in Seq(R) /\ ~ Calls(<<r>>, "protocol") /\ <<r>> # <<>>
       /\ <<r>>[Len(<<r>>)] = r
  BY ONLY <1>7, r \in R, One
<1>11. /\ <<t, u>> \in Seq(R) /\ ~ Calls(<<t, u>>, "protocol") /\ <<t, u>> # <<>>
       /\ <<t, u>>[Len(<<t, u>>)] = u
  BY ONLY <1>7, t \in R, u \in R, Two
<1>12. \A z \in Seq(R) : ~ Calls(z, "protocol") /\ z # <<>> =>
         /\ <<p, q>> \o z \in Seq(R) /\ <<p, q>> \o z # <<>> /\ ~ Calls(<<p, q>> \o z, "protocol")
         /\ (<<p, q>> \o z)[Len(<<p, q>> \o z)] = z[Len(z)]
  BY ONLY <1>9, CallsOfBoth, JoinLast
<1>13. s \in Seq(R) /\ s # <<>> /\ ~ Calls(s, "protocol") /\ s[Len(s)] \in {r, u}
  BY ONLY <1>8, <1>10, <1>11, <1>12, Zenon
<1>14. "type" \notin IPSet \cup {"payload"} /\ "addressmask" \notin IPSet \cup {"payload"}
  BY DEF IPSet, IPNames
<1> QED
  BY ONLY <1>7, <1>13, <1>14 DEF R, GoodAnswer

\* Answering keeps the invariant.
LEMMA RespondRight ==
  ASSUME WireInv, Respond
  PROVE  WireInv'
<1>1. /\ got # Nothing /\ got.proto = 1
      /\ ip' = got.ip /\ tr' = got.tr /\ payload' = got.payload
      /\ frame' = Nothing /\ got' = Nothing /\ kind' = kind /\ set' = set
  BY DEF Respond
<1>2. todo = <<>> /\ Finished
  BY <1>1, GotRight
<1>3. PICK n \in Nat :
        /\ got = [proto |-> kind.proto, ip |-> ip, tr |-> tr, payload |-> payload \o Zeros(n)]
        /\ kind.proto = 1 => n = 0
  BY <1>1, GotRight
<1>4. kind.proto = 1 /\ got.ip = ip /\ got.tr = tr /\ got.payload = payload
  <2>1. kind.proto = 1 /\ n = 0 /\ got.ip = ip /\ got.tr = tr /\ got.payload = payload \o Zeros(0)
    BY <1>1, <1>3
  <2>2. payload \o Zeros(0) = payload
    <3>1. Zeros(0) = <<>> /\ payload \in Seq(Byte)
      BY <1>2 DEF Zeros, Finished
    <3> QED
      BY ONLY <3>1
  <2> QED
    BY <2>1, <2>2
<1>5. Get(IPFields, ip, "source") \in [1..4 -> Byte] /\ Get(IPFields, ip, "dest") \in [1..4 -> Byte]
  <2>1. ip \in Seq(Byte)
    BY <1>2 DEF Finished
  <2>2. /\ FieldAt(IPFields, "source", IPFields["source"]) /\ IPFields["source"].size = 4
        /\ FieldAt(IPFields, "dest", IPFields["dest"]) /\ IPFields["dest"].size = 4
    BY IPLayout DEF IPNames, IPFields, Four
  <2>3. /\ Fits(IPFields["source"], Get(IPFields, ip, "source"))
        /\ Fits(IPFields["dest"], Get(IPFields, ip, "dest"))
    BY ONLY <2>1, <2>2, GetFits
  <2> QED
    BY ONLY <2>2, <2>3 DEF Fits
<1>6. /\ todo' \in Seq(RightCalls(1, Len(payload))) /\ todo' # <<>>
      /\ todo'[Len(todo')][1] \notin IPSet \cup {"payload"} /\ ~ Calls(todo', "protocol")
  <2> DEFINE a == Get(IPFields, ip, "dest")
             b == Get(IPFields, ip, "source")
             n0 == Len(payload)
  <2>1. PICK s : s = todo'
    OBVIOUS
  <2>2. Answer(s, a, b)
    <3>1. Get(ICMPFields, got.tr, "type") # 13
      BY <1>2, <1>4 DEF Finished
    <3>2. PICK m \in Numbers : LET type == Get(ICMPFields, got.tr, "type") IN
            /\ type \in {8, 13, 17}
            /\ todo' = << <<"source", Get(IPFields, got.ip, "dest")>>,
                          <<"dest", Get(IPFields, got.ip, "source")>> >>
                  \o (CASE type = 8  -> << <<"type", 0>> >>
                        [] type = 13 -> << <<"type", 14>>, <<"originate", m>> >>
                        [] type = 17 -> << <<"type", 18>>,
                                         <<"addressmask", <<255, 255, 0, 0>> >> >>)
      BY DEF Respond
    <3> QED
      BY <1>4, <2>1, <3>1, <3>2 DEF Answer
  <2> HIDE DEF a, b, n0
  <2>3. a \in [1..4 -> Byte] /\ b \in [1..4 -> Byte]
    BY ONLY <1>5 DEF a, b
  <2> QED
    <3>1. GoodAnswer(s, n0)
      BY ONLY <2>2, <2>3, AnswerCalls, Zenon
    <3> QED
      BY ONLY <2>1, <3>1 DEF GoodAnswer, n0
<1>7. AllSet
  BY <1>2, SetWhenFinished DEF WireInv
<1>8. BuffersRight'
  BY <1>1, <1>4 DEF WireInv, BuffersRight
<1>9. CallsRight'
  BY ONLY <1>1, <1>4, <1>6, <1>7 DEF CallsRight, Required, Due, AllSet
<1>10. FieldsRight'
  BY <1>1, <1>4 DEF WireInv, FieldsRight
<1>11. LengthsRight'
  BY <1>1, <1>4 DEF WireInv, LengthsRight
<1>12. SumsRight'
  <2>1. "hlen" \in DOMAIN set' => IPChecksumCorrect(ip')
    BY <1>1, <1>4 DEF WireInv, SumsRight
  <2> QED
    BY ONLY <1>6, <2>1 DEF SumsRight
<1>13. FrameRight'
  BY ONLY <1>1 DEF FrameRight
<1> QED
  BY ONLY <1>8, <1>9, <1>10, <1>11, <1>12, <1>13 DEF WireInv

-----------------------------------------------------------------------------
(* What the receiver finds.                                                *)

\* Padding does not enter a checksum, which is over what the header says is data.
LEMMA TCPSumPadded ==
  ASSUME NEW h, NEW iph, NEW p \in Seq(Byte), NEW z \in Seq(Byte),
         Get(IPFields, iph, "hlen") = 5, Get(TCPFields, h, "tcphlen") = 5,
         Get(IPFields, iph, "totlen") = 40 + Len(p)
  PROVE  TCPComputeChecksum(h, iph, p \o z) = TCPComputeChecksum(h, iph, p)
<1>1. PICK n \in Nat : n = Len(p)
  OBVIOUS
<1>2. Get(IPFields, iph, "totlen") - 4 * Get(IPFields, iph, "hlen")
        - 4 * Get(TCPFields, h, "tcphlen") = n
  BY <1>1
<1>3. GetData(p \o z, n, 0) = GetData(p, n, 0)
  BY ONLY <1>1, p \in Seq(Byte), z \in Seq(Byte), GetDataFront
<1> QED
  BY ONLY <1>2, <1>3, Zenon DEF TCPComputeChecksum

\* The same for UDP.
LEMMA UDPSumPadded ==
  ASSUME NEW h, NEW iph, NEW p \in Seq(Byte), NEW z \in Seq(Byte),
         Get(UDPFields, h, "length") = 8 + Len(p)
  PROVE  UDPComputeChecksum(h, iph, p \o z) = UDPComputeChecksum(h, iph, p)
<1>1. PICK n \in Nat : n = Len(p)
  OBVIOUS
<1>2. Get(UDPFields, h, "length") - 8 = n
  BY <1>1
<1>3. GetData(p \o z, n, 0) = GetData(p, n, 0)
  BY ONLY <1>1, p \in Seq(Byte), z \in Seq(Byte), GetDataFront
<1> QED
  BY ONLY <1>2, <1>3, Zenon DEF UDPComputeChecksum

\* Every field of a header that was set is a field of that header that can be set.
LEMMA WhereSet ==
  ASSUME NEW proto \in {1, 6, 17}, NEW n, NEW f, NEW v, RightCall(proto, n, f, v)
  PROVE  /\ f \in DOMAIN IPFields => f \in IPSet
         /\ f \in DOMAIN Fields(proto) =>
              \/ proto = 6 /\ f \in TCPSet
              \/ proto = 17 /\ f \in UDPSet
              \/ proto = 1 /\ f \in ICMPSet
<1>1. f \in DOMAIN IPFields => f \in IPSet
  <2>1. DOMAIN IPFields = IPNames
    BY IPLayout
  <2> QED
    BY ONLY <2>1, RightCall(proto, n, f, v)
       DEF RightCall, IPCall, TCPCall, UDPCall, ICMPCall, IPSet, TCPSet, UDPSet, ICMPSet,
           IPNames, TCPNames, UDPNames, ICMPNames
<1>2. ASSUME f \in DOMAIN Fields(proto)
      PROVE  \/ proto = 6 /\ f \in TCPSet
             \/ proto = 17 /\ f \in UDPSet
             \/ proto = 1 /\ f \in ICMPSet
  <2>1. \/ proto = 6 /\ f \in TCPNames
        \/ proto = 17 /\ f \in UDPNames
        \/ proto = 1 /\ f \in ICMPNames \cup {"pointer"}
    BY <1>2, TCPTable, UDPTable, ICMPTable DEF Fields
  <2> QED
    BY ONLY <2>1, RightCall(proto, n, f, v)
       DEF RightCall, IPCall, TCPCall, UDPCall, ICMPCall, IPSet, TCPSet, UDPSet, ICMPSet,
           IPNames, TCPNames, UDPNames, ICMPNames
<1> QED
  BY <1>1, <1>2

\* The invariant implies the property.
LEMMA ArrivesWhenRight ==
  ASSUME WireInv
  PROVE  ArrivesAsBuilt
<1> SUFFICES ASSUME got # Nothing
             PROVE  /\ got.proto = kind.proto
                    /\ IPChecksumCorrect(got.ip) /\ TransportCorrect
                    /\ \A f \in DOMAIN set :
                         /\ f \in DOMAIN IPFields => Get(IPFields, got.ip, f) = set[f]
                         /\ f \in DOMAIN Fields(kind.proto) =>
                              Get(Fields(kind.proto), got.tr, f) = set[f]
                    /\ Data = payload
  BY DEF ArrivesAsBuilt
<1>1. Finished
  BY GotRight
<1>2. PICK n \in Nat :
        /\ got = [proto |-> kind.proto, ip |-> ip, tr |-> tr, payload |-> payload \o Zeros(n)]
        /\ kind.proto = 1 => n = 0
  BY GotRight
<1>3. /\ got.proto = kind.proto /\ got.ip = ip /\ got.tr = tr
      /\ got.payload = payload \o Zeros(n)
  BY <1>2
<1>4. /\ payload \in Seq(Byte) /\ Zeros(n) \in Seq(Byte) /\ kind.proto \in {1, 6, 17}
      /\ kind.proto = 1 => payload \o Zeros(n) = payload
  <2>1. payload \in Seq(Byte) /\ kind.proto \in {1, 6, 17} /\ Zeros(n) \in Seq(Byte)
    BY <1>1, ZerosBytes DEF Finished
  <2>2. ASSUME n = 0
        PROVE  payload \o Zeros(n) = payload
    <3>1. Zeros(n) = <<>>
      BY <2>2 DEF Zeros
    <3> QED
      BY ONLY <2>1, <3>1
  <2> QED
    BY <1>2, <2>1, <2>2
<1>5. TransportCorrect
  <2>1. CASE kind.proto = 6
    <3>1. TCPComputeChecksum(tr, ip, payload \o Zeros(n)) = 0
      BY <1>1, <1>4, <2>1, TCPSumPadded DEF Finished
    <3> QED
      BY <1>3, <2>1, <3>1 DEF TransportCorrect, TCPChecksumCorrect
  <2>2. CASE kind.proto = 17
    <3>1. UDPComputeChecksum(tr, ip, payload \o Zeros(n)) = 0
      BY <1>1, <1>4, <2>2, UDPSumPadded DEF Finished
    <3> QED
      BY <1>3, <2>2, <3>1 DEF TransportCorrect, UDPChecksumCorrect
  <2>3. CASE kind.proto = 1
    <3>1. ICMPComputeChecksum(tr, payload \o Zeros(n)) = 0
      BY <1>1, <1>4, <2>3 DEF Finished
    <3> QED
      BY <1>3, <2>3, <3>1 DEF TransportCorrect, ICMPChecksumCorrect
  <2> QED
    BY <1>4, <2>1, <2>2, <2>3
<1>6. ASSUME NEW f \in DOMAIN set
      PROVE  /\ f \in DOMAIN IPFields => Get(IPFields, got.ip, f) = set[f]
             /\ f \in DOMAIN Fields(kind.proto) => Get(Fields(kind.proto), got.tr, f) = set[f]
  <2>1. Kept(kind.proto, Len(payload), ip, tr, f, set[f])
    BY <1>6 DEF WireInv, FieldsRight
  <2>2. RightCall(kind.proto, Len(payload), f, set[f])
    BY ONLY <2>1 DEF Kept
  <2>3. /\ f \in DOMAIN IPFields => f \in IPSet
        /\ f \in DOMAIN Fields(kind.proto) =>
              \/ kind.proto = 6 /\ f \in TCPSet
              \/ kind.proto = 17 /\ f \in UDPSet
              \/ kind.proto = 1 /\ f \in ICMPSet
    BY ONLY <1>4, <2>2, WhereSet
  <2>4. /\ kind.proto = 6 => Fields(kind.proto) = TCPFields
        /\ kind.proto = 17 => Fields(kind.proto) = UDPFields
        /\ kind.proto = 1 => Fields(kind.proto) = ICMPFields
    BY ONLY TRUE DEF Fields
  <2> QED
    BY ONLY <1>3, <2>1, <2>3, <2>4 DEF Kept
<1>7. Data = payload
  <2>1. ExtractFront(payload \o Zeros(n), Len(payload)) = payload
    <3>1. PICK k \in Nat : k = Len(payload)
      BY ONLY <1>4
    <3> QED
      BY ONLY <1>4, <3>1, FrontAndAfter
  <2>2. CASE kind.proto = 6
    <3>1. Get(IPFields, ip, "totlen") - 4 * Get(IPFields, ip, "hlen")
            - 4 * Get(TCPFields, tr, "tcphlen") = Len(payload)
      BY <1>1, <2>2 DEF Finished
    <3> QED
      BY ONLY <1>3, <2>1, <2>2, <3>1 DEF Data
  <2>3. CASE kind.proto = 17
    <3>1. Get(UDPFields, tr, "length") - 8 = Len(payload)
      BY <1>1, <2>3 DEF Finished
    <3> QED
      BY ONLY <1>3, <2>1, <2>3, <3>1 DEF Data
  <2>4. CASE kind.proto = 1
    BY ONLY <1>3, <2>1, <2>4 DEF Data
  <2> QED
    BY <1>4, <2>2, <2>3, <2>4
<1> QED
  BY <1>1, <1>3, <1>5, <1>6, <1>7 DEF Finished

\* Every step keeps the invariant.
LEMMA WireStep ==
  ASSUME WireInv, [Next]_vars
  PROVE  WireInv'
<1>1. CASE Set
  BY <1>1, SetRight
<1>2. CASE Send
  BY <1>2, SendRight
<1>3. CASE Receive
  BY <1>3, ReceiveRight
<1>4. CASE Respond
  BY <1>4, RespondRight
<1>5. CASE UNCHANGED vars
  <2>1. BuffersRight' /\ CallsRight' /\ FieldsRight' /\ LengthsRight' /\ SumsRight'
    BY <1>5 DEF vars, WireInv, BuffersRight, CallsRight, FieldsRight, LengthsRight, SumsRight
  <2>2. FrameRight'
    BY <1>5 DEF vars, WireInv, FrameRight, Framed
  <2> QED
    BY <2>1, <2>2 DEF WireInv
<1> QED
  BY <1>1, <1>2, <1>3, <1>4, <1>5 DEF Next

\* Whatever the hosts, ports, numbers and data are, every packet that is built of setters
\* which keep each other's fields arrives as it was built: the receiver finds every field
\* with the value it was last set to, both checksums right and the data without the
\* padding.  BuiltRight leaves out what ICMPPacket gets wrong: a parameter problem, whose
\* pointer the later identifier overwrites (icmp.cc:302), and a timestamp, whose answer
\* has its time set after the checksum.
THEOREM ArrivesTheorem ==
  ASSUME Kinds \subseteq BuiltRight
  PROVE  Spec => []ArrivesAsBuilt
<1>1. Init => WireInv
  BY InitRight
<1>2. WireInv /\ [Next]_vars => WireInv'
  BY WireStep
<1>3. WireInv => ArrivesAsBuilt
  BY ArrivesWhenRight
<1> QED
  BY <1>1, <1>2, <1>3, PTL DEF Spec

=============================================================================
