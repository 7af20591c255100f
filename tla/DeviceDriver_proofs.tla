------------------------- MODULE DeviceDriver_proofs ------------------------
(***************************************************************************)
(* Proofs about DeviceDriver, for rings of any size and any number of      *)
(* frames: both rings are queues, though the signal handler and the main   *)
(* loop work on them in turns; frames keep their order, and each is        *)
(* accounted for.                                                          *)
(*                                                                         *)
(* For the order all the places where a frame may be, one after the other, *)
(* are one line; a step leaves the line as it is, takes a frame out of it, *)
(* which is then one of the frames that are gone, or puts a new one at its *)
(* end.                                                                    *)
(***************************************************************************)
EXTENDS DeviceDriver, TLAPS

-----------------------------------------------------------------------------
(* Rings: what Push and Pull do to the frames that a ring stands for.      *)

\* Going round at most once.
LEMMA ModOnce ==
  ASSUME NEW size \in Nat \ {0}, NEW i \in 0..(2 * size - 1)
  PROVE  i % size = IF i < size THEN i ELSE i - size
<1>1. CASE i < size
  BY <1>1
<1>2. CASE i >= size
  <2>1. i = size * 1 + (i - size) /\ i - size \in 0..(size - 1)
    BY <1>2
  <2> QED
    BY <1>2, <2>1
<1> QED
  BY <1>1, <1>2

\* The slot that follows a slot.
LEMMA NextSlot ==
  ASSUME NEW size \in Nat \ {0, 1}, NEW i \in 0..(size - 1)
  PROVE  (i + 1) % size = IF i = size - 1 THEN 0 ELSE i + 1
<1>1. i + 1 \in 0..(2 * size - 1)
  OBVIOUS
<1> QED
  BY <1>1, ModOnce

\* How many frames there are tells full and empty: one slot stays free.
LEMMA CountFacts ==
  ASSUME NEW size \in Nat \ {0, 1}, NEW r \in Ring(size)
  PROVE  /\ Count(r, size) \in 0..(size - 1)
         /\ IsEmpty(r, size) <=> Count(r, size) = 0
         /\ IsFull(r, size) <=> Count(r, size) = size - 1
<1>1. r.curin \in 0..(size - 1) /\ r.curout \in 0..(size - 1)
  BY DEF Ring
<1>2. (r.curin + 1) % size = IF r.curin = size - 1 THEN 0 ELSE r.curin + 1
  BY <1>1, NextSlot
<1> QED
  BY <1>1, <1>2 DEF Count, IsEmpty, IsFull

\* Numitems is never too high, and 0 only for fewer than two frames.
LEMMA NumitemsFacts ==
  ASSUME NEW size \in Nat \ {0, 1}, NEW r \in Ring(size)
  PROVE  /\ Numitems(r, size) \in Int /\ Numitems(r, size) <= Count(r, size)
         /\ Count(r, size) <= Numitems(r, size) + 1
<1>1. r.curin \in 0..(size - 1) /\ r.curout \in 0..(size - 1)
  BY DEF Ring
<1> QED
  BY <1>1 DEF Count, Numitems

\* The slot of the i-th frame.
Slot(r, size, i) == IF r.curout + i - 1 < size THEN r.curout + i - 1
                    ELSE r.curout + i - 1 - size

LEMMA ContentsFacts ==
  ASSUME NEW size \in Nat \ {0, 1}, NEW r \in Ring(size)
  PROVE  /\ Contents(r, size) \in Seq(Frame \cup {NoFrame})
         /\ Len(Contents(r, size)) = Count(r, size)
         /\ \A i \in 1..Count(r, size) :
              /\ Slot(r, size, i) \in 0..(size - 1)
              /\ Contents(r, size)[i] = r.packet[Slot(r, size, i)]
<1>1. r.curin \in 0..(size - 1) /\ r.curout \in 0..(size - 1)
      /\ r.packet \in [0..(size - 1) -> Frame \cup {NoFrame}]
  BY DEF Ring
<1>2. Count(r, size) \in 0..(size - 1)
  BY CountFacts
<1>3. ASSUME NEW i \in 1..Count(r, size)
      PROVE  /\ Slot(r, size, i) \in 0..(size - 1)
             /\ (r.curout + i - 1) % size = Slot(r, size, i)
  <2> DEFINE k == r.curout + i - 1
  <2>1. k \in 0..(2 * size - 1)
    BY <1>1, <1>2
  <2>2. k % size = IF k < size THEN k ELSE k - size
    <3> HIDE DEF k
    <3> QED
      BY <2>1, ModOnce
  <2> QED
    BY <1>1, <1>2, <2>1, <2>2 DEF Slot
<1>4. Contents(r, size) = [i \in 1..Count(r, size) |-> r.packet[Slot(r, size, i)]]
  BY <1>3 DEF Contents
<1> DEFINE n    == Count(r, size)
           e(i) == r.packet[Slot(r, size, i)]
<1>5. n \in Nat /\ \A i \in 1..n : e(i) \in Frame \cup {NoFrame}
  BY <1>1, <1>2, <1>3
<1>6. Contents(r, size) = [i \in 1..n |-> e(i)]
  BY <1>4
<1>7. Contents(r, size) \in Seq(Frame \cup {NoFrame}) /\ Len(Contents(r, size)) = n
  <2> HIDE DEF n, e
  <2> QED
    BY <1>5, <1>6
<1>8. \A i \in 1..n : Contents(r, size)[i] = e(i)
  <2> HIDE DEF n, e
  <2> QED
    BY <1>6
<1> QED
  BY <1>3, <1>7, <1>8

\* Push puts a frame at the end, unless the ring is full.
LEMMA PushIsAppend ==
  ASSUME NEW size \in Nat \ {0, 1}, NEW r \in Ring(size), NEW f \in Frame,
         ~IsFull(r, size)
  PROVE  /\ Push(r, size, f) \in Ring(size)
         /\ Count(Push(r, size, f), size) = Count(r, size) + 1
         /\ Contents(Push(r, size, f), size) = Append(Contents(r, size), f)
<1> DEFINE q == Push(r, size, f)
           n == Count(r, size)
<1>1. r.curin \in 0..(size - 1) /\ r.curout \in 0..(size - 1)
      /\ r.packet \in [0..(size - 1) -> Frame \cup {NoFrame}]
  BY DEF Ring
<1>2. q.packet = [r.packet EXCEPT ![r.curin] = f] /\ q.curout = r.curout
      /\ q.curin = (IF r.curin = size - 1 THEN 0 ELSE r.curin + 1)
  BY <1>1, NextSlot DEF Push
<1>3. q \in Ring(size)
  <2>1. q.packet \in [0..(size - 1) -> Frame \cup {NoFrame}] /\ q.curin \in 0..(size - 1)
    BY <1>1, <1>2
  <2> QED
    BY <1>1, <2>1 DEF Ring, Push
<1> HIDE DEF q
<1>4. n \in 0..(size - 2) /\ Count(q, size) = n + 1
  <2>1. n \in 0..(size - 2)
    BY CountFacts
  <2>2. ~(q.curin = q.curout)
    BY CountFacts, <1>1, <1>2, <2>1 DEF Count
  <2> QED
    BY <1>1, <1>2, <2>1, <2>2 DEF Count
<1>5. Slot(r, size, n + 1) = r.curin
  BY <1>1, <1>4, SMTT(30) DEF Slot, Count
<1>6. ASSUME NEW i \in 1..n
      PROVE  Slot(q, size, i) = Slot(r, size, i) /\ Slot(r, size, i) # r.curin
  <2>1. Slot(q, size, i) = Slot(r, size, i)
    BY <1>2 DEF Slot
  <2>2. n = IF r.curin >= r.curout THEN r.curin - r.curout ELSE size - (r.curout - r.curin)
    BY DEF Count
  <2>3. Slot(r, size, i) = IF r.curout + i - 1 < size THEN r.curout + i - 1
                           ELSE r.curout + i - 1 - size
    BY DEF Slot
  <2> HIDE DEF n
  <2>4. Slot(r, size, i) # r.curin
    BY <1>1, <1>4, <2>2, <2>3, SMTT(30)
  <2> QED
    BY <2>1, <2>4
<1>7. Slot(q, size, n + 1) = r.curin
  BY <1>2, <1>5 DEF Slot
<1>8. \A i \in 1..n : Contents(q, size)[i] = Contents(r, size)[i]
  <2> SUFFICES ASSUME NEW i \in 1..n PROVE Contents(q, size)[i] = Contents(r, size)[i]
    OBVIOUS
  <2>1. i \in 1..Count(q, size)
    BY <1>4
  <2>2. Contents(q, size)[i] = q.packet[Slot(q, size, i)]
        /\ Contents(r, size)[i] = r.packet[Slot(r, size, i)] /\ Slot(r, size, i) \in 0..(size - 1)
    BY <1>3, <2>1, ContentsFacts
  <2> QED
    BY <1>1, <1>2, <1>6, <2>2
<1>9. Contents(q, size)[n + 1] = f
  <2>1. n + 1 \in 1..Count(q, size)
    BY <1>4
  <2>2. Contents(q, size)[n + 1] = q.packet[Slot(q, size, n + 1)]
    BY <1>3, <2>1, ContentsFacts
  <2> QED
    BY <1>1, <1>2, <1>7, <2>2
<1>10. Contents(q, size) = Append(Contents(r, size), f)
  <2> DEFINE s == Contents(r, size)
             t == Contents(q, size)
  <2>1. s \in Seq(Frame \cup {NoFrame}) /\ t \in Seq(Frame \cup {NoFrame})
        /\ Len(s) = n /\ Len(t) = n + 1
    BY <1>3, <1>4, ContentsFacts
  <2>2. \A i \in 1..n : t[i] = s[i]
    BY <1>8
  <2>3. t[n + 1] = f
    BY <1>9
  <2> HIDE DEF s, t, n
  <2> QED
    BY <2>1, <2>2, <2>3 DEF s, t
<1> QED
  BY <1>3, <1>4, <1>10 DEF q

\* Pull takes the first frame away.
LEMMA PullIsTail ==
  ASSUME NEW size \in Nat \ {0, 1}, NEW r \in Ring(size), ~IsEmpty(r, size)
  PROVE  /\ Pull(r, size) \in Ring(size)
         /\ Count(Pull(r, size), size) = Count(r, size) - 1
         /\ Contents(r, size) # <<>> /\ First(r) = Head(Contents(r, size))
         /\ Contents(Pull(r, size), size) = Tail(Contents(r, size))
<1> DEFINE q == Pull(r, size)
           n == Count(r, size)
<1>1. r.curin \in 0..(size - 1) /\ r.curout \in 0..(size - 1)
      /\ r.packet \in [0..(size - 1) -> Frame \cup {NoFrame}]
  BY DEF Ring
<1>2. q.packet = r.packet /\ q.curin = r.curin
      /\ q.curout = (IF r.curout = size - 1 THEN 0 ELSE r.curout + 1)
  BY <1>1, NextSlot DEF Pull, Ring
<1>3. q \in Ring(size)
  <2>1. q.curout \in 0..(size - 1)
    BY <1>1, <1>2
  <2> QED
    BY <1>1, <2>1 DEF Ring, Pull
<1> HIDE DEF q
<1>4. n \in 1..(size - 1) /\ Count(q, size) = n - 1
  <2>1. n \in 1..(size - 1)
    BY CountFacts
  <2> QED
    BY <1>1, <1>2, <2>1 DEF Count
<1>5. \A i \in 1..(n - 1) : Slot(q, size, i) = Slot(r, size, i + 1)
  BY <1>1, <1>2, <1>4 DEF Slot, Count
<1>6. \A i \in 1..(n - 1) : Contents(q, size)[i] = Contents(r, size)[i + 1]
  <2> SUFFICES ASSUME NEW i \in 1..(n - 1)
               PROVE  Contents(q, size)[i] = Contents(r, size)[i + 1]
    OBVIOUS
  <2>1. i \in 1..Count(q, size) /\ i + 1 \in 1..Count(r, size)
    BY <1>4
  <2>2. Contents(q, size)[i] = q.packet[Slot(q, size, i)]
        /\ Contents(r, size)[i + 1] = r.packet[Slot(r, size, i + 1)]
    BY <1>3, <2>1, ContentsFacts
  <2> QED
    BY <1>2, <1>5, <2>2
<1>7. Contents(r, size)[1] = First(r)
  <2>1. 1 \in 1..Count(r, size)
    BY <1>4
  <2>2. Contents(r, size)[1] = r.packet[Slot(r, size, 1)]
    BY <2>1, ContentsFacts
  <2> QED
    BY <1>1, <2>2 DEF Slot, First
<1>8. Contents(q, size) = Tail(Contents(r, size)) /\ Contents(r, size) # <<>>
      /\ First(r) = Head(Contents(r, size))
  <2> DEFINE s == Contents(r, size)
             t == Contents(q, size)
  <2>1. s \in Seq(Frame \cup {NoFrame}) /\ t \in Seq(Frame \cup {NoFrame})
        /\ Len(s) = n /\ Len(t) = n - 1 /\ n \in Nat \ {0}
    BY <1>3, <1>4, ContentsFacts
  <2>2. \A i \in 1..(n - 1) : t[i] = s[i + 1]
    BY <1>6
  <2>3. s[1] = First(r)
    BY <1>7
  <2> HIDE DEF s, t, n
  <2> QED
    BY <2>1, <2>2, <2>3 DEF s, t
<1> QED
  BY <1>3, <1>4, <1>8 DEF q

\* A new ring is empty.
LEMMA EmptyRingFacts ==
  ASSUME NEW size \in Nat \ {0, 1}
  PROVE  /\ EmptyRing(size) \in Ring(size) /\ Count(EmptyRing(size), size) = 0
         /\ Contents(EmptyRing(size), size) = <<>>
BY DEF EmptyRing, Ring, Count, Contents
-----------------------------------------------------------------------------
(* The same for a ring that holds frames between curout and curin.         *)
Holds(r, size) == r \in Ring(size) /\ Contents(r, size) \in Seq(Frame)

LEMMA EmptyHolds ==
  ASSUME NEW size \in Nat \ {0, 1}
  PROVE  Holds(EmptyRing(size), size)
<1>1. <<>> \in Seq(Frame)
  OBVIOUS
<1> QED
  BY <1>1, EmptyRingFacts DEF Holds

LEMMA PushHolds ==
  ASSUME NEW size \in Nat \ {0, 1}, NEW r, Holds(r, size), NEW f \in Frame
  PROVE  LET q == Push(r, size, f)
             s == Contents(r, size)
         IN  /\ Holds(q, size)
             /\ IF IsFull(r, size) THEN Len(s) = size - 1 /\ q = r
                ELSE Len(s) < size - 1 /\ Contents(q, size) = Append(s, f)
<1>1. r \in Ring(size) /\ Contents(r, size) \in Seq(Frame)
  BY DEF Holds
<1>2. Count(r, size) \in 0..(size - 1) /\ Len(Contents(r, size)) = Count(r, size)
      /\ (IsFull(r, size) <=> Count(r, size) = size - 1)
  BY <1>1, CountFacts, ContentsFacts
<1>3. CASE IsFull(r, size)
  BY <1>1, <1>2, <1>3 DEF Push, Holds
<1>4. CASE ~IsFull(r, size)
  <2>1. Push(r, size, f) \in Ring(size)
        /\ Contents(Push(r, size, f), size) = Append(Contents(r, size), f)
    BY <1>1, <1>4, PushIsAppend
  <2>2. Append(Contents(r, size), f) \in Seq(Frame)
    BY <1>1
  <2> QED
    BY <1>2, <1>4, <2>1, <2>2 DEF Holds
<1> QED
  BY <1>3, <1>4

LEMMA PullHolds ==
  ASSUME NEW size \in Nat \ {0, 1}, NEW r, Holds(r, size)
  PROVE  LET q == Pull(r, size)
             s == Contents(r, size)
         IN  /\ Holds(q, size)
             /\ IF IsEmpty(r, size) THEN s = <<>> /\ q = r
                ELSE /\ s # <<>> /\ First(r) = Head(s) /\ First(r) \in Frame
                     /\ Contents(q, size) = Tail(s)
<1>1. r \in Ring(size) /\ Contents(r, size) \in Seq(Frame)
  BY DEF Holds
<1>2. Len(Contents(r, size)) = Count(r, size) /\ (IsEmpty(r, size) <=> Count(r, size) = 0)
  BY <1>1, CountFacts, ContentsFacts
<1>3. CASE IsEmpty(r, size)
  BY <1>1, <1>2, <1>3 DEF Pull, Holds
<1>4. CASE ~IsEmpty(r, size)
  <2>1. Pull(r, size) \in Ring(size) /\ Contents(r, size) # <<>>
        /\ First(r) = Head(Contents(r, size))
        /\ Contents(Pull(r, size), size) = Tail(Contents(r, size))
    BY <1>1, <1>4, PullIsTail
  <2>2. Tail(Contents(r, size)) \in Seq(Frame) /\ Head(Contents(r, size)) \in Frame
    BY <1>1, <2>1
  <2> QED
    BY <1>4, <2>1, <2>2 DEF Holds
<1> QED
  BY <1>3, <1>4

-----------------------------------------------------------------------------
(* The inductive invariant.                                                *)
RingsRight == Holds(inq, InSize) /\ Holds(outq, OutSize)

MainRight ==
  /\ pc \in {"test", "watching", "select", "found", "critical"}
  /\ watch \in BOOLEAN /\ ready \subseteq {"muxin", "muxout"}
  /\ "muxin" \in ready => fromMux # <<>>

QueuesRight ==
  /\ fromReader \in Seq(Frame) /\ toWriter \in Seq(Frame) /\ toMux \in Seq(Frame)
  /\ fromMux \in Seq(Frame) /\ launched \in Seq(Frame)
  /\ flags \in Seq({"DMA_DONE", "DMA_FAIL"})

RestRight ==
  /\ pending \in BOOLEAN /\ handling \in BOOLEAN /\ unsignalled \in BOOLEAN
  /\ came \in [Direction -> 0..MaxFrames]
  /\ gone \in [Drop -> SUBSET Frame]

DriverInv == RingsRight /\ MainRight /\ QueuesRight /\ RestRight /\ KeepsBackOne

\* What each ring may do in a step, and what becomes of the frames it refuses.
InStep  == [InQueue!Next]_<<Contents(inq, InSize), gone["in"]>>
OutStep == [OutQueue!Next]_<<Contents(outq, OutSize), gone["out"]>>

Good == DriverInv' /\ InStep /\ OutStep

LEMMA Sizes == InSize \in Nat \ {0, 1} /\ OutSize \in Nat \ {0, 1}
BY SizeAssumption

LEMMA DriverInvSuffices == DriverInv => TypeOK /\ KeepsBackOne
BY DEF DriverInv, RingsRight, Holds, MainRight, QueuesRight, RestRight, TypeOK

LEMMA DriverInvInit == Init => DriverInv /\ InQueue!Init /\ OutQueue!Init
<1> SUFFICES ASSUME Init PROVE DriverInv /\ InQueue!Init /\ OutQueue!Init
  OBVIOUS
<1>1. inq = EmptyRing(InSize) /\ outq = EmptyRing(OutSize)
  BY DEF Init
<1>2. RingsRight /\ KeepsBackOne /\ Contents(inq, InSize) = <<>> /\ Contents(outq, OutSize) = <<>>
  <2>1. Holds(inq, InSize) /\ Holds(outq, OutSize)
    BY <1>1, Sizes, EmptyHolds
  <2>2. Contents(inq, InSize) = <<>> /\ Contents(outq, OutSize) = <<>>
        /\ Count(outq, OutSize) = 0
    BY <1>1, Sizes, EmptyRingFacts
  <2> QED
    BY <2>1, <2>2 DEF RingsRight, KeepsBackOne
<1>3. gone["in"] = {} /\ gone["out"] = {}
  BY DEF Init, Drop, Direction
<1>4. MainRight
  BY DEF Init, MainRight
<1>5. QueuesRight
  <2>1. \A S : <<>> \in Seq(S)
    OBVIOUS
  <2> QED
    BY <2>1 DEF Init, QueuesRight
<1>6. RestRight
  <2>1. 0 \in 0..MaxFrames
    BY FrameAssumption
  <2>2. came \in [Direction -> 0..MaxFrames] /\ gone \in [Drop -> SUBSET Frame]
    BY <2>1 DEF Init
  <2> QED
    BY <2>2 DEF Init, RestRight
<1> QED
  BY <1>2, <1>3, <1>4, <1>5, <1>6 DEF DriverInv, InQueue!Init, OutQueue!Init

-----------------------------------------------------------------------------
\* A step that leaves the rings alone.
LEMMA RingsKept ==
  ASSUME DriverInv, UNCHANGED <<inq, outq>>,
         gone'["in"] = gone["in"], gone'["out"] = gone["out"]
  PROVE  RingsRight' /\ KeepsBackOne' /\ InStep /\ OutStep
BY DEF DriverInv, RingsRight, Holds, KeepsBackOne, Count, Contents, Ring, InStep, OutStep

\* A frame that comes has a number that is not too high.
LEMMA NextFrame ==
  ASSUME RestRight, NEW d \in Direction, came[d] < MaxFrames
  PROVE  /\ came[d] + 1 \in Frame
         /\ [came EXCEPT ![d] = @ + 1] \in [Direction -> 0..MaxFrames]
<1>1. came[d] \in 0..MaxFrames /\ MaxFrames \in Nat
  BY FrameAssumption DEF RestRight
<1>2. came[d] + 1 \in 1..MaxFrames /\ came[d] + 1 \in 0..MaxFrames
  BY <1>1
<1> QED
  BY <1>2, FrameAssumption DEF RestRight

LEMMA ReaderGood == DriverInv /\ (ReaderWrite \/ ReaderSignal) => Good
<1>1. ASSUME DriverInv, ReaderWrite PROVE Good
  <2>1. RingsRight' /\ KeepsBackOne' /\ InStep /\ OutStep
    BY <1>1, RingsKept DEF ReaderWrite
  <2>2. came["in"] + 1 \in Frame /\ came' \in [Direction -> 0..MaxFrames]
        /\ came'["in"] = came["in"] + 1
    BY <1>1, NextFrame DEF ReaderWrite, DriverInv, RestRight, Direction
  <2>3. MainRight' /\ QueuesRight' /\ RestRight'
    BY <1>1, <2>2 DEF ReaderWrite, DriverInv, MainRight, QueuesRight, RestRight,
       mainSide, writerSide, muxSide
  <2> QED
    BY <2>1, <2>3 DEF Good, DriverInv
<1>2. ASSUME DriverInv, ReaderSignal PROVE Good
  <2>1. RingsRight' /\ KeepsBackOne' /\ InStep /\ OutStep
    BY <1>2, RingsKept DEF ReaderSignal
  <2>2. MainRight' /\ QueuesRight' /\ RestRight'
    BY <1>2 DEF ReaderSignal, DriverInv, MainRight, QueuesRight, RestRight,
       mainSide, writerSide, muxSide
  <2> QED
    BY <2>1, <2>2 DEF Good, DriverInv
<1> QED
  BY <1>1, <1>2

LEMMA WriterGood == DriverInv /\ Writer => Good
<1> SUFFICES ASSUME DriverInv, Writer PROVE Good
  OBVIOUS
<1>1. toWriter # <<>> /\ toWriter' = Tail(toWriter)
      /\ UNCHANGED <<inq, outq, mainSide, pending, handling, readerSide, muxSide, came>>
  BY DEF Writer, WriterDiscard, WriterLaunch, writerSide
<1>2. Head(toWriter) \in Frame /\ toWriter' \in Seq(Frame)
  BY <1>1 DEF DriverInv, QueuesRight
<1>3. \/ gone' = [gone EXCEPT !["writer"] = @ \cup {Head(toWriter)}]
      \/ gone' = gone
  BY DEF Writer, WriterDiscard, WriterLaunch
<1>4. gone' \in [Drop -> SUBSET Frame] /\ gone'["in"] = gone["in"] /\ gone'["out"] = gone["out"]
  BY <1>2, <1>3 DEF DriverInv, RestRight, Drop, Direction
<1>5. flags' \in Seq({"DMA_DONE", "DMA_FAIL"}) /\ launched' \in Seq(Frame)
  <2> DEFINE Flag == {"DMA_DONE", "DMA_FAIL"}
  <2>1. flags \in Seq(Flag) /\ launched \in Seq(Frame) /\ {"DMA_DONE", "DMA_FAIL"} = Flag
    BY DEF DriverInv, QueuesRight
  <2>2. /\ flags' \in {flags, Append(flags, "DMA_DONE"), Append(flags, "DMA_FAIL")}
        /\ launched' \in {launched, Append(launched, Head(toWriter))}
    BY DEF Writer, WriterDiscard, WriterLaunch
  <2>3. "DMA_DONE" \in Flag /\ "DMA_FAIL" \in Flag
    OBVIOUS
  <2> HIDE DEF Flag
  <2>4. \A S : \A q \in Seq(S), x \in S : Append(q, x) \in Seq(S)
    OBVIOUS
  <2>5. flags' \in Seq(Flag)
    BY <2>1, <2>2, <2>3, <2>4
  <2>6. launched' \in Seq(Frame)
    BY <1>2, <2>1, <2>2, <2>4
  <2> QED
    BY <2>1, <2>5, <2>6
<1>6. RingsRight' /\ KeepsBackOne' /\ InStep /\ OutStep
  BY <1>1, <1>4, RingsKept
<1>7. MainRight' /\ QueuesRight' /\ RestRight'
  BY <1>1, <1>2, <1>4, <1>5 DEF DriverInv, MainRight, QueuesRight, RestRight,
     mainSide, readerSide, muxSide
<1> QED
  BY <1>6, <1>7 DEF Good, DriverInv

-----------------------------------------------------------------------------
(* The signal handler.                                                     *)
LEMMA HandlerControl == DriverInv /\ (Interrupt \/ HandlerReturns) => Good
<1> SUFFICES ASSUME DriverInv, Interrupt \/ HandlerReturns PROVE Good
  OBVIOUS
<1>1. RingsRight' /\ KeepsBackOne' /\ InStep /\ OutStep
  BY RingsKept DEF Interrupt, HandlerReturns
<1>2. MainRight' /\ QueuesRight' /\ RestRight'
  BY DEF Interrupt, HandlerReturns, DriverInv, MainRight, QueuesRight, RestRight, mainSide,
     readerSide, writerSide, muxSide
<1> QED
  BY <1>1, <1>2 DEF Good, DriverInv

\* A frame that goes into a ring is put into the queue, or refused by it.
LEMMA ReceiveGood ==
  ASSUME DriverInv, NEW f \in Frame, ReceiveNextPacket(f)
  PROVE  /\ Holds(inq', InSize) /\ gone' \in [Drop -> SUBSET Frame]
         /\ gone'["out"] = gone["out"] /\ InStep
<1>1. Holds(inq, InSize) /\ gone \in [Drop -> SUBSET Frame]
  BY DEF DriverInv, RingsRight, RestRight
<1>2. /\ Holds(inq', InSize)
      /\ IF IsFull(inq, InSize) THEN Len(Contents(inq, InSize)) = InSize - 1 /\ inq' = inq
         ELSE /\ Len(Contents(inq, InSize)) < InSize - 1
              /\ Contents(inq', InSize) = Append(Contents(inq, InSize), f)
  BY <1>1, Sizes, PushHolds DEF ReceiveNextPacket
<1>3. gone' = IF IsFull(inq, InSize) THEN [gone EXCEPT !["in"] = @ \cup {f}] ELSE gone
  BY DEF ReceiveNextPacket
<1>4. gone' \in [Drop -> SUBSET Frame] /\ gone'["out"] = gone["out"]
      /\ gone'["in"] = IF IsFull(inq, InSize) THEN gone["in"] \cup {f} ELSE gone["in"]
  BY <1>1, <1>3 DEF Drop, Direction
<1>5. InQueue!Put(f)
  <2>1. CASE IsFull(inq, InSize)
    BY <1>2, <1>4, <2>1, Sizes DEF InQueue!Put
  <2>2. CASE ~IsFull(inq, InSize)
    BY <1>2, <1>4, <2>2 DEF InQueue!Put
  <2> QED
    BY <2>1, <2>2
<1> QED
  BY <1>2, <1>4, <1>5 DEF InStep, InQueue!Next

\* The frame that is sent is the first of the queue.
LEMMA SendNextGood ==
  ASSUME NEW ring, Holds(ring, OutSize), toWriter \in Seq(Frame), SendNextPacket(ring)
  PROVE  /\ Holds(outq', OutSize) /\ toWriter' \in Seq(Frame)
         /\ IF IsEmpty(ring, OutSize) THEN outq' = ring /\ Contents(ring, OutSize) = <<>>
            ELSE /\ Contents(ring, OutSize) # <<>>
                 /\ Contents(outq', OutSize) = Tail(Contents(ring, OutSize))
         /\ Count(outq', OutSize) =
              IF IsEmpty(ring, OutSize) THEN Count(ring, OutSize) ELSE Count(ring, OutSize) - 1
<1>1. outq' = Pull(ring, OutSize) /\ ring \in Ring(OutSize)
  BY DEF SendNextPacket, Holds
<1>2. /\ Holds(outq', OutSize)
      /\ IF IsEmpty(ring, OutSize) THEN outq' = ring /\ Contents(ring, OutSize) = <<>>
         ELSE /\ Contents(ring, OutSize) # <<>> /\ First(ring) \in Frame
              /\ Contents(outq', OutSize) = Tail(Contents(ring, OutSize))
  BY <1>1, Sizes, PullHolds
<1>3. toWriter' = IF IsEmpty(ring, OutSize) THEN toWriter ELSE Append(toWriter, First(ring))
  BY DEF SendNextPacket, EthernetInitiateSend
<1>4. CASE IsEmpty(ring, OutSize)
  BY <1>2, <1>3, <1>4
<1>5. CASE ~IsEmpty(ring, OutSize)
  <2>1. Count(outq', OutSize) = Count(ring, OutSize) - 1
    BY <1>1, <1>5, Sizes, PullIsTail
  <2> QED
    BY <1>2, <1>3, <1>5, <2>1
<1> QED
  BY <1>4, <1>5

LEMMA HandlerLooksGood == DriverInv /\ HandlerLooks => Good
<1> SUFFICES ASSUME DriverInv, HandlerLooks PROVE Good
  OBVIOUS
<1>1. UNCHANGED <<mainSide, pending, handling, unsignalled, launched, muxSide, came>>
  BY DEF HandlerLooks
<1>2. /\ Holds(inq', InSize) /\ gone' \in [Drop -> SUBSET Frame]
      /\ gone'["out"] = gone["out"] /\ InStep /\ fromReader' \in Seq(Frame)
  <2>1. CASE fromReader # <<>>
    <3>1. Head(fromReader) \in Frame /\ Tail(fromReader) \in Seq(Frame)
      BY <2>1 DEF DriverInv, QueuesRight
    <3>2. ReceiveNextPacket(Head(fromReader)) /\ fromReader' = Tail(fromReader)
      BY <2>1 DEF HandlerLooks, EthernetGetNextPacket
    <3> QED
      BY <3>1, <3>2, ReceiveGood
  <2>2. CASE fromReader = <<>>
    <3>1. UNCHANGED <<inq, gone, fromReader>>
      BY <2>2 DEF HandlerLooks
    <3> QED
      BY <3>1 DEF DriverInv, RingsRight, RestRight, QueuesRight, InStep, Holds, Contents, Count,
         Ring
  <2> QED
    BY <2>1, <2>2
<1>3. /\ Holds(outq', OutSize) /\ KeepsBackOne' /\ OutStep
      /\ toWriter' \in Seq(Frame) /\ flags' \in Seq({"DMA_DONE", "DMA_FAIL"})
  <2>1. Holds(outq, OutSize) /\ toWriter \in Seq(Frame) /\ Count(outq, OutSize) <= 1
        /\ flags \in Seq({"DMA_DONE", "DMA_FAIL"})
    BY DEF DriverInv, RingsRight, QueuesRight, KeepsBackOne
  <2>2. CASE flags # <<>>
    <3>1. SendNextPacket(outq) /\ flags' = Tail(flags)
      BY <2>2 DEF HandlerLooks
    <3>2. flags' \in Seq({"DMA_DONE", "DMA_FAIL"})
      BY <2>1, <2>2, <3>1
    <3>3. /\ Holds(outq', OutSize) /\ toWriter' \in Seq(Frame)
          /\ IF IsEmpty(outq, OutSize) THEN outq' = outq /\ Contents(outq, OutSize) = <<>>
             ELSE /\ Contents(outq, OutSize) # <<>>
                  /\ Contents(outq', OutSize) = Tail(Contents(outq, OutSize))
          /\ Count(outq', OutSize) =
               IF IsEmpty(outq, OutSize) THEN Count(outq, OutSize) ELSE Count(outq, OutSize) - 1
      BY <2>1, <3>1, SendNextGood
    <3>4. KeepsBackOne'
      <4>1. Count(outq, OutSize) \in Nat
        BY <2>1, Sizes, CountFacts DEF Holds
      <4> QED
        BY <2>1, <3>3, <4>1 DEF KeepsBackOne
    <3>5. OutStep
      BY <1>2, <3>3 DEF OutStep, OutQueue!Next, OutQueue!Get
    <3> QED
      BY <3>2, <3>3, <3>4, <3>5
  <2>3. CASE flags = <<>>
    <3>1. UNCHANGED <<outq, toWriter, flags>>
      BY <2>3 DEF HandlerLooks
    <3>2. Holds(outq', OutSize) /\ KeepsBackOne' /\ OutStep
      BY <1>2, <2>1, <3>1 DEF KeepsBackOne, OutStep
    <3> QED
      BY <2>1, <3>1, <3>2
  <2> QED
    BY <2>2, <2>3
<1>4. MainRight' /\ QueuesRight' /\ RestRight'
  BY <1>1, <1>2, <1>3 DEF DriverInv, MainRight, QueuesRight, RestRight, mainSide, muxSide
<1> QED
  BY <1>2, <1>3, <1>4 DEF Good, DriverInv, RingsRight

-----------------------------------------------------------------------------
(* The main loop.                                                          *)
LEMMA SelectGood == DriverInv /\ (Watch \/ CallSelect \/ SelectReturns \/ BlockSignal) => Good
<1> SUFFICES ASSUME DriverInv, Watch \/ CallSelect \/ SelectReturns \/ BlockSignal PROVE Good
  OBVIOUS
<1>1. UNCHANGED <<inq, outq, pending, handling, readerSide, writerSide, muxSide, came, gone>>
  BY DEF Watch, CallSelect, SelectReturns, BlockSignal, Goes
<1>2. RingsRight' /\ KeepsBackOne' /\ InStep /\ OutStep
  BY <1>1, RingsKept
<1>3. QueuesRight' /\ RestRight'
  BY <1>1 DEF DriverInv, QueuesRight, RestRight, readerSide, writerSide, muxSide
<1>4. MainRight'
  <2>1. CASE Watch
    BY <1>1, <2>1 DEF Watch, DriverInv, MainRight, muxSide
  <2>2. CASE CallSelect \/ BlockSignal
    BY <1>1, <2>2 DEF CallSelect, BlockSignal, Goes, DriverInv, MainRight, muxSide
  <2>3. CASE SelectReturns
    <3>1. pc' = "found" /\ UNCHANGED watch
      BY <2>3 DEF SelectReturns, Goes
    <3>2. ready' \subseteq {"muxin", "muxout"} /\ ("muxin" \in ready' => fromMux # <<>>)
      BY <2>3 DEF SelectReturns
    <3> QED
      BY <1>1, <3>1, <3>2 DEF DriverInv, MainRight, muxSide
  <2> QED
    BY <2>1, <2>2, <2>3
<1> QED
  BY <1>2, <1>3, <1>4 DEF Good, DriverInv

LEMMA MuxSendsGood == DriverInv /\ MuxSends => Good
<1> SUFFICES ASSUME DriverInv, MuxSends PROVE Good
  OBVIOUS
<1>1. RingsRight' /\ KeepsBackOne' /\ InStep /\ OutStep
  BY RingsKept DEF MuxSends
<1>2. came["out"] + 1 \in Frame /\ came' \in [Direction -> 0..MaxFrames]
      /\ came'["out"] = came["out"] + 1
  BY NextFrame DEF MuxSends, DriverInv, RestRight, Direction
<1>3. fromMux' \in Seq(Frame) /\ fromMux' # <<>>
  BY <1>2 DEF MuxSends, DriverInv, QueuesRight
<1>4. MainRight' /\ QueuesRight' /\ RestRight'
  BY <1>2, <1>3 DEF MuxSends, DriverInv, MainRight, QueuesRight, RestRight, mainSide, readerSide,
     writerSide
<1> QED
  BY <1>1, <1>4 DEF Good, DriverInv

\* The frame of ethernet_mux comes last in the queue, and the first of the queue is
\* sent, but for one that Numitems may not see.
LEMMA FromMuxGood ==
  ASSUME DriverInv, FromMux
  PROVE  /\ Holds(outq', OutSize) /\ KeepsBackOne' /\ OutStep
         /\ toWriter' \in Seq(Frame) /\ fromMux' \in Seq(Frame)
         /\ gone' \in [Drop -> SUBSET Frame] /\ gone'["in"] = gone["in"]
<1>1. /\ Holds(outq, OutSize) /\ toWriter \in Seq(Frame) /\ fromMux \in Seq(Frame)
      /\ Count(outq, OutSize) <= 1 /\ gone \in [Drop -> SUBSET Frame]
  BY DEF DriverInv, RingsRight, QueuesRight, RestRight, KeepsBackOne
<1>2. CASE "muxin" \notin ready
  <2>1. UNCHANGED <<outq, toWriter, fromMux, gone>>
    BY <1>2 DEF FromMux
  <2> QED
    BY <1>1, <2>1 DEF KeepsBackOne, OutStep
<1>3. CASE "muxin" \in ready
  <2> DEFINE f    == Head(fromMux)
             ring == Push(outq, OutSize, f)
             full == IsFull(outq, OutSize)
             s    == Contents(outq, OutSize)
  <2>1. f \in Frame /\ fromMux' = Tail(fromMux) /\ fromMux' \in Seq(Frame)
    BY <1>1, <1>3, SMTT(30) DEF FromMux, DriverInv, MainRight
  <2>2. /\ gone' = IF full THEN [gone EXCEPT !["out"] = @ \cup {f}] ELSE gone
        /\ IF Numitems(ring, OutSize) > 0 THEN SendNextPacket(ring)
           ELSE outq' = ring /\ UNCHANGED toWriter
    BY <1>3 DEF FromMux, StartSend
  <2>3. /\ Holds(ring, OutSize)
        /\ IF full THEN Len(s) = OutSize - 1 /\ ring = outq
           ELSE Len(s) < OutSize - 1 /\ Contents(ring, OutSize) = Append(s, f)
    BY <1>1, <2>1, Sizes, PushHolds
  <2>4. /\ Count(ring, OutSize) \in Nat /\ Count(ring, OutSize) <= 2
        /\ Numitems(ring, OutSize) \in Int
        /\ Numitems(ring, OutSize) <= Count(ring, OutSize)
        /\ Count(ring, OutSize) <= Numitems(ring, OutSize) + 1
        /\ (IsEmpty(ring, OutSize) <=> Count(ring, OutSize) = 0)
    <3>1. ring \in Ring(OutSize) /\ outq \in Ring(OutSize)
      BY <1>1, <2>3 DEF Holds
    <3>2. Count(ring, OutSize) = IF full THEN Count(outq, OutSize) ELSE Count(outq, OutSize) + 1
      BY <2>1, <2>3, <3>1, Sizes, PushIsAppend
    <3>3. Count(outq, OutSize) \in Nat
      BY <3>1, Sizes, CountFacts
    <3> HIDE DEF ring
    <3>4. Count(ring, OutSize) \in Nat /\ (IsEmpty(ring, OutSize) <=> Count(ring, OutSize) = 0)
      BY <3>1, Sizes, CountFacts
    <3>5. /\ Numitems(ring, OutSize) \in Int
          /\ Numitems(ring, OutSize) <= Count(ring, OutSize)
          /\ Count(ring, OutSize) <= Numitems(ring, OutSize) + 1
      BY <3>1, Sizes, NumitemsFacts
    <3> QED
      BY <1>1, <3>2, <3>3, <3>4, <3>5
  <2>5. /\ gone' \in [Drop -> SUBSET Frame] /\ gone'["in"] = gone["in"]
        /\ gone'["out"] = IF full THEN gone["out"] \cup {f} ELSE gone["out"]
    BY <1>1, <2>1, <2>2 DEF Drop, Direction
  <2>6. CASE Numitems(ring, OutSize) > 0
    <3> HIDE DEF ring, f, full, s
    <3>1. SendNextPacket(ring) /\ ~IsEmpty(ring, OutSize)
      BY <2>2, <2>4, <2>6
    <3>2. /\ Holds(outq', OutSize) /\ toWriter' \in Seq(Frame)
          /\ Contents(outq', OutSize) = Tail(Contents(ring, OutSize))
          /\ Count(outq', OutSize) = Count(ring, OutSize) - 1
      BY <1>1, <2>3, <3>1, SendNextGood
    <3>3. KeepsBackOne'
      BY <2>4, <3>2 DEF KeepsBackOne
    <3>4. OutQueue!PutGet(f)
      <4>1. CASE full
        BY <2>3, <2>5, <3>2, <4>1, Sizes DEF OutQueue!PutGet, s
      <4>2. CASE ~full
        BY <2>3, <2>5, <3>2, <4>2, Sizes DEF OutQueue!PutGet, s
      <4> QED
        BY <4>1, <4>2
    <3> QED
      BY <2>1, <2>5, <3>2, <3>3, <3>4 DEF OutStep, OutQueue!Next
  <2>7. CASE ~(Numitems(ring, OutSize) > 0)
    <3> HIDE DEF ring, f, full, s
    <3>1. outq' = ring /\ UNCHANGED toWriter
      BY <2>2, <2>7
    <3>2. KeepsBackOne'
      BY <2>4, <2>7, <3>1 DEF KeepsBackOne
    <3>3. OutQueue!Put(f)
      <4>1. CASE full
        BY <2>3, <2>5, <3>1, <4>1, Sizes DEF OutQueue!Put, s
      <4>2. CASE ~full
        BY <2>3, <2>5, <3>1, <4>2, Sizes DEF OutQueue!Put, s
      <4> QED
        BY <4>1, <4>2
    <3> QED
      BY <1>1, <2>1, <2>3, <2>5, <3>1, <3>2, <3>3 DEF OutStep, OutQueue!Next
  <2> QED
    BY <2>6, <2>7
<1> QED
  BY <1>2, <1>3

LEMMA ServeGood == DriverInv /\ Serve => Good
<1> SUFFICES ASSUME DriverInv, Serve PROVE Good
  OBVIOUS
<1>1. UNCHANGED <<watch, pending, handling, readerSide, flags, launched, came>>
      /\ pc' = "test" /\ ready' = {} /\ ToMux /\ FromMux
  BY DEF Serve
<1>2. /\ Holds(outq', OutSize) /\ KeepsBackOne' /\ OutStep
      /\ toWriter' \in Seq(Frame) /\ fromMux' \in Seq(Frame)
      /\ gone' \in [Drop -> SUBSET Frame] /\ gone'["in"] = gone["in"]
  BY <1>1, FromMuxGood
<1>3. Holds(inq, InSize) /\ toMux \in Seq(Frame)
  BY DEF DriverInv, RingsRight, QueuesRight
<1>4. Holds(inq', InSize) /\ InStep /\ toMux' \in Seq(Frame)
  <2>1. CASE "muxout" \notin ready \/ IsEmpty(inq, InSize)
    <3>1. UNCHANGED <<inq, toMux>>
      BY <1>1, <2>1 DEF ToMux
    <3> QED
      BY <1>2, <1>3, <3>1 DEF InStep
  <2>2. CASE ~("muxout" \notin ready \/ IsEmpty(inq, InSize))
    <3>1. inq' = Pull(inq, InSize) /\ toMux' = Append(toMux, First(inq))
      BY <1>1, <2>2 DEF ToMux
    <3>2. /\ Holds(inq', InSize) /\ Contents(inq, InSize) # <<>> /\ First(inq) \in Frame
          /\ Contents(inq', InSize) = Tail(Contents(inq, InSize))
      BY <1>3, <2>2, <3>1, Sizes, PullHolds
    <3>3. InQueue!Get
      BY <1>2, <3>2 DEF InQueue!Get
    <3> QED
      BY <1>3, <3>1, <3>2, <3>3 DEF InStep, InQueue!Next
  <2> QED
    BY <2>1, <2>2
<1>5. MainRight' /\ QueuesRight' /\ RestRight'
  BY <1>1, <1>2, <1>4 DEF DriverInv, MainRight, QueuesRight, RestRight, readerSide
<1> QED
  BY <1>2, <1>4, <1>5 DEF Good, DriverInv, RingsRight

-----------------------------------------------------------------------------
LEMMA DriverStep == DriverInv /\ [Next]_vars => Good
<1>1. ASSUME DriverInv, UNCHANGED vars PROVE Good
  <2>1. RingsRight' /\ KeepsBackOne' /\ InStep /\ OutStep
    BY <1>1, RingsKept DEF vars
  <2>2. MainRight' /\ QueuesRight' /\ RestRight'
    BY <1>1 DEF vars, DriverInv, MainRight, QueuesRight, RestRight, mainSide, readerSide,
       writerSide, muxSide
  <2> QED
    BY <2>1, <2>2 DEF Good, DriverInv
<1> QED
  BY <1>1, ReaderGood, WriterGood, HandlerControl, HandlerLooksGood, SelectGood, ServeGood,
     MuxSendsGood DEF Next, Handler, Main

THEOREM DriverInvHolds == Spec => []DriverInv
<1>1. DriverInv /\ [Next]_vars => DriverInv'
  BY DriverStep DEF Good
<1> QED
  BY <1>1, DriverInvInit, PTL DEF Spec

(* Whatever the sizes of the rings, the driver's rings, FIFOs and flags    *)
(* hold what they are declared to hold (TypeOK).                           *)
THEOREM DriverTypeCorrect == Spec => []TypeOK
BY DriverInvHolds, DriverInvSuffices, PTL

(* Numitems counts one too few once curin has wrapped around; the output   *)
(* ring never keeps back more than one frame for it (KeepsBackOne).        *)
THEOREM OutputKeepsBackOne == Spec => []KeepsBackOne
BY DriverInvHolds, DriverInvSuffices, PTL

(* The two rings implement the two queues (RingsAreQueues): the signal     *)
(* handler and the main loop, whose steps may alternate in any way, find   *)
(* the frames that they would find in a queue, and a frame is refused only *)
(* when all slots but one are taken.                                       *)
THEOREM DriverImplementsQueues == Spec => RingsAreQueues
<1>1. DriverInv /\ [Next]_vars => InStep /\ OutStep
  BY DriverStep DEF Good
<1>2. Spec => InQueue!Init /\ OutQueue!Init
  <2>1. Init => InQueue!Init /\ OutQueue!Init
    BY DriverInvInit
  <2> QED
    BY <2>1, PTL DEF Spec
<1>3. Spec => [][InQueue!Next]_<<Contents(inq, InSize), gone["in"]>>
  BY <1>1, DriverInvHolds, PTL DEF Spec, InStep
<1>4. Spec => [][OutQueue!Next]_<<Contents(outq, OutSize), gone["out"]>>
  BY <1>1, DriverInvHolds, PTL DEF Spec, OutStep
<1> QED
  BY <1>2, <1>3, <1>4 DEF RingsAreQueues, InQueue!Spec, OutQueue!Spec

-----------------------------------------------------------------------------
(* Lines.                                                                  *)
Ordered(s) == \A i, j \in 1..Len(s) : i < j => s[i] < s[j]
UpTo(s, n) == \A i \in 1..Len(s) : s[i] <= n

\* Of n frames that came those of g are gone, and the others are in the line.
Accounted(s, n, g) == g \subseteq 1..n /\ Range(s) = (1..n) \ g

\* What a step does to a line s, of n frames that came and g that are gone, when
\* the line is t then, and m came and h are gone.
Moves(s, t, n, m, g, h) ==
  \/ t = s /\ m = n /\ h = g
  \/ /\ m = n
     /\ \E a, d \in Seq(Frame) :
          d # <<>> /\ s = a \o d /\ t = a \o Tail(d) /\ h = g \cup {Head(d)}
  \/ t = Append(s, m) /\ m = n + 1 /\ h = g

LEMMA CatAssoc ==
  ASSUME NEW S, NEW a \in Seq(S), NEW b \in Seq(S), NEW c \in Seq(S)
  PROVE  (a \o b) \o c = a \o (b \o c)
OBVIOUS

LEMMA CatType ==
  ASSUME NEW S, NEW a \in Seq(S), NEW b \in Seq(S)
  PROVE  a \o b \in Seq(S)
OBVIOUS

\* The first of what follows becomes the last of what goes before.
LEMMA CatShift ==
  ASSUME NEW S, NEW a \in Seq(S), NEW b \in Seq(S), b # <<>>
  PROVE  Append(a, Head(b)) \o Tail(b) = a \o b
OBVIOUS

LEMMA CatTail ==
  ASSUME NEW S, NEW a \in Seq(S), NEW b \in Seq(S), a # <<>>
  PROVE  a \o b # <<>> /\ Tail(a \o b) = Tail(a) \o b /\ Head(a \o b) = Head(a)
OBVIOUS

LEMMA CatAppend ==
  ASSUME NEW S, NEW a \in Seq(S), NEW b \in Seq(S), NEW x \in S
  PROVE  a \o Append(b, x) = Append(a \o b, x)
OBVIOUS

\* The same in the middle of a line.
LEMMA CatShiftMiddle ==
  ASSUME NEW a \in Seq(Frame), NEW b \in Seq(Frame), NEW c \in Seq(Frame), c # <<>>
  PROVE  (a \o Append(b, Head(c))) \o Tail(c) = (a \o b) \o c
<1> DEFINE u == Append(b, Head(c))
           v == Tail(c)
<1>1. u \in Seq(Frame) /\ v \in Seq(Frame)
  OBVIOUS
<1>2. u \o v = b \o c
  BY CatShift
<1> HIDE DEF u, v
<1>3. (a \o u) \o v = a \o (u \o v)
  BY <1>1, CatAssoc
<1>4. (a \o b) \o c = a \o (b \o c)
  BY CatAssoc
<1>5. (a \o u) \o v = (a \o b) \o c
  BY <1>2, <1>3, <1>4
<1> QED
  BY <1>5 DEF u, v

\* One item is taken out of the middle of a line: where those that stay were.
LEMMA TakenOut ==
  ASSUME NEW a \in Seq(Frame), NEW d \in Seq(Frame), d # <<>>
  PROVE  LET s == a \o d
             t == a \o Tail(d)
             k == Len(a) + 1
         IN  /\ k \in 1..Len(s) /\ s[k] = Head(d) /\ Len(s) = Len(t) + 1
             /\ \A i \in 1..Len(t) : t[i] = s[IF i < k THEN i ELSE i + 1]
OBVIOUS

LEMMA MovesKeepLine ==
  ASSUME NEW s \in Seq(Frame), NEW t \in Seq(Frame), NEW n \in Nat, NEW m \in Nat,
         NEW g, NEW h,
         Ordered(s), UpTo(s, n), Accounted(s, n, g), Moves(s, t, n, m, g, h)
  PROVE  Ordered(t) /\ UpTo(t, m) /\ Accounted(t, m, h)
<1>1. \A i \in 1..Len(s) : s[i] \in Nat
  BY FrameAssumption
<1>2. CASE t = s /\ m = n /\ h = g
  BY <1>2
<1>3. CASE /\ m = n
           /\ \E a, d \in Seq(Frame) :
                d # <<>> /\ s = a \o d /\ t = a \o Tail(d) /\ h = g \cup {Head(d)}
  <2>1. PICK a \in Seq(Frame), d \in Seq(Frame) :
          d # <<>> /\ s = a \o d /\ t = a \o Tail(d) /\ h = g \cup {Head(d)}
    BY <1>3
  <2> DEFINE k      == Len(a) + 1
             Old(i) == IF i < k THEN i ELSE i + 1
  <2>2. /\ k \in 1..Len(s) /\ s[k] = Head(d) /\ Len(t) \in Nat /\ Len(s) = Len(t) + 1
        /\ \A i \in 1..Len(t) : t[i] = s[Old(i)]
    BY <2>1, TakenOut
  <2>3. /\ \A i \in 1..Len(t) : Old(i) \in 1..Len(s)
        /\ \A i, j \in 1..Len(t) : i < j => Old(i) < Old(j)
        /\ \A i \in 1..Len(t) : Old(i) # k
        /\ \A i \in 1..Len(s) : i = k \/ \E j \in 1..Len(t) : Old(j) = i
    <3>1. k \in 1..Len(s) /\ Len(t) \in Nat /\ Len(s) = Len(t) + 1
      BY <2>2
    <3> HIDE DEF k
    <3>2. /\ \A i \in 1..Len(t) : Old(i) \in 1..Len(s)
          /\ \A i, j \in 1..Len(t) : i < j => Old(i) < Old(j)
          /\ \A i \in 1..Len(t) : Old(i) # k
      BY <3>1
    <3>3. \A i \in 1..Len(s) : i < k => i \in 1..Len(t) /\ Old(i) = i
      BY <3>1
    <3>4. \A i \in 1..Len(s) : i > k => i - 1 \in 1..Len(t) /\ Old(i - 1) = i
      BY <3>1
    <3>5. \A i \in 1..Len(s) : i = k \/ i < k \/ i > k
      BY <3>1
    <3> QED
      BY <3>2, <3>3, <3>4, <3>5
  <2> HIDE DEF Old, k
  <2>4. Ordered(t) /\ UpTo(t, m)
    BY <1>3, <2>2, <2>3 DEF Ordered, UpTo
  <2>5. Range(t) = Range(s) \ {s[k]}
    <3>1. \A i \in 1..Len(s) : i # k => s[i] # s[k]
      BY <1>1, <2>2 DEF Ordered
    <3>2. Range(s) = {s[i] : i \in 1..Len(s)} /\ Range(t) = {t[i] : i \in 1..Len(t)}
      BY DEF Range
    <3>3. ASSUME NEW x \in Range(t) PROVE x \in Range(s) \ {s[k]}
      <4>1. PICK i \in 1..Len(t) : x = s[Old(i)]
        BY <2>2, <3>2
      <4> QED
        BY <2>3, <3>1, <3>2, <4>1
    <3>4. ASSUME NEW x \in Range(s), x # s[k] PROVE x \in Range(t)
      <4>1. PICK i \in 1..Len(s) : x = s[i] /\ i # k
        BY <3>2, <3>4
      <4>2. PICK j \in 1..Len(t) : Old(j) = i
        BY <2>3, <4>1
      <4> QED
        BY <2>2, <3>2, <4>1, <4>2
    <3> QED
      BY <3>3, <3>4
  <2>6. s[k] \in 1..n
    <3>1. s[k] \in Range(s)
      BY <2>2 DEF Range
    <3> QED
      BY <3>1 DEF Accounted
  <2> QED
    BY <1>3, <2>1, <2>2, <2>4, <2>5, <2>6 DEF Accounted
<1>4. CASE t = Append(s, m) /\ m = n + 1 /\ h = g
  <2>1. /\ Len(s) \in Nat /\ Len(t) = Len(s) + 1 /\ t[Len(s) + 1] = m
        /\ \A i \in 1..Len(s) : t[i] = s[i]
    BY <1>4
  <2>2. \A i \in 1..Len(t) : i \in 1..Len(s) \/ i = Len(s) + 1
    BY <2>1
  <2>3. UpTo(t, m)
    BY <1>1, <1>4, <2>1, <2>2 DEF UpTo
  <2>4. Ordered(t)
    BY <1>1, <1>4, <2>1, <2>2 DEF Ordered, UpTo
  <2>5. Range(t) = Range(s) \cup {m}
    <3>1. DOMAIN s = 1..Len(s) /\ DOMAIN t = 1..Len(t)
      OBVIOUS
    <3> QED
      BY <2>1, <2>2, <3>1 DEF Range
  <2>6. 1..m = (1..n) \cup {m} /\ m \notin 1..n
    BY <1>4
  <2> QED
    BY <1>4, <2>3, <2>4, <2>5, <2>6 DEF Accounted
<1> QED
  BY <1>2, <1>3, <1>4 DEF Moves

LEMMA OrderedIsIncreasing ==
  ASSUME NEW s \in Seq(Frame), Ordered(s)
  PROVE  IsIncreasing(s)
BY DEF Ordered, IsIncreasing

-----------------------------------------------------------------------------
(* The two lines.                                                          *)
GoneIn  == gone["in"]
GoneOut == gone["out"] \cup gone["writer"]

InLine  == /\ Ordered(Inbound) /\ UpTo(Inbound, came["in"])
           /\ Accounted(Inbound, came["in"], GoneIn)
OutLine == /\ Ordered(Outbound) /\ UpTo(Outbound, came["out"])
           /\ Accounted(Outbound, came["out"], GoneOut)

InMoves  == Moves(Inbound, Inbound', came["in"], came'["in"], GoneIn, GoneIn')
OutMoves == Moves(Outbound, Outbound', came["out"], came'["out"], GoneOut, GoneOut')

LEMMA LineTypes ==
  ASSUME DriverInv
  PROVE  /\ toMux \in Seq(Frame) /\ Contents(inq, InSize) \in Seq(Frame)
         /\ fromReader \in Seq(Frame) /\ launched \in Seq(Frame) /\ toWriter \in Seq(Frame)
         /\ Contents(outq, OutSize) \in Seq(Frame) /\ fromMux \in Seq(Frame)
         /\ Inbound \in Seq(Frame) /\ Outbound \in Seq(Frame)
         /\ came["in"] \in Nat /\ came["out"] \in Nat
<1>1. /\ toMux \in Seq(Frame) /\ Contents(inq, InSize) \in Seq(Frame)
      /\ fromReader \in Seq(Frame) /\ launched \in Seq(Frame) /\ toWriter \in Seq(Frame)
      /\ Contents(outq, OutSize) \in Seq(Frame) /\ fromMux \in Seq(Frame)
  BY DEF DriverInv, RingsRight, Holds, QueuesRight
<1>2. Inbound \in Seq(Frame) /\ Outbound \in Seq(Frame)
  BY <1>1, CatType DEF Inbound, Outbound
<1>3. came["in"] \in 0..MaxFrames /\ came["out"] \in 0..MaxFrames /\ MaxFrames \in Nat
  BY FrameAssumption DEF DriverInv, RestRight, Direction
<1> QED
  BY <1>1, <1>2, <1>3

LEMMA InKept ==
  ASSUME UNCHANGED <<toMux, inq, fromReader, GoneIn>>, came'["in"] = came["in"]
  PROVE  InMoves
<1>1. Inbound' = Inbound
  BY DEF Inbound, Contents, Count
<1> QED
  BY <1>1 DEF InMoves, Moves

LEMMA OutKept ==
  ASSUME UNCHANGED <<launched, toWriter, outq, fromMux, GoneOut>>, came'["out"] = came["out"]
  PROVE  OutMoves
<1>1. Outbound' = Outbound
  BY DEF Outbound, Contents, Count
<1> QED
  BY <1>1 DEF OutMoves, Moves

LEMMA ReaderMoves == DriverInv /\ (ReaderWrite \/ ReaderSignal) => InMoves /\ OutMoves
<1> SUFFICES ASSUME DriverInv, ReaderWrite \/ ReaderSignal PROVE InMoves /\ OutMoves
  OBVIOUS
<1>1. /\ UNCHANGED <<inq, outq, writerSide, muxSide, GoneIn, GoneOut>>
      /\ came'["out"] = came["out"]
  BY DEF ReaderWrite, ReaderSignal, DriverInv, RestRight, Direction, GoneIn, GoneOut
<1>2. OutMoves
  BY <1>1, OutKept DEF writerSide, muxSide
<1>3. CASE ReaderSignal
  BY <1>1, <1>2, <1>3, InKept DEF ReaderSignal, muxSide
<1>4. CASE ReaderWrite
  <2> DEFINE n == came["in"]
             a == toMux \o Contents(inq, InSize)
  <2>1. came'["in"] = n + 1 /\ fromReader' = Append(fromReader, came'["in"])
        /\ n + 1 \in Frame
    BY <1>4, NextFrame DEF ReaderWrite, DriverInv, RestRight, Direction
  <2>2. a \in Seq(Frame) /\ fromReader \in Seq(Frame)
    BY LineTypes, CatType
  <2>3. Inbound = a \o fromReader /\ Inbound' = a \o fromReader'
    BY <1>1 DEF Inbound, Contents, Count, muxSide
  <2> HIDE DEF a, n
  <2>4. Inbound' = Append(Inbound, came'["in"])
    BY <2>1, <2>2, <2>3, CatAppend
  <2> QED
    BY <1>1, <1>2, <2>1, <2>4 DEF InMoves, Moves, n
<1> QED
  BY <1>3, <1>4

LEMMA MuxSendsMoves == DriverInv /\ MuxSends => InMoves /\ OutMoves
<1> SUFFICES ASSUME DriverInv, MuxSends PROVE InMoves /\ OutMoves
  OBVIOUS
<1>1. /\ UNCHANGED <<inq, outq, readerSide, writerSide, toMux, GoneIn, GoneOut>>
      /\ came'["in"] = came["in"]
  BY DEF MuxSends, DriverInv, RestRight, Direction, GoneIn, GoneOut
<1>2. InMoves
  BY <1>1, InKept DEF readerSide
<1> DEFINE n == came["out"]
           a == (launched \o toWriter) \o Contents(outq, OutSize)
<1>3. came'["out"] = n + 1 /\ fromMux' = Append(fromMux, came'["out"]) /\ n + 1 \in Frame
  BY NextFrame DEF MuxSends, DriverInv, RestRight, Direction
<1>4. a \in Seq(Frame) /\ fromMux \in Seq(Frame)
  BY LineTypes, CatType
<1>5. Outbound = a \o fromMux /\ Outbound' = a \o fromMux'
  BY <1>1 DEF Outbound, Contents, Count, writerSide
<1> HIDE DEF a, n
<1>6. Outbound' = Append(Outbound, came'["out"])
  BY <1>3, <1>4, <1>5, CatAppend
<1> QED
  BY <1>1, <1>2, <1>3, <1>6 DEF OutMoves, Moves, n

LEMMA WriterMoves == DriverInv /\ Writer => InMoves /\ OutMoves
<1> SUFFICES ASSUME DriverInv, Writer PROVE InMoves /\ OutMoves
  OBVIOUS
<1>1. UNCHANGED <<inq, outq, readerSide, muxSide, came, GoneIn>>
      /\ toWriter # <<>> /\ toWriter' = Tail(toWriter)
  BY DEF Writer, WriterDiscard, WriterLaunch, DriverInv, RestRight, Drop, Direction, GoneIn
<1>2. InMoves
  BY <1>1, InKept DEF readerSide, muxSide
<1> DEFINE c    == Contents(outq, OutSize)
           rest == c \o fromMux
           d    == toWriter \o rest
<1>3. /\ launched \in Seq(Frame) /\ toWriter \in Seq(Frame) /\ c \in Seq(Frame)
      /\ fromMux \in Seq(Frame) /\ rest \in Seq(Frame) /\ d \in Seq(Frame)
  BY LineTypes, CatType
<1>4. Outbound = ((launched \o toWriter) \o c) \o fromMux
      /\ Outbound' = ((launched' \o toWriter') \o c) \o fromMux
  BY <1>1 DEF Outbound, Contents, Count, muxSide
<1> HIDE DEF c
<1>5. CASE launched' = Append(launched, Head(toWriter)) /\ GoneOut' = GoneOut
  <2>1. launched' \o toWriter' = launched \o toWriter
    BY <1>1, <1>3, <1>5, CatShift
  <2>2. Outbound' = Outbound
    BY <1>4, <2>1
  <2> QED
    BY <1>1, <1>2, <1>5, <2>2 DEF OutMoves, Moves
<1>6. CASE launched' = launched /\ GoneOut' = GoneOut \cup {Head(toWriter)}
  <2>1. toWriter' \in Seq(Frame)
    BY <1>1, <1>3
  <2>2. \A q \in Seq(Frame) : ((launched \o q) \o c) \o fromMux = launched \o (q \o rest)
    <3> TAKE q \in Seq(Frame)
    <3> DEFINE u == launched \o q
    <3>1. u \in Seq(Frame) /\ c \in Seq(Frame) /\ fromMux \in Seq(Frame)
      BY <1>3, CatType
    <3>2. (launched \o q) \o rest = launched \o (q \o rest)
      <4> HIDE DEF rest
      <4> QED
        BY <1>3, CatAssoc
    <3>3. (u \o c) \o fromMux = u \o (c \o fromMux)
      <4> HIDE DEF u
      <4> QED
        BY <3>1, CatAssoc
    <3> QED
      BY <3>2, <3>3
  <2>3. d # <<>> /\ toWriter' \o rest = Tail(d) /\ Head(d) = Head(toWriter)
    BY <1>1, <1>3, CatTail
  <2>4. Outbound = launched \o d /\ Outbound' = launched \o Tail(d)
    BY <1>3, <1>4, <1>6, <2>1, <2>2, <2>3
  <2> HIDE DEF d
  <2> QED
    BY <1>1, <1>2, <1>3, <1>6, <2>3, <2>4 DEF OutMoves, Moves
<1> QED
  BY <1>5, <1>6 DEF Writer, WriterDiscard, WriterLaunch, DriverInv, RestRight, Drop, Direction,
                    GoneOut

\* Steps that move no frame.
LEMMA ControlMoves ==
  DriverInv /\ (Interrupt \/ HandlerReturns \/ Watch \/ CallSelect \/ SelectReturns \/ BlockSignal)
    => InMoves /\ OutMoves
<1> SUFFICES ASSUME Interrupt \/ HandlerReturns \/ Watch \/ CallSelect \/ SelectReturns \/ BlockSignal
             PROVE  InMoves /\ OutMoves
  OBVIOUS
<1>1. UNCHANGED <<inq, outq, readerSide, writerSide, muxSide, came, GoneIn, GoneOut>>
  BY DEF Interrupt, HandlerReturns, Watch, CallSelect, SelectReturns, BlockSignal, Goes,
         GoneIn, GoneOut
<1> QED
  BY <1>1, InKept, OutKept DEF readerSide, writerSide, muxSide

\* A frame that is sent to the writer keeps its place in the line.
LEMMA SendNextLine ==
  ASSUME DriverInv, NEW ring, Holds(ring, OutSize), SendNextPacket(ring)
  PROVE  (launched \o toWriter') \o Contents(outq', OutSize)
           = (launched \o toWriter) \o Contents(ring, OutSize)
<1> DEFINE c == Contents(ring, OutSize)
<1>1. launched \in Seq(Frame) /\ toWriter \in Seq(Frame) /\ c \in Seq(Frame)
  BY LineTypes DEF Holds
<1>2. outq' = Pull(ring, OutSize)
      /\ toWriter' = IF IsEmpty(ring, OutSize) THEN toWriter ELSE Append(toWriter, First(ring))
  BY DEF SendNextPacket, EthernetInitiateSend
<1>3. IF IsEmpty(ring, OutSize) THEN outq' = ring
      ELSE c # <<>> /\ First(ring) = Head(c) /\ Contents(outq', OutSize) = Tail(c)
  BY <1>2, Sizes, PullHolds
<1>4. CASE IsEmpty(ring, OutSize)
  BY <1>2, <1>3, <1>4
<1>5. CASE ~IsEmpty(ring, OutSize)
  <2>1. c # <<>> /\ toWriter' = Append(toWriter, Head(c)) /\ Contents(outq', OutSize) = Tail(c)
    BY <1>2, <1>3, <1>5
  <2> HIDE DEF c
  <2>2. (launched \o Append(toWriter, Head(c))) \o Tail(c) = (launched \o toWriter) \o c
    BY <1>1, <2>1, CatShiftMiddle, Zenon
  <2> QED
    BY <2>1, <2>2 DEF c
<1> QED
  BY <1>4, <1>5

LEMMA HandlerLooksMoves == DriverInv /\ HandlerLooks => InMoves /\ OutMoves
<1> SUFFICES ASSUME DriverInv, HandlerLooks PROVE InMoves /\ OutMoves
  OBVIOUS
<1>1. UNCHANGED <<launched, muxSide, came>>
  BY DEF HandlerLooks
<1>g. /\ GoneOut' = GoneOut
      /\ GoneIn' = IF fromReader # <<>> /\ IsFull(inq, InSize)
                   THEN GoneIn \cup {Head(fromReader)} ELSE GoneIn
  BY DEF HandlerLooks, ReceiveNextPacket, EthernetGetNextPacket, DriverInv, RestRight, Drop,
         Direction, GoneIn, GoneOut
<1>2. InMoves
  <2> DEFINE c == Contents(inq, InSize)
             f == Head(fromReader)
  <2>1. CASE fromReader = <<>>
    BY <1>1, <1>g, <2>1, InKept DEF HandlerLooks, muxSide
  <2>2. CASE fromReader # <<>>
    <3>1. toMux \in Seq(Frame) /\ c \in Seq(Frame) /\ fromReader \in Seq(Frame)
          /\ Holds(inq, InSize)
      BY LineTypes DEF DriverInv, RingsRight
    <3>2. f \in Frame
      BY <2>2, <3>1
    <3>3. inq' = Push(inq, InSize, f) /\ fromReader' = Tail(fromReader)
      BY <2>2 DEF HandlerLooks, ReceiveNextPacket, EthernetGetNextPacket
    <3>4. IF IsFull(inq, InSize) THEN inq' = inq ELSE Contents(inq', InSize) = Append(c, f)
      BY <3>1, <3>2, <3>3, Sizes, PushHolds
    <3>5. Inbound = (toMux \o c) \o fromReader
          /\ Inbound' = (toMux \o Contents(inq', InSize)) \o fromReader'
      BY <1>1 DEF Inbound, muxSide, Contents, Count
    <3>6. CASE IsFull(inq, InSize)
      <4> DEFINE a == toMux \o c
      <4>1. a \in Seq(Frame)
        BY <3>1, CatType
      <4>2. Inbound = a \o fromReader /\ Inbound' = a \o Tail(fromReader)
        BY <3>3, <3>4, <3>5, <3>6
      <4> HIDE DEF a
      <4> QED
        BY <1>1, <1>g, <2>2, <3>1, <3>6, <4>1, <4>2 DEF InMoves, Moves
    <3>7. CASE ~IsFull(inq, InSize)
      <4>1. Inbound' = (toMux \o Append(c, Head(fromReader))) \o Tail(fromReader)
        BY <3>3, <3>4, <3>5, <3>7
      <4> HIDE DEF c
      <4>2. (toMux \o Append(c, Head(fromReader))) \o Tail(fromReader) = (toMux \o c) \o fromReader
        BY <2>2, <3>1, CatShiftMiddle, Zenon
      <4>3. Inbound' = Inbound
        BY <3>5, <4>1, <4>2
      <4> QED
        BY <1>1, <1>g, <3>7, <4>3 DEF InMoves, Moves
    <3> QED
      BY <3>6, <3>7
  <2> QED
    BY <2>1, <2>2
<1>3. OutMoves
  <2>1. CASE flags = <<>>
    BY <1>1, <1>g, <2>1, OutKept DEF HandlerLooks, muxSide
  <2>2. CASE flags # <<>>
    <3>1. SendNextPacket(outq) /\ Holds(outq, OutSize)
      BY <2>2 DEF HandlerLooks, DriverInv, RingsRight
    <3>2. (launched \o toWriter') \o Contents(outq', OutSize)
            = (launched \o toWriter) \o Contents(outq, OutSize)
      BY <3>1, SendNextLine
    <3>3. Outbound' = ((launched' \o toWriter') \o Contents(outq', OutSize)) \o fromMux'
      BY DEF Outbound, Contents, Count
    <3>4. Outbound' = Outbound
      BY <1>1, <3>2, <3>3 DEF Outbound, muxSide
    <3> QED
      BY <1>1, <1>g, <3>4 DEF OutMoves, Moves
  <2> QED
    BY <2>1, <2>2
<1> QED
  BY <1>2, <1>3

LEMMA ServeMoves == DriverInv /\ Serve => InMoves /\ OutMoves
<1> SUFFICES ASSUME DriverInv, Serve PROVE InMoves /\ OutMoves
  OBVIOUS
<1>1. UNCHANGED <<readerSide, launched, came>> /\ ToMux /\ FromMux
  BY DEF Serve
<1>g. /\ GoneIn' = GoneIn
      /\ GoneOut' = IF "muxin" \in ready /\ IsFull(outq, OutSize)
                    THEN GoneOut \cup {Head(fromMux)} ELSE GoneOut
  BY <1>1 DEF FromMux, DriverInv, RestRight, Drop, Direction, GoneIn, GoneOut
<1>2. InMoves
  <2> DEFINE c == Contents(inq, InSize)
  <2>1. CASE "muxout" \notin ready \/ IsEmpty(inq, InSize)
    BY <1>1, <1>g, <2>1, InKept DEF ToMux, readerSide
  <2>2. CASE ~("muxout" \notin ready \/ IsEmpty(inq, InSize))
    <3>1. inq' = Pull(inq, InSize) /\ toMux' = Append(toMux, First(inq))
      BY <1>1, <2>2 DEF ToMux
    <3>2. Holds(inq, InSize) /\ toMux \in Seq(Frame) /\ c \in Seq(Frame)
      BY LineTypes DEF DriverInv, RingsRight
    <3>3. c # <<>> /\ First(inq) = Head(c) /\ Contents(inq', InSize) = Tail(c)
      BY <2>2, <3>1, <3>2, Sizes, PullHolds
    <3>4. Inbound = (toMux \o c) \o fromReader
          /\ Inbound' = (toMux' \o Contents(inq', InSize)) \o fromReader
      BY <1>1 DEF Inbound, readerSide, Contents, Count
    <3> HIDE DEF c
    <3>5. toMux' \o Contents(inq', InSize) = toMux \o c
      BY <3>1, <3>2, <3>3, CatShift
    <3>6. Inbound' = Inbound
      BY <3>4, <3>5
    <3> QED
      BY <1>1, <1>g, <3>6 DEF InMoves, Moves
  <2> QED
    BY <2>1, <2>2
<1>3. OutMoves
  <2> DEFINE c    == Contents(outq, OutSize)
             f    == Head(fromMux)
             ring == Push(outq, OutSize, f)
             w    == launched \o toWriter
  <2>1. CASE "muxin" \notin ready
    BY <1>1, <1>g, <2>1, OutKept DEF FromMux
  <2>2. CASE "muxin" \in ready
    <3>1. /\ launched \in Seq(Frame) /\ toWriter \in Seq(Frame) /\ c \in Seq(Frame)
          /\ fromMux \in Seq(Frame) /\ fromMux # <<>> /\ Holds(outq, OutSize)
      BY <2>2, LineTypes DEF DriverInv, RingsRight, MainRight
    <3>2. f \in Frame /\ w \in Seq(Frame)
      BY <3>1, CatType
    <3>3. /\ fromMux' = Tail(fromMux)
          /\ IF Numitems(ring, OutSize) > 0 THEN SendNextPacket(ring)
             ELSE outq' = ring /\ UNCHANGED toWriter
      BY <1>1, <2>2 DEF FromMux, StartSend
    <3>4. /\ Holds(ring, OutSize)
          /\ IF IsFull(outq, OutSize) THEN ring = outq ELSE Contents(ring, OutSize) = Append(c, f)
      BY <3>1, <3>2, Sizes, PushHolds
    <3>5. (launched' \o toWriter') \o Contents(outq', OutSize) = w \o Contents(ring, OutSize)
      <4> HIDE DEF ring
      <4> QED
        BY <1>1, <3>3, <3>4, SendNextLine
    <3>6. Outbound = (w \o c) \o fromMux
          /\ Outbound' = ((launched' \o toWriter') \o Contents(outq', OutSize)) \o fromMux'
      BY DEF Outbound, Contents, Count
    <3>7. CASE IsFull(outq, OutSize)
      <4> DEFINE a == w \o c
      <4>1. a \in Seq(Frame)
        BY <3>1, <3>2, CatType
      <4>2. Outbound = a \o fromMux /\ Outbound' = a \o Tail(fromMux)
        BY <3>3, <3>4, <3>5, <3>6, <3>7
      <4> HIDE DEF a
      <4> QED
        BY <1>1, <1>g, <2>2, <3>1, <3>7, <4>1, <4>2 DEF OutMoves, Moves
    <3>8. CASE ~IsFull(outq, OutSize)
      <4>1. Outbound' = (w \o Append(c, Head(fromMux))) \o Tail(fromMux)
        BY <3>3, <3>4, <3>5, <3>6, <3>8
      <4> HIDE DEF c, w
      <4>2. (w \o Append(c, Head(fromMux))) \o Tail(fromMux) = (w \o c) \o fromMux
        BY <3>1, <3>2, CatShiftMiddle, Zenon
      <4>3. Outbound' = Outbound
        BY <3>6, <4>1, <4>2
      <4> QED
        BY <1>1, <1>g, <3>8, <4>3 DEF OutMoves, Moves
    <3> QED
      BY <3>7, <3>8
  <2> QED
    BY <2>1, <2>2
<1> QED
  BY <1>2, <1>3

-----------------------------------------------------------------------------
LEMMA OrderInit == Init => InLine /\ OutLine
<1> SUFFICES ASSUME Init PROVE InLine /\ OutLine
  OBVIOUS
<1>1. Contents(inq, InSize) = <<>> /\ Contents(outq, OutSize) = <<>>
  BY Sizes, EmptyRingFacts DEF Init
<1>2. Inbound = <<>> /\ Outbound = <<>>
  BY <1>1 DEF Init, Inbound, Outbound
<1>3. /\ came["in"] = 0 /\ came["out"] = 0 /\ GoneIn = {} /\ GoneOut = {}
  BY DEF Init, Direction, Drop, GoneIn, GoneOut
<1> QED
  BY <1>2, <1>3 DEF InLine, OutLine, Ordered, UpTo, Accounted, Range

LEMMA OrderStep ==
  DriverInv /\ DriverInv' /\ InLine /\ OutLine /\ [Next]_vars => InLine' /\ OutLine'
<1> SUFFICES ASSUME DriverInv, DriverInv', InLine, OutLine, [Next]_vars
             PROVE  InLine' /\ OutLine'
  OBVIOUS
<1>1. InMoves /\ OutMoves
  <2>1. CASE UNCHANGED vars
    BY <2>1, InKept, OutKept, Zenon DEF vars, GoneIn, GoneOut, readerSide, writerSide, muxSide
  <2> QED
    BY <2>1, ReaderMoves, WriterMoves, ControlMoves, HandlerLooksMoves, ServeMoves, MuxSendsMoves
       DEF Next, Handler, Main
<1>2. /\ Inbound \in Seq(Frame) /\ Outbound \in Seq(Frame)
      /\ came["in"] \in Nat /\ came["out"] \in Nat
  BY LineTypes
<1>3. /\ Inbound' \in Seq(Frame) /\ Outbound' \in Seq(Frame)
      /\ came'["in"] \in Nat /\ came'["out"] \in Nat
  <2>1. (/\ Inbound \in Seq(Frame) /\ Outbound \in Seq(Frame)
         /\ came["in"] \in Nat /\ came["out"] \in Nat)'
    BY LineTypes, PTL
  <2> QED
    BY <2>1
<1>4. /\ Ordered(Inbound') /\ UpTo(Inbound', came'["in"])
      /\ Accounted(Inbound', came'["in"], GoneIn')
  BY <1>1, <1>2, <1>3, MovesKeepLine DEF InLine, InMoves
<1>5. /\ Ordered(Outbound') /\ UpTo(Outbound', came'["out"])
      /\ Accounted(Outbound', came'["out"], GoneOut')
  BY <1>1, <1>2, <1>3, MovesKeepLine DEF OutLine, OutMoves
<1> QED
  BY <1>4, <1>5 DEF InLine, OutLine, Ordered, UpTo, Accounted, Range

LEMMA OrderSuffices == DriverInv /\ InLine /\ OutLine => FramesInOrder /\ FramesAccounted
<1> SUFFICES ASSUME DriverInv, InLine, OutLine PROVE FramesInOrder /\ FramesAccounted
  OBVIOUS
<1>1. FramesInOrder
  BY LineTypes, OrderedIsIncreasing DEF InLine, OutLine, FramesInOrder
<1>2. FramesAccounted
  BY DEF InLine, OutLine, FramesAccounted, Accounted, GoneIn, GoneOut
<1> QED
  BY <1>1, <1>2

LEMMA LinesHold == Spec => [](InLine /\ OutLine)
BY OrderInit, OrderStep, DriverInvHolds, PTL DEF Spec

(* Frames keep their order on their way through socketpairs, rings and     *)
(* FIFOs, in both directions (FramesInOrder): whichever of the signal      *)
(* handler and the main loop takes a frame, it takes the first one.        *)
THEOREM FramesKeepOrder == Spec => []FramesInOrder
BY LinesHold, DriverInvHolds, OrderSuffices, PTL

(* No frame disappears and none is doubled (FramesAccounted): each that    *)
(* came is in exactly one place of its line, unless a full ring had no     *)
(* room for it or the writer refused it.                                   *)
THEOREM FramesAreAccounted == Spec => []FramesAccounted
BY LinesHold, DriverInvHolds, OrderSuffices, PTL
=============================================================================
