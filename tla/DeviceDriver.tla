---------------------------- MODULE DeviceDriver ----------------------------
(***************************************************************************)
(* device_driver with its two children: the reader, which writes frames of *)
(* the network into a socketpair and signals the driver, and the writer,   *)
(* which puts frames on the network and writes back how it went.  The      *)
(* signal handler (EthernetInputHandler) and the main loop share the two   *)
(* rings; the main loop blocks the signal in a critical section, but reads *)
(* the input ring, to learn what it waits for, outside of it.              *)
(*                                                                         *)
(* Frames are numbered in the order in which they come.                    *)
(***************************************************************************)
EXTENDS FrameRing, Functions

CONSTANTS
  InSize, OutSize,  \* sizes of the two rings, the driver's arguments
  MaxFrames         \* bound on the frames of each direction

ASSUME SizeAssumption  == {InSize, OutSize} \subseteq Nat \ {0, 1}
ASSUME FrameAssumption == MaxFrames \in Nat /\ Frame = 1..MaxFrames

VARIABLES
  inq, outq,    \* input_queue and output_queue
  pc,           \* where the main loop is
  watch,        \* muxout is in the set for select
  ready,        \* what select has found: subset of {"muxin", "muxout"}
  pending,      \* ETHERNET_SIGNAL waits to be delivered
  handling,     \* the main loop is interrupted by EthernetInputHandler
  fromReader,   \* socketpair of the reader: frames
  unsignalled,  \* the reader has written a frame and not yet signalled it
  toWriter,     \* socketpair of the writer: frames to it
  flags,        \* the same, back: DMA_DONE or DMA_FAIL of each frame
  toMux,        \* all frames the driver has sent to ethernet_mux
  fromMux,      \* FIFO from ethernet_mux
  came,         \* how many frames have come from the network, and from the mux
  launched,     \* all frames the writer has put on the network
  gone          \* frames dropped for a full ring, and those the writer refused

mainSide   == <<pc, watch, ready>>
readerSide == <<fromReader, unsignalled>>
writerSide == <<toWriter, flags, launched>>
muxSide    == <<toMux, fromMux>>
vars == <<inq, outq, mainSide, pending, handling, readerSide, writerSide,
          muxSide, came, gone>>

Direction == {"in", "out"}
Drop      == Direction \cup {"writer"}

TypeOK ==
  /\ inq \in Ring(InSize) /\ outq \in Ring(OutSize)
  /\ pc \in {"test", "watching", "select", "found", "critical"}
  /\ watch \in BOOLEAN /\ ready \subseteq {"muxin", "muxout"}
  /\ {pending, handling, unsignalled} \subseteq BOOLEAN
  /\ {fromReader, toWriter, toMux, fromMux, launched} \subseteq Seq(Frame)
  /\ flags \in Seq({"DMA_DONE", "DMA_FAIL"})
  /\ came \in [Direction -> 0..MaxFrames]
  /\ gone \in [Drop -> SUBSET Frame]

Init ==
  /\ inq = EmptyRing(InSize) /\ outq = EmptyRing(OutSize)
  /\ pc = "test" /\ watch = FALSE /\ ready = {}
  /\ pending = FALSE /\ handling = FALSE
  /\ fromReader = <<>> /\ unsignalled = FALSE
  /\ toWriter = <<>> /\ flags = <<>> /\ launched = <<>>
  /\ toMux = <<>> /\ fromMux = <<>>
  /\ came = [d \in Direction |-> 0]
  /\ gone = [d \in Drop |-> {}]

-----------------------------------------------------------------------------
(* reader: PacketHandler.                                                  *)
ReaderWrite ==
  /\ came["in"] < MaxFrames /\ ~unsignalled
  /\ came' = [came EXCEPT !["in"] = @ + 1]
  /\ fromReader' = Append(fromReader, came'["in"])
  /\ unsignalled' = TRUE
  /\ UNCHANGED <<inq, outq, mainSide, pending, handling, writerSide, muxSide,
                 gone>>

ReaderSignal ==
  /\ unsignalled
  /\ unsignalled' = FALSE /\ pending' = TRUE
  /\ UNCHANGED <<inq, outq, mainSide, handling, fromReader, writerSide,
                 muxSide, came, gone>>

(* writer: the frame is discarded, which nobody is told, or it is launched *)
(* and the outcome written back.  kill has its arguments in the wrong      *)
(* order, so the driver gets no signal.                                    *)
WriterDiscard ==
  /\ toWriter # <<>>
  /\ toWriter' = Tail(toWriter)
  /\ gone' = [gone EXCEPT !["writer"] = @ \cup {Head(toWriter)}]
  /\ UNCHANGED <<inq, outq, mainSide, pending, handling, readerSide, flags,
                 launched, muxSide, came>>

WriterLaunch ==
  /\ toWriter # <<>>
  /\ toWriter' = Tail(toWriter)
  /\ \/ /\ flags' = Append(flags, "DMA_DONE")
        /\ launched' = Append(launched, Head(toWriter))
        /\ UNCHANGED gone
     \/ /\ flags' = Append(flags, "DMA_FAIL")
        /\ gone' = [gone EXCEPT !["writer"] = @ \cup {Head(toWriter)}]
        /\ UNCHANGED launched
  /\ UNCHANGED <<inq, outq, mainSide, pending, handling, readerSide, muxSide,
                 came>>

-----------------------------------------------------------------------------
(* The signal handler.                                                     *)

\* The frame is written to the writer at once.
EthernetInitiateSend(f) == toWriter' = Append(toWriter, f)

\* The first frame of the output ring, if there is one.
SendNextPacket(ring) ==
  /\ outq' = Pull(ring, OutSize)
  /\ IF IsEmpty(ring, OutSize) THEN UNCHANGED toWriter
     ELSE EthernetInitiateSend(First(ring))

EthernetGetNextPacket == Head(fromReader)

\* A frame of the reader goes into the input ring.
ReceiveNextPacket(f) ==
  /\ inq' = Push(inq, InSize, f)
  /\ gone' = IF IsFull(inq, InSize)
             THEN [gone EXCEPT !["in"] = @ \cup {f}] ELSE gone

\* The signal is delivered where the main loop has not blocked it; it is blocked
\* in the handler itself.
Interrupt ==
  /\ pending /\ ~handling /\ pc # "critical"
  /\ pending' = FALSE /\ handling' = TRUE
  /\ UNCHANGED <<inq, outq, mainSide, readerSide, writerSide, muxSide, came,
                 gone>>

\* One look at both socketpairs.
HandlerLooks ==
  /\ handling /\ (fromReader # <<>> \/ flags # <<>>)
  /\ IF fromReader # <<>>
     THEN /\ ReceiveNextPacket(EthernetGetNextPacket)
          /\ fromReader' = Tail(fromReader)
     ELSE UNCHANGED <<inq, gone, fromReader>>
  /\ IF flags # <<>>
     THEN SendNextPacket(outq) /\ flags' = Tail(flags)
     ELSE UNCHANGED <<outq, toWriter, flags>>
  /\ UNCHANGED <<mainSide, pending, handling, unsignalled, launched, muxSide,
                 came>>

\* It looks until there is nothing left.  After one look (mutant).
NothingExpected == TRUE
NothingLeft     == fromReader = <<>> /\ flags = <<>>

\* A select that is interrupted returns EINTR, and the loop starts again.
HandlerReturns ==
  /\ handling /\ NothingLeft
  /\ handling' = FALSE
  /\ pc' = IF pc = "select" THEN "test" ELSE pc
  /\ UNCHANGED <<inq, outq, watch, ready, pending, readerSide, writerSide,
                 muxSide, came, gone>>

-----------------------------------------------------------------------------
(* The main loop.                                                          *)
AtMain(at) == pc = at /\ ~handling

\* What to wait for is decided here, and a signal may come before the select.
Watch ==
  /\ AtMain("test")
  /\ watch' = (Numitems(inq, InSize) > 0)
  /\ pc' = "watching"
  /\ UNCHANGED <<inq, outq, ready, pending, handling, readerSide, writerSide,
                 muxSide, came, gone>>

Goes(from, to) ==
  /\ AtMain(from) /\ pc' = to
  /\ UNCHANGED <<inq, outq, watch, pending, handling, readerSide, writerSide,
                 muxSide, came, gone>>

CallSelect == Goes("watching", "select") /\ UNCHANGED ready

\* ethernet_mux may be slow: muxout is perhaps not writable.
SelectReturns ==
  /\ Goes("select", "found")
  /\ \E writable \in BOOLEAN :
       ready' = {f \in {"muxin", "muxout"} :
                  \/ f = "muxin" /\ fromMux # <<>>
                  \/ f = "muxout" /\ watch /\ writable}
  /\ ready' # {}

BlockSignal == Goes("found", "critical") /\ UNCHANGED ready

\* What one critical section does, with no signal in between.
ToMux ==
  IF "muxout" \notin ready \/ IsEmpty(inq, InSize) THEN UNCHANGED <<inq, toMux>>
  ELSE inq' = Pull(inq, InSize) /\ toMux' = Append(toMux, First(inq))

\* The send is left to the handler, or is that of the new frame (mutants).
PushOnly(f)  == outq' = Push(outq, OutSize, f) /\ UNCHANGED toWriter
SendThis(f)  == /\ outq' = Push(outq, OutSize, f)
                /\ toWriter' = Append(toWriter, f)
StartSend(f) == LET ring == Push(outq, OutSize, f)
                IN  IF Numitems(ring, OutSize) > 0 THEN SendNextPacket(ring)
                    ELSE outq' = ring /\ UNCHANGED toWriter

FromMux ==
  IF "muxin" \notin ready THEN UNCHANGED <<outq, toWriter, fromMux, gone>>
  ELSE LET f == Head(fromMux)
       IN  /\ fromMux' = Tail(fromMux)
           /\ gone' = IF IsFull(outq, OutSize)
                      THEN [gone EXCEPT !["out"] = @ \cup {f}] ELSE gone
           /\ StartSend(f)

Serve ==
  /\ AtMain("critical")
  /\ ToMux /\ FromMux
  /\ pc' = "test" /\ ready' = {}
  /\ UNCHANGED <<watch, pending, handling, readerSide, flags, launched, came>>

\* ethernet_mux hands on a frame of one of its modules, at any time: of what it
\* does only the order in the FIFO matters here.
MuxSends ==
  /\ came["out"] < MaxFrames
  /\ came' = [came EXCEPT !["out"] = @ + 1]
  /\ fromMux' = Append(fromMux, came'["out"])
  /\ UNCHANGED <<inq, outq, mainSide, pending, handling, readerSide,
                 writerSide, toMux, gone>>

-----------------------------------------------------------------------------
Handler == Interrupt \/ HandlerLooks \/ HandlerReturns
Main    == Watch \/ CallSelect \/ SelectReturns \/ BlockSignal \/ Serve
Writer  == WriterDiscard \/ WriterLaunch

Next == ReaderWrite \/ ReaderSignal \/ Handler \/ Main \/ Writer \/ MuxSends

\* The processes are scheduled and signals are delivered; frames need not come.
Spec == /\ Init /\ [][Next]_vars
        /\ WF_vars(ReaderSignal) /\ WF_vars(Handler) /\ WF_vars(Main)
        /\ WF_vars(Writer)

-----------------------------------------------------------------------------
(* Frames keep their order from the network to ethernet_mux, and from      *)
(* there to the network, through both socketpairs and rings (MyISR and the *)
(* main loop both work on them).                                           *)
IsIncreasing(s) == \A i \in 1..(Len(s) - 1) : s[i] < s[i + 1]

Inbound  == toMux \o Contents(inq, InSize) \o fromReader
Outbound == launched \o toWriter \o Contents(outq, OutSize) \o fromMux

FramesInOrder == IsIncreasing(Inbound) /\ IsIncreasing(Outbound)

(* Every frame that came is somewhere on its way, or has been dropped for  *)
(* a full ring, or was refused by the writer; none is in two places        *)
(* (PushPacket, PullPacket and their callers).                             *)
FramesAccounted ==
  /\ Range(Inbound) = (1..came["in"]) \ gone["in"]
  /\ Range(Outbound) = (1..came["out"]) \ (gone["out"] \cup gone["writer"])

(* SendNextPacket is called only if Numitems says that there is a frame,   *)
(* and Numitems says one too few (raw_ethernet_packet_buffer.cc:55): the   *)
(* output ring may keep a frame back, but never more than one.             *)
KeepsBackOne == Count(outq, OutSize) <= 1

(* However signals of the reader are merged (kill while one is pending),   *)
(* every frame it has written is taken out of the socketpair.              *)
FramesTaken == fromReader # <<>> ~> fromReader = <<>>

(* Each ring is a queue: the handler and the main loop never find another  *)
(* frame than they would in a queue, and none is dropped while there is    *)
(* room (RawEthernetPacketBuffer, with the one slot that stays free).      *)
InQueue  == INSTANCE FrameQueue WITH
              Bound <- InSize - 1, queue <- Contents(inq, InSize), lost <- gone["in"]
OutQueue == INSTANCE FrameQueue WITH
              Bound <- OutSize - 1, queue <- Contents(outq, OutSize), lost <- gone["out"]

RingsAreQueues == InQueue!Spec /\ OutQueue!Spec

(* The outcome of a write gets back to the driver.  writer.cc:18 says that *)
(* the writer will "write them to the wire and then signal back the parent *)
(* that the write is done".                                                *)
WriteSignalled == flags # <<>> ~> flags = <<>>
=============================================================================
