----------------------------- MODULE WireFormats -----------------------------
(***************************************************************************)
(* Packets as bytes: the header classes of libminet (ip.cc, tcp.cc, udp.cc,*)
(* icmp.cc, ethernet.cc), their setters and their checksums, and the code  *)
(* that builds a packet by calling one setter after the other.  A packet   *)
(* is built, turned into a frame, perhaps padded by the device, taken      *)
(* apart again by the stack of the host it is for, and answered when it is *)
(* an ICMP request.                                                        *)
(*                                                                         *)
(* A 32-bit field is the sequence of its four bytes, any other a number;   *)
(* hosts are little-endian.  Every setter computes the header's checksum   *)
(* anew, so what the order of the calls leaves in a field, and what a      *)
(* checksum was computed over, are what may go wrong.                      *)
(***************************************************************************)
EXTENDS Integers, SequencesExt

CONSTANTS
  Kinds,      \* what is built: see Builds
  Hosts,      \* IP addresses, four bytes each
  Numbers,    \* sequence and acknowledgement numbers, four bytes each
  Ports, Ids,
  Datas,      \* what the application sends
  Headers,    \* the IP headers of packets that an ICMP error quotes
  Me          \* MyIPAddr of the host that sends

MaxByte == 255
MaxWord == 65535
Byte    == 0..MaxByte
Word    == 0..MaxWord

ASSUME AddressAssumption == Hosts \cup Numbers \cup {Me} \subseteq [1..4 -> Byte]
ASSUME ShortAssumption   == Ports \cup Ids \subseteq Word
ASSUME DataAssumption    == Datas \subseteq Seq(Byte)
ASSUME HeaderAssumption  == Headers \subseteq [1..20 -> Byte]

VARIABLES
  kind,       \* what is built
  todo,       \* the setter calls still to come
  ip, tr,     \* the IP header and the header after it
  payload,
  set,        \* field |-> what it was last set to
  frame,      \* the frame on the Ethernet
  got         \* what the receiver has taken the frame apart into

vars == <<kind, todo, ip, tr, payload, set, frame, got>>

Nothing == <<>>
Bytes(n, size) == IF size = 1 THEN <<n % 256>> ELSE <<(n \div 256) % 256, n % 256>>
Number(b)      == IF Len(b) = 1 THEN b[1] ELSE 256 * b[1] + b[2]
Zeros(n)       == [i \in 1..n |-> 0]
Least(m, n)    == IF m < n THEN m ELSE n
Greatest(m, n) == IF m < n THEN n ELSE m
ExtractFront(b, n) == SubSeq(b, 1, Least(n, Len(b)))

\* Buffer::GetData and SetData: a buffer grows when something is set past its end.
\* What lies past the end of a header that is read is left as it was; such a read
\* only happens while a header is under construction, and is taken for 0.
ByteAt(b, i)          == IF i \in 1..Len(b) THEN b[i] ELSE 0
GetData(b, size, at)  == [i \in 1..size |-> ByteAt(b, at + i)]
SetData(b, data, at)  ==
  [i \in 1..Greatest(Len(b), at + Len(data)) |->
     IF i - at \in 1..Len(data) THEN data[i - at] ELSE ByteAt(b, i)]

-----------------------------------------------------------------------------
(* Where the fields are: the byte, the number of bytes and, within them,   *)
(* the lowest bit's value and the number of values.                        *)
At(at, size)              == [at |-> at, size |-> size, low |-> 1, range |-> IF size = 1 THEN 256 ELSE 65536]
Part(at, size, low, range) == [at |-> at, size |-> size, low |-> low, range |-> range]
Four(at)                  == [at |-> at, size |-> 4, low |-> 1, range |-> 1]

EthernetFields ==
  [etherdest |-> [Four(0) EXCEPT !.size = 6], ethersource |-> [Four(6) EXCEPT !.size = 6],
   ethertype |-> At(12, 2)]

IPFields ==
  [version |-> Part(0, 1, 16, 16), hlen |-> Part(0, 1, 1, 16), tos |-> At(1, 1),
   totlen |-> At(2, 2), id |-> At(4, 2), flags |-> Part(6, 1, 32, 8),
   fragoffset |-> Part(6, 2, 1, 8192), ttl |-> At(8, 1), protocol |-> At(9, 1),
   ipchecksum |-> At(10, 2), source |-> Four(12), dest |-> Four(16)]

TCPFields ==
  [srcport |-> At(0, 2), destport |-> At(2, 2), seqnum |-> Four(4), acknum |-> Four(8),
   tcphlen |-> Part(12, 1, 16, 16), tcpflags |-> Part(13, 1, 1, 64), winsize |-> At(14, 2),
   checksum |-> At(16, 2), urgent |-> At(18, 2)]

UDPFields ==
  [srcport |-> At(0, 2), destport |-> At(2, 2), length |-> At(4, 2), checksum |-> At(6, 2)]

\* identifier and seqnumber keep the byte order of the host.
ICMPFields ==
  [type |-> At(0, 1), code |-> At(1, 1), checksum |-> At(2, 2),
   identifier |-> At(4, 2), seqnumber |-> At(6, 2), pointer |-> At(4, 1)]

HostOrder(f, b) == IF f \in {"identifier", "seqnumber"} THEN Reverse(b) ELSE b

Get(fields, h, f) ==
  LET l == fields[f]
      b == HostOrder(f, GetData(h, l.size, l.at))
  IN  IF l.size > 2 THEN b ELSE (Number(b) \div l.low) % l.range

Put(fields, h, f, v) ==
  LET l   == fields[f]
      old == Number(GetData(h, l.size, l.at))
      new == old + ((v % l.range) - ((old \div l.low) % l.range)) * l.low
  IN  IF l.size > 2 THEN SetData(h, v, l.at)
      ELSE SetData(h, HostOrder(f, Bytes(new, l.size)), l.at)

-----------------------------------------------------------------------------
(* Checksums.                                                              *)
Fold16(n) == (n % 65536) + (n \div 65536)

\* The sums of the first i words, for every i.
Sums(words, n) ==
  LET sum[i \in 0..n] == IF i = 0 THEN 0 ELSE sum[i - 1] + words[i] IN sum

Words(b) == [i \in 1..((Len(b) + 1) \div 2) |-> 256 * ByteAt(b, 2 * i - 1) + ByteAt(b, 2 * i)]
OnesComplementSum(b) ==
  LET n == (Len(b) + 1) \div 2 IN Fold16(Fold16(Sums(Words(b), n)[n])) % 65536
Complement(n) == 65535 - n

IPComputeChecksum(h) == Complement(OnesComplementSum(GetData(h, 4 * Get(IPFields, h, "hlen"), 0)))
IPRecompute(h) ==
  LET zero == Put(IPFields, h, "ipchecksum", 0)
  IN  Put(IPFields, zero, "ipchecksum", IPComputeChecksum(zero))

PseudoHeader(iph, length) ==
  Get(IPFields, iph, "source") \o Get(IPFields, iph, "dest")
    \o <<0, Get(IPFields, iph, "protocol")>> \o Bytes(length, 2)

TCPComputeChecksum(h, iph, data) ==
  LET length == Get(IPFields, iph, "totlen") - 4 * Get(IPFields, iph, "hlen")
      hlen   == 4 * Get(TCPFields, h, "tcphlen")
  IN  Complement(OnesComplementSum(
        PseudoHeader(iph, length) \o GetData(h, hlen, 0) \o GetData(data, length - hlen, 0)))

UDPComputeChecksum(h, iph, data) ==
  LET length == Get(UDPFields, h, "length")
  IN  Complement(OnesComplementSum(
        PseudoHeader(iph, length) \o GetData(h, 8, 0) \o GetData(data, length - 8, 0)))

ICMPComputeChecksum(h, data) == Complement(OnesComplementSum(GetData(h, 8, 0) \o data))

\* A TCP header comes into being as 20 bytes with the first of its fields.
TCPRecompute(h, iph, data) ==
  LET whole == IF Len(h) < 20 THEN Put(TCPFields, h, "urgent", 0) ELSE h
      zero  == Put(TCPFields, whole, "checksum", 0)
  IN  Put(TCPFields, zero, "checksum", TCPComputeChecksum(zero, iph, data))

UDPRecompute(h, iph, data) ==
  LET zero == Put(UDPFields, h, "checksum", 0)
  IN  IF Get(UDPFields, zero, "length") < 8 THEN zero
      ELSE Put(UDPFields, zero, "checksum", UDPComputeChecksum(zero, iph, data))

ICMPRecompute(h, data) ==
  LET zero == Put(ICMPFields, h, "checksum", 0)
  IN  Put(ICMPFields, zero, "checksum", ICMPComputeChecksum(zero, data))

\* The checksum of a header that came with the packet; 0 stands for none.
IPChecksumCorrect(h) == IPComputeChecksum(h) = 0
TCPChecksumCorrect(h, iph, data) ==
  Get(TCPFields, h, "checksum") = 0 \/ TCPComputeChecksum(h, iph, data) = 0
UDPChecksumCorrect(h, iph, data) ==
  Get(UDPFields, h, "checksum") = 0 \/ UDPComputeChecksum(h, iph, data) = 0
ICMPChecksumCorrect(h, data) ==
  Get(ICMPFields, h, "checksum") = 0 \/ ICMPComputeChecksum(h, data) = 0

-----------------------------------------------------------------------------
(* The setters.                                                            *)
\* The flags are in the way of the offset and are lost (mutant).
SetFragOffsetOnly(h, v) == SetData(h, Bytes(v, 2), 6)
SetFragOffset(h, v) ==
  Put(IPFields, SetData(h, Bytes(v, 2), 6), "flags", Get(IPFields, h, "flags"))

SetIP(h, f, v) ==
  IPRecompute(IF f = "fragoffset" THEN SetFragOffset(h, v) ELSE Put(IPFields, h, f, v))

\* What IPHeader::IPHeader sets, in its order.
IPDefaults(id) ==
  << <<"version", 4>>, <<"hlen", 5>>, <<"tos", 0>>, <<"totlen", 20>>, <<"id", id>>,
     <<"flags", 2>>, <<"fragoffset", 0>>, <<"ttl", 64>>, <<"protocol", 255>>,
     <<"source", Zeros(4)>>, <<"dest", Zeros(4)>> >>

SetTransport(h, f, v) ==
  CASE kind.proto = 6  -> TCPRecompute(Put(TCPFields, h, f, v), ip, payload)
    [] kind.proto = 17 -> UDPRecompute(Put(UDPFields, h, f, v), ip, payload)
    [] kind.proto = 1  -> ICMPRecompute(Put(ICMPFields, h, f, v), payload)

-----------------------------------------------------------------------------
(* The calls that build a packet.                                          *)
ToHost(proto, from, to, length) ==
  << <<"protocol", proto>>, <<"source", from>>, <<"dest", to>>, <<"totlen", length>> >>

FIN == 1
SYN == 2
ACK == 16

\* packet_factory.cc: only a segment that acknowledges has an acknowledgement
\* number set.
Segment(flags, to, port, n, data) ==
  ToHost(6, Me, to, Len(data) + 40)
    \o << <<"srcport", port>>, <<"destport", port>>, <<"tcphlen", 5>>, <<"seqnum", n>> >>
    \o (IF flags >= ACK THEN << <<"acknum", n>> >> ELSE <<>>)
    \o << <<"tcpflags", flags>>, <<"winsize", 14600>> >>

\* udp_module, for a WRITE: the length comes last.
Datagram(to, port, data) ==
  ToHost(17, Me, to, Len(data) + 28)
    \o << <<"srcport", port>>, <<"destport", port>>, <<"length", 8 + Len(data)>> >>

\* ICMPPacket::ICMPPacket: the total length is the same for every message.
Message(type, code, to, data) ==
  << <<"tos", 0>>, <<"totlen", 48>>, <<"protocol", 1>>, <<"source", Me>>, <<"dest", to>>,
     <<"type", type>> >>
    \o (IF type = 12 THEN << <<"pointer", code>> >> ELSE <<>>)
    \o << <<"payload", data>>, <<"code", code>>, <<"identifier", 0>>, <<"seqnumber", 0>> >>

\* ExtractIphandEightBytes of a packet whose headers have been taken off.
Offender(header, data) == header \o ExtractFront(data, 8)

Broadcast == <<255, 255, 255, 255>>

Builds(to, port, n, data, header) ==
  [syn     |-> [proto |-> 6, data |-> <<>>, calls |-> Segment(SYN, to, port, n, <<>>)],
   synack  |-> [proto |-> 6, data |-> <<>>, calls |-> Segment(SYN + ACK, to, port, n, <<>>)],
   ack     |-> [proto |-> 6, data |-> data, calls |-> Segment(ACK, to, port, n, data)],
   fin     |-> [proto |-> 6, data |-> <<>>, calls |-> Segment(FIN, to, port, n, <<>>)],
   finack  |-> [proto |-> 6, data |-> <<>>, calls |-> Segment(FIN + ACK, to, port, n, <<>>)],
   udp     |-> [proto |-> 17, data |-> data, calls |-> Datagram(to, port, data)],
   echo    |-> [proto |-> 1, data |-> <<>>, calls |-> Message(8, 0, to, Zeros(56))],
   mask    |-> [proto |-> 1, data |-> <<>>, calls |-> Message(17, 0, Broadcast, Zeros(56))],
   timestamp |-> [proto |-> 1, data |-> <<>>,
                  calls |-> Message(13, 0, to, SetData(Zeros(56), n, 0))],
   unreachable |-> [proto |-> 1, data |-> <<>>, calls |-> Message(3, 3, to, Offender(header, data))],
   exceeded    |-> [proto |-> 1, data |-> <<>>, calls |-> Message(11, 0, to, Offender(header, data))],
   problem     |-> [proto |-> 1, data |-> <<>>, calls |-> Message(12, 2, to, Offender(header, data))]]

\* What fits into a segment (TCP_MAXIMUM_SEGMENT_SIZE) and a datagram (UDP_MAX_DATA).
MaxData(proto) == IF proto = 6 THEN 536 ELSE 65507

\* The setters called by the constructor of the IP header come first.
Init ==
  \E k \in Kinds, to \in Hosts, port \in Ports, n \in Numbers, id \in Ids, data \in Datas,
     header \in Headers :
    LET b == Builds(to, port, n, data, header)[k] IN
      /\ Len(b.data) <= MaxData(b.proto)
      /\ kind = [proto |-> b.proto, name |-> k]
      /\ todo = IPDefaults(id) \o b.calls /\ payload = b.data
      /\ ip = <<>> /\ tr = <<>> /\ set = <<>>
      /\ frame = Nothing /\ got = Nothing

\* The next setter.
Set ==
  /\ todo # <<>>
  /\ LET f == Head(todo)[1]
         v == Head(todo)[2]
     IN  /\ \/ f \in DOMAIN IPFields /\ ip' = SetIP(ip, f, v) /\ UNCHANGED <<tr, payload>>
            \/ f = "payload" /\ payload' = v /\ UNCHANGED <<ip, tr>>
            \/ /\ f \notin DOMAIN IPFields \cup {"payload", "addressmask", "originate"}
               /\ tr' = SetTransport(tr, f, v) /\ UNCHANGED <<ip, payload>>
            \/ /\ f \in {"addressmask", "originate"}
               /\ payload' = SetData(payload, v, 0)
               /\ tr' = IF f = "addressmask" THEN ICMPRecompute(tr, payload') ELSE tr
               /\ UNCHANGED ip
         /\ set' = [g \in DOMAIN set \cup {f} |-> IF g = f THEN v ELSE set[g]]
  /\ todo' = Tail(todo)
  /\ UNCHANGED <<kind, frame, got>>

\* ip_module puts an Ethernet header in front.  Of a frame that is too long no
\* RawEthernetPacket can be made: the throw ends ip_module, and nothing is sent.
\* The device may pad a short frame to 60.
ETHERNET_PACKET_LEN == 14 + 1500

EthernetHeader ==
  Put(EthernetFields, SetData(Zeros(6), Zeros(6), 6), "ethertype", 2048)

Send ==
  /\ todo = <<>> /\ frame = Nothing
  /\ \E padded \in BOOLEAN :
       LET f == EthernetHeader \o ip \o tr \o payload
       IN  /\ Len(f) <= ETHERNET_PACKET_LEN
           /\ frame' = f \o (IF padded /\ Len(f) < 60 THEN Zeros(60 - Len(f)) ELSE <<>>)
  /\ UNCHANGED <<kind, todo, ip, tr, payload, set, got>>

\* ExtractHeaderFromPayload for the Ethernet, the IP and the next header.
After(b, n) == SubSeq(b, n + 1, Len(b))
TakenApart(f) ==
  LET b     == After(f, 14)
      iph   == ExtractFront(b, 4 * Get(IPFields, b, "hlen"))
      rest  == After(b, 4 * Get(IPFields, b, "hlen"))
      proto == Get(IPFields, iph, "protocol")
      size  == IF proto = 6 THEN 4 * Get(TCPFields, rest, "tcphlen") ELSE 8
  IN  [proto |-> proto, ip |-> iph, tr |-> ExtractFront(rest, size), payload |-> After(rest, size)]

Receive ==
  /\ frame # Nothing /\ got = Nothing
  /\ got' = TakenApart(frame)
  /\ UNCHANGED <<kind, todo, ip, tr, payload, set, frame>>

\* ICMPPacket::respond: the packet turned round, with its type changed.  That a
\* timestamp is answered is up to an uninitialised requires_response, and its time is
\* set after the checksum.
Respond ==
  /\ got # Nothing /\ got.proto = 1
  /\ \E n \in Numbers : LET type == Get(ICMPFields, got.tr, "type") IN
       /\ type \in {8, 13, 17}
       /\ todo' = << <<"source", Get(IPFields, got.ip, "dest")>>,
                     <<"dest", Get(IPFields, got.ip, "source")>> >>
                  \o (CASE type = 8  -> << <<"type", 0>> >>
                        [] type = 13 -> << <<"type", 14>>, <<"originate", n>> >>
                        [] type = 17 -> << <<"type", 18>>, <<"addressmask", <<255, 255, 0, 0>> >> >>)
  /\ ip' = got.ip /\ tr' = got.tr /\ payload' = got.payload
  /\ frame' = Nothing /\ got' = Nothing
  /\ UNCHANGED <<kind, set>>

Next == Set \/ Send \/ Receive \/ Respond

Spec == Init /\ [][Next]_vars

-----------------------------------------------------------------------------
(* What was set is what the receiver finds, whatever was set in between in *)
(* the same bytes, and its checksums are right although each was computed  *)
(* while headers and payload were still being made (ip.cc:246, tcp.cc:205, *)
(* udp.cc:113, icmp.cc:318).  It takes the data for what the sender meant, *)
(* without the padding.                                                    *)
Fields(proto) == CASE proto = 6 -> TCPFields [] proto = 17 -> UDPFields [] proto = 1 -> ICMPFields

TransportCorrect ==
  CASE got.proto = 6  -> TCPChecksumCorrect(got.tr, got.ip, got.payload)
    [] got.proto = 17 -> UDPChecksumCorrect(got.tr, got.ip, got.payload)
    [] got.proto = 1  -> ICMPChecksumCorrect(got.tr, got.payload)

\* extractPayload and udp_module: the length in the header says what is data.
Data ==
  CASE got.proto = 6 -> ExtractFront(got.payload, Get(IPFields, got.ip, "totlen")
                                 - 4 * Get(IPFields, got.ip, "hlen") - 4 * Get(TCPFields, got.tr, "tcphlen"))
    [] got.proto = 17 -> ExtractFront(got.payload, Get(UDPFields, got.tr, "length") - 8)
    [] got.proto = 1  -> ExtractFront(got.payload, Len(payload))

ArrivesAsBuilt ==
  got # Nothing =>
    /\ got.proto = kind.proto
    /\ IPChecksumCorrect(got.ip) /\ TransportCorrect
    /\ \A f \in DOMAIN set :
         /\ f \in DOMAIN IPFields => Get(IPFields, got.ip, f) = set[f]
         /\ f \in DOMAIN Fields(kind.proto) => Get(Fields(kind.proto), got.tr, f) = set[f]
    /\ Data = payload

(* ip.cc:196 says of SetTotalLength "note that total length is             *)
(* automatically computed": the total length of a packet that is sent is   *)
(* the length it has.                                                      *)
LengthIsReal ==
  frame # Nothing => Get(IPFields, ip, "totlen") = Len(ip) + Len(tr) + Len(payload)

(* icmp.cc:302 says of the code of a parameter problem "code is            *)
(* interpreted as the place where the error is": that is what its pointer  *)
(* says.                                                                   *)
PointerKept ==
  frame # Nothing /\ kind.name = "problem" => Get(ICMPFields, tr, "pointer") = set["pointer"]
=============================================================================
