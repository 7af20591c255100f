--------------------------- MODULE MCWireFormats ----------------------------
(***************************************************************************)
(* WireFormats for TLC: addresses, ports and numbers at both ends of their *)
(* ranges, and data of no, odd and even length, shorter and longer than    *)
(* what an ICMP error quotes.                                              *)
(***************************************************************************)
EXTENDS WireFormats

MyIPAddr   == <<10, 0, 0, 1>>
SomeHosts  == {<<10, 0, 0, 2>>, <<255, 255, 255, 254>>}
SomeNumbers == {<<0, 0, 0, 0>>, <<255, 255, 255, 255>>}
SomePorts  == {7, 65535}
SomeIds    == {0, 65535}
\* The header of a datagram that was for this host.
NewIP(calls) == FoldLeft(LAMBDA h, c : SetIP(h, c[1], c[2]), <<>>, calls)
SomeHeaders == {NewIP(IPDefaults(0) \o ToHost(17, <<10, 0, 0, 2>>, MyIPAddr, 38))}
SomeDatas  == {<<>>, <<1>>, <<255, 255, 255>>, <<0, 0, 0, 0, 0, 1, 2, 3, 4, 5>>}

Sent       == {"syn", "synack", "ack", "fin", "finack", "udp", "echo", "mask",
               "unreachable", "exceeded"}
Errors     == {"unreachable"}
Problems   == {"problem"}
=============================================================================
