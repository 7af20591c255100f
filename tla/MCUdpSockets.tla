---------------------------- MODULE MCUdpSockets -----------------------------
(***************************************************************************)
(* UdpSockets for TLC: two sockets, that are closed and opened again, two  *)
(* ports and one remote end.                                               *)
(***************************************************************************)
EXTENDS UdpSockets

CONSTANT r1

OneRemote == {r1}
TwoPorts  == {1, 2}
=============================================================================
