----------------------------- MODULE MCNetwork ------------------------------
(***************************************************************************)
(* Network for TLC: two hosts, that between them run every program.        *)
(***************************************************************************)
EXTENDS Network, TLC

CONSTANTS a, b

TwoHosts == {a, b}
Programs(ip, driver, ipother) == [ip |-> ip, driver |-> driver, ipother |-> ipother]

EveryProgram ==
  {a :> Programs("plain", "pcap", FALSE) @@ b :> Programs("routing", "reader", TRUE),
   a :> Programs("diffusion", "reader", FALSE) @@ b :> Programs("plain", "reader", TRUE)}
=============================================================================
