------------------------------ MODULE MCMinet -------------------------------
(***************************************************************************)
(* Minet for TLC: one configuration per question, each with the modules    *)
(* that the question is about.                                             *)
(***************************************************************************)
EXTENDS Minet

Stack(modules) ==
  [modules |-> modules, monitored |-> {}, launched |-> modules,
   traffic |-> 0, quits |-> {}, xterm |-> FALSE]

Link == {"device_driver", "ethernet_mux", "arp_module", "ip_module"}

\* Everything starts; the second set is monitored.
Start == Stack({"ethernet_mux", "arp_module", "ip_module", "ip_mux",
                "udp_module", "tcp_module", "sock_module", "app"})
Watch == [Stack({"ip_module", "ip_mux", "tcp_module", "sock_module",
                 "app"}) EXCEPT
            !.monitored = {"ip_module", "tcp_module", "sock_module"},
            !.launched = @ \cup {"monitor"}]

\* reader has no FIFO for the monitor, and ethernet_mux waits for other_module.
WatchReader == [Watch EXCEPT !.monitored = @ \cup {"reader"}]
NoOther     == Stack(Link \cup {"ip_mux", "ipother_module"})

\* Without arp_module ip_module gives up, and the others end with it.
NoArp == Stack({"ethernet_mux", "ip_module", "ip_mux", "tcp_module",
                "sock_module", "app"})

\* Traffic: enough for a deadlock of device_driver and ethernet_mux, and of
\* tcp_module and ip_mux.
Busy(modules, n) == [Stack(modules) EXCEPT !.traffic = n]
LinkFull  == Busy(Link \cup {"ip_mux"}, 3)
Segmented == Busy(Link \cup {"ip_mux", "tcp_module"}, 3)
Resent    == Busy(Link \cup {"ip_mux", "tcp_module", "sock_module"}, 2)
Transport == Busy({"ip_mux", "udp_module", "icmp_module", "sock_module",
                   "app"}, 2)

\* Ends: of one of the modules, with messages under way.
Ends(modules, n, p, key) ==
  [Busy(modules, n) EXCEPT !.quits = {p}, !.xterm = key]
Small == {"arp_module", "ip_module", "ip_mux", "tcp_module", "sock_module",
          "app"}
Other == {"ip_mux", "tcp_module", "ipother_module", "sock_module", "app"}
WatchEnds(p) == [Watch EXCEPT !.quits = {p}, !.traffic = 1]

StackConfigs ==
  [start |-> Start, watch |-> Watch, watchreader |-> WatchReader,
   noother |-> NoOther, noarp |-> NoArp,
   linkfull |-> LinkFull, transport |-> Transport,
   appends |-> Ends(Small, 1, "app", FALSE),
   muxends |-> Ends(Link \cup {"ip_mux", "tcp_module"}, 1, "ethernet_mux",
                    FALSE),
   otherends |-> Ends(Other, 1, "ipother_module", FALSE),
   lingers |-> Ends(Other, 1, "app", TRUE),
   fullends |-> Ends({"device_driver", "ethernet_mux", "arp_module"}, 4,
                     "arp_module", FALSE),
   tcpends |-> WatchEnds("tcp_module"),
   monitorends |-> WatchEnds("monitor")]

\* Send loops of several segments and WRITEs sent again (stack_full.cfg).
FullConfigs == [segmented |-> Segmented, resent |-> Resent]
=============================================================================
