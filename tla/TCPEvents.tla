----------------------------- MODULE TCPEvents ------------------------------
(***************************************************************************)
(* The control of tcp_module: the guards of tcp_event.cc and the switch of *)
(* connectionStateTransfer, which selects the transition function that a   *)
(* record's state has for a segment or for a request of sock_module.       *)
(***************************************************************************)

State == {"CLOSED", "LISTEN", "SYN_RCVD", "SYN_SENT", "ESTABLISHED",
          "FIN_WAIT1", "FIN_WAIT2", "TIME_WAIT", "CLOSE_WAIT", "LAST_ACK"}

Flag == {"SYN", "ACK", "FIN"}

(* The guards of tcp_event.cc on the flags of a segment.                    *)
\* A guard that forgets to look at the flags (mutant).
AnyFlags(f) == TRUE
IsSyn(f)    == "SYN" \in f
IsAck(f)    == "ACK" \in f
IsFin(f)    == "FIN" \in f
IsSynAck(f) == IsSyn(f) /\ IsAck(f)

-----------------------------------------------------------------------------
(* The branch of the switch for the record's state, with its guards in     *)
(* their order.  What no guard enables, and the transition functions with  *)
(* an empty body, change nothing: "ignore".  A CLOSE in SYN_SENT or        *)
(* SYN_RCVD is left out: an application waits for its connect or accept to *)
(* return, and its requests arrive in the order it makes them.             *)

OnPacket(s, f) ==
  CASE s = "LISTEN"      /\ IsSyn(f)                 -> "SynRcvd"
    [] s = "SYN_SENT"    /\ IsSynAck(f)              -> "SynSentEstablished"
    [] s = "SYN_RCVD"    /\ IsAck(f)                 -> "SynRcvdEstablished"
    [] s = "ESTABLISHED" /\ IsFin(f)                 -> "CloseWait"
    [] s = "ESTABLISHED" /\ f = {"ACK"}              -> "Loop"
    [] s = "FIN_WAIT1"   /\ IsAck(f) /\ ~IsFin(f)    -> "FinWait2"
    [] s = "FIN_WAIT2"   /\ IsFin(f)                 -> "TimeWait"
    [] s = "LAST_ACK"    /\ IsAck(f)                 -> "Closed"
    [] OTHER                                         -> "ignore"

OnRequest(s, ty) ==
  CASE s = "CLOSED"      /\ ty = "CONNECT" -> "SynSent"
    [] s = "CLOSED"      /\ ty = "ACCEPT"  -> "Listen"
    [] s = "ESTABLISHED" /\ ty = "CLOSE"   -> "FinWait1"
    [] s = "ESTABLISHED" /\ ty = "WRITE"   -> "LoopWrite"
    [] s = "ESTABLISHED" /\ ty = "STATUS"  -> "LoopStatus"
    [] s = "CLOSE_WAIT"  /\ ty = "CLOSE"   -> "LastAck"
    [] OTHER                               -> "ignore"
=============================================================================
