----------------------------- MODULE SocketCall ------------------------------
(***************************************************************************)
(* What minet_socket.cc relies on: every call of the library is one message*)
(* to sock_module and one message back, over a FIFO that carries nothing   *)
(* but the two messages' own contents.  The library takes the first message*)
(* it gets for the answer.  So there must never be more than one answer,   *)
(* none when nobody waits, and it must be the answer to this call.         *)
(***************************************************************************)
EXTENDS Sequences

CONSTANTS Calls,             \* the calls an application can make
          NoCall,            \* it makes none
          Answers,           \* what sock_module may send back
          AnswerTo(_, _)     \* whether an answer is one to a call

VARIABLES call,              \* the call the application waits for
          toApp              \* FIFO from sock_module to the application

Init == call = NoCall /\ toApp = <<>>

\* A call, which sock_module may answer in the handler that takes it.
Make ==
  /\ call = NoCall /\ toApp = <<>>
  /\ call' \in Calls
  /\ \/ toApp' = <<>>
     \/ \E a \in Answers : AnswerTo(a, call') /\ toApp' = <<a>>

Answer ==
  /\ call # NoCall /\ toApp = <<>>
  /\ \E a \in Answers : AnswerTo(a, call) /\ toApp' = <<a>>
  /\ UNCHANGED call

Return ==
  /\ call # NoCall /\ toApp # <<>>
  /\ call' = NoCall /\ toApp' = Tail(toApp)

Next == Make \/ Answer \/ Return

Spec == Init /\ [][Next]_<<call, toApp>>
=============================================================================
