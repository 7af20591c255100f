--------------------------- MODULE MCSocketTable ---------------------------
(***************************************************************************)
(* SocketTable for TLC: a few sockets and ports, so that they run out.     *)
(***************************************************************************)
EXTENDS SocketTable

CONSTANT r1

OneRemote == {r1}
TwoPorts  == {1, 2}

\* A server with one listener that accepts twice, next to a client's connect.
SomeCalls == [SOCKET |-> 2, BIND |-> 1, LISTEN |-> 1, ACCEPT |-> 2,
              CONNECT |-> 1, READ |-> 1, WRITE |-> 1, CLOSE |-> 1]
=============================================================================
