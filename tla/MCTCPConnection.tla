-------------------------- MODULE MCTCPConnection ---------------------------
(* Constants for model-checking TCPConnection.                             *)
EXTENDS TCPConnection

MCISN == [h \in Host |-> IF h = A THEN 1 ELSE 3]

ClientServer == [h \in Host |-> IF h = A THEN {"CONNECT"} ELSE {"ACCEPT"}]
AnyRole      == [h \in Host |-> {"CONNECT", "ACCEPT"}]

\* A write of more than two windows one way, of a byte the other way.
LargeWrites == [h \in Host |-> IF h = A THEN {5} ELSE {1}]
SmallWrites == [h \in Host |-> {1, 2}]

MoreBytes == [h \in Host |-> IF h = A THEN 5 ELSE 1]
BothWrite == [h \in Host |-> IF h = A THEN 2 ELSE 1]
NoBytes   == [h \in Host |-> 0]
=============================================================================
