--------------------------- MODULE MCUcxHandshake ---------------------------
(* Addresses of the UcxHandshake run. *)
EXTENDS UcxHandshake

CONSTANTS C1, S1

\* One client connects to both servers, both clients connect to one.
Crossing == [c \in Client |-> IF c = C1 THEN Server ELSE {S1}]

\* The clients are on one host and listen on ports of their own.
OneHost == [c \in Client |-> "host"]
OwnPorts == [c \in Client |-> c]
=============================================================================
