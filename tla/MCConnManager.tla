--------------------------- MODULE MCConnManager ---------------------------
(* Who establishes which connections in the ConnManager run. *)
EXTENDS ConnManager

CONSTANTS K1, K2

\* One side of a pair connects.
OneSide == [k \in Key |-> IF k = K1 THEN {"client"} ELSE {"server"}]
=============================================================================
