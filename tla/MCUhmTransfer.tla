--------------------------- MODULE MCUhmTransfer ---------------------------
(* Bounds for TLC: a message of a few chunks, two queue pairs, the          *)
(* serialized setting and one that batches its signals.                     *)
EXTENDS UhmTransfer

MCSettings == {<<1, 1>>, <<2, 2>>}
=============================================================================
