---------------------------- MODULE MCCollective ----------------------------
(* Chunk counts and connections of the Collective run. *)
EXTENDS Collective

\* Chunked blocks in the direct algorithm, whole ones in the ring.
MCChunks == [a \in Algos |-> IF a = "direct" THEN 2 ELSE 1]

\* Ranks 0 and 1 are connected by UCX, both by RDMA with rank 2.  Of the puts
\* over UCX those of rank 1 may be late: a late chunk touches its own block
\* only, so one direction shows what both would.
MCUcx == {<<1, 0>>}
=============================================================================
