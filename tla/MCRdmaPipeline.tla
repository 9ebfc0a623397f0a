--------------------------- MODULE MCRdmaPipeline ---------------------------
(* Settings of the RdmaPipeline runs. *)
EXTENDS RdmaPipeline

\* Every chunk signaled, with room for the windows of failed calls; a window
\* that fills the five slots exactly after one failed call; an
\* interval above max_inflight and one equal to it, which fill the five slots
\* exactly when no call has failed; a window above the send queue.
MCSettings == {<<1, 1>>, <<2, 2>>, <<6, 3>>, <<3, 3>>, <<2, 8>>}
=============================================================================
