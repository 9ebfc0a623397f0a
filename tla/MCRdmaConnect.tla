--------------------------- MODULE MCRdmaConnect ---------------------------
(* Keys and retries of the RdmaConnect runs. *)
EXTENDS RdmaConnect

\* Every client has a listen port of its own.
OwnKeys == [c \in Client |-> c]

\* A call that retries among calls that do not.
MCTries == <<1, 2, 1>>
=============================================================================
