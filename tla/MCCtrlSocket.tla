---------------------------- MODULE MCCtrlSocket ----------------------------
(* Who dials whom in the CtrlSocket runs. *)
EXTENDS CtrlSocket

\* One rank of a pair dials.
OneWay == {<<1, 2>>, <<3, 2>>}
=============================================================================
