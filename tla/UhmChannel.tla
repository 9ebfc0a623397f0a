----------------------------- MODULE UhmChannel -----------------------------
(***************************************************************************)
(* What the double buffer of a UHM transfer promises: chunks are posted and *)
(* copied out one by one, in order, and the sender is never more than the   *)
(* two halves of the buffer ahead of the receiver.                          *)
(***************************************************************************)
EXTENDS Integers

CONSTANT NumChunks

VARIABLES posted,   \* chunks whose data write the sender posted
          copied    \* chunks the receiver copied out

Init == posted = 0 /\ copied = 0

Post ==
    /\ posted < NumChunks
    /\ posted < copied + 2
    /\ posted' = posted + 1
    /\ UNCHANGED copied

CopyOut ==
    /\ copied < posted
    /\ copied' = copied + 1
    /\ UNCHANGED posted

Next == Post \/ CopyOut

Spec == Init /\ [][Next]_<<posted, copied>>
=============================================================================
