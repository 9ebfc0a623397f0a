------------------------------ MODULE MCCqWait ------------------------------
(* Model values and usages of the CqWait runs. *)
EXTENDS CqWait

CONSTANTS t1, t2

MCThread == {t1, t2}

\* Blocking transfers from both threads; non-blocking ones waited for in lists;
\* one non-blocking transfer at a time.
SafeUsages == {{"put"}, {"nb", "waitAll"}, {"solo", "wait"}}

\* Non-blocking transfers waited for one by one.
OverlapUsages == {{"nb", "wait"}}
=============================================================================
