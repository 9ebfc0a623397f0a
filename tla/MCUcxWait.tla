----------------------------- MODULE MCUcxWait -----------------------------
(* Usages of the UcxWait run. *)
EXTENDS UcxWait

\* One peer's transfers outstanding at a time.  Waits for single wr_ids learn of
\* failures, lists time out and are tried again; endpoints are closed when their
\* transfers have been waited for.
OrderlyUsages ==
    {{"put", "nb", "wait", "fail", "close"}, {"nb", "wait", "list", "retry", "close"}}
=============================================================================
