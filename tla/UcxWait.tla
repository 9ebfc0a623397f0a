------------------------------ MODULE UcxWait ------------------------------
(***************************************************************************)
(* Non-blocking transfers of one process over several UCX endpoints: put,   *)
(* get, putNB, getNB, the two wait calls and disConnect of Communicator,    *)
(* and the requests behind them in UCXEndpoint (communicator.cpp,           *)
(* ucx_endpoint.cpp).                                                      *)
(*                                                                         *)
(* A wr_id goes through two tables under two mutexes: inflight_ep_ of the   *)
(* Communicator says which endpoint issued it, inflight_ of that endpoint   *)
(* which UCX request it stands for.  Ids are counted by each endpoint for   *)
(* itself, so those of two endpoints coincide.  Transfers are posted under  *)
(* the mutex of the endpoint's entry; waits use the raw pointer found in    *)
(* inflight_ep_ without it.                                                *)
(*                                                                         *)
(* A transfer is its number; reads and writes are alike.  All endpoints     *)
(* share the worker of UCXClient::global_ctx_, and a request advances only  *)
(* while some thread calls progress.  The table of endpoints is that of     *)
(* ConnManager; here an endpoint is in it or not.                          *)
(***************************************************************************)
EXTENDS Integers, Sequences, FiniteSets

CONSTANTS Ep,      \* endpoints to different peers
          Thread,  \* application threads
          MaxOps,  \* bound: transfers of a behaviour
          Usages,  \* sets of calls an application restricts itself to
          None     \* no endpoint or thread

ASSUME UcxMaxOpsAssumption == MaxOps \in Nat
ASSUME UcxNoneAssumption == None \notin Ep \cup Thread
ASSUME UcxUsagesAssumption ==
    Usages \subseteq SUBSET {"put", "nb", "wait", "list", "retry", "fail", "mix", "close", "rude"}

VARIABLES
    usage,       \* the calls this application makes
    ops,         \* endpoint and wr_id of each transfer posted so far
    status,      \* what ucp_request_check_status says of each
    freed,       \* transfers whose request has been given back to UCX
    nextWrid,    \* next_wrid_ of each endpoint, less its initial 1
    inflight,    \* inflight_ of each endpoint: the transfers it holds
    inflightEp,  \* inflight_ep_: the endpoint of each wr_id
    entry,       \* holder of the mutex of each endpoint's entry
    table,       \* endpoints that withEndpoint finds
    live,        \* endpoints not destroyed
    thread,      \* where each thread is
    handles,     \* transfers whose wr_id the application has yet to wait for
    abandoned,   \* requests a wait has taken out and given up on
    reported     \* transfers some call has returned SUCCESS for

vars == <<usage, ops, status, freed, nextWrid, inflight, inflightEp, entry, table, live,
          thread, handles, abandoned, reported>>

Op == 1 .. MaxOps
Id == 2 .. MaxOps + 1

\* A thread in a call: the endpoint it is at, the transfers the call is about,
\* endpoints and wr_ids still to be waited for, and requests in its hands.
Idle == [at |-> "idle", ep |-> None, asked |-> {}, todo |-> {}, held |-> {}]

Init ==
    /\ usage \in Usages
    /\ ops = <<>>
    /\ status = <<>>
    /\ freed = {}
    /\ nextWrid = [e \in Ep |-> 0]
    /\ inflight = [e \in Ep |-> {}]
    /\ inflightEp = [id \in Id |-> None]
    /\ entry = [e \in Ep |-> None]
    /\ table = Ep
    /\ live = Ep
    /\ thread = [t \in Thread |-> Idle]
    /\ handles = {}
    /\ abandoned = {}
    /\ reported = {}

----------------------------------------------------------------------------
Enter(t, at, e, asked, todo, held) ==
    thread' = [thread EXCEPT ![t] =
                   [at |-> at, ep |-> e, asked |-> asked, todo |-> todo, held |-> held]]

\* A call returns SUCCESS, or something else.
Succeed(t) ==
    /\ thread' = [thread EXCEPT ![t] = Idle]
    /\ reported' = reported \cup thread[t].asked
Fail(t) ==
    /\ thread' = [thread EXCEPT ![t] = Idle]
    /\ UNCHANGED reported

\* The wr_ids of transfers, without those that were done at once.
IdsOf(os) == {ops[o].id : o \in os} \ {0}

----------------------------------------------------------------------------
(***************************************************************************)
(* Transfers                                                               *)
(***************************************************************************)
\* ucp_put_nbx or ucp_get_nbx hands back a request, or has done the transfer at
\* once and hands back none.  When it fails nothing changes.
Post(e, id, st) ==
    /\ Len(ops) < MaxOps
    /\ ops' = Append(ops, [ep |-> e, id |-> id])
    /\ status' = Append(status, st)

\* put, get: writeData and readData wait inside withEndpoint.
Put(t, e) ==
    LET o == Len(ops) + 1
    IN  /\ thread[t] = Idle /\ "put" \in usage
        /\ e \in table /\ entry[e] = None
        /\ \/ /\ Post(e, 0, "busy")
              /\ entry' = [entry EXCEPT ![e] = t]
              /\ Enter(t, "drive", e, {o}, {}, {o})
              /\ UNCHANGED <<freed, reported>>
           \/ /\ Post(e, 0, "ok")
              /\ freed' = freed \cup {o}
              /\ reported' = reported \cup {o}
              /\ UNCHANGED <<entry, thread>>
        /\ UNCHANGED <<usage, nextWrid, inflight, inflightEp, table, live, handles, abandoned>>

\* The transfers whose wr_ids the application is still concerned with.
Outstanding == handles \cup UNION {thread[t].asked : t \in Thread}

\* An application without "mix" has transfers of one peer outstanding at a time.
OnePeer(e) == \A o \in Outstanding : ops[o].id # 0 => ops[o].ep = e

\* The next wr_id of endpoint e; 0 is kept for transfers that are done.
MutNewId(e) == nextWrid[e] + 1
NewId(e) == nextWrid[e] + 2

\* putNB, getNB: the endpoint files the request under a new wr_id.
PutNB(t, e) ==
    LET o == Len(ops) + 1
    IN  /\ thread[t] = Idle /\ "nb" \in usage
        /\ "mix" \in usage \/ OnePeer(e)
        /\ e \in table /\ entry[e] = None
        /\ \/ /\ Post(e, NewId(e), "busy")
              /\ nextWrid' = [nextWrid EXCEPT ![e] = @ + 1]
              /\ inflight' = [inflight EXCEPT ![e] = @ \cup {o}]
              /\ entry' = [entry EXCEPT ![e] = t]
              /\ Enter(t, "record", e, {o}, {}, {})
              /\ UNCHANGED <<freed, handles>>
           \/ /\ Post(e, 0, "ok")
              /\ freed' = freed \cup {o}
              /\ handles' = handles \cup {o}
              /\ UNCHANGED <<nextWrid, inflight, entry, thread>>
        /\ UNCHANGED <<usage, inflightEp, table, live, abandoned, reported>>

\* ... and the Communicator files the endpoint; the application has its wr_id.
Record(t) ==
    /\ thread[t].at = "record"
    /\ \E o \in thread[t].asked : inflightEp' = [inflightEp EXCEPT ![ops[o].id] = thread[t].ep]
    /\ entry' = [entry EXCEPT ![thread[t].ep] = None]
    /\ handles' = handles \cup thread[t].asked
    /\ Fail(t)
    /\ UNCHANGED <<usage, ops, status, freed, nextWrid, inflight, table, live, abandoned>>

----------------------------------------------------------------------------
(***************************************************************************)
(* Communicator::wait                                                      *)
(***************************************************************************)
\* The entry of a wr_id goes when a wait has found it.
Forget(ids) == [id \in Id |-> IF id \in ids THEN None ELSE inflightEp[id]]

\* wait(wr_id)
Wait(t, o) ==
    LET id == ops[o].id
    IN  /\ thread[t] = Idle /\ "wait" \in usage
        /\ o \in handles
        /\ handles' = handles \ {o}
        /\ \/ /\ id = 0                                    \* SUCCESS
              /\ reported' = reported \cup {o}
              /\ UNCHANGED <<inflightEp, thread>>
           \/ /\ id # 0 /\ inflightEp[id] = None           \* NOT_FOUND
              /\ UNCHANGED <<inflightEp, thread, reported>>
           \/ /\ id # 0 /\ inflightEp[id] # None
              /\ inflightEp' = Forget({id})
              /\ Enter(t, "take", inflightEp[id], {o}, {<<inflightEp[id], id>>}, {})
              /\ UNCHANGED reported
        /\ UNCHANGED <<usage, ops, status, freed, nextWrid, inflight, entry, table, live, abandoned>>

\* wait(wr_ids): all of them are looked up first.  At the first that is not in
\* the table the call returns NOT_FOUND, and those before it are forgotten.
WaitList(t, os) ==
    LET ids == IdsOf(os)
        unknown == {id \in ids : inflightEp[id] = None}
        distinct == Cardinality(ids) = Cardinality({o \in os : ops[o].id # 0})
    IN  /\ thread[t] = Idle /\ "list" \in usage
        /\ os # {} /\ os \subseteq handles
        /\ \/ /\ unknown = {} /\ distinct
              /\ handles' = handles \ os
              /\ inflightEp' = Forget(ids)
              /\ Enter(t, "takeAll", None, os, {<<inflightEp[id], id>> : id \in ids}, {})
           \/ /\ unknown # {} \/ ~distinct
              /\ handles' = handles \ os \/ ("retry" \in usage /\ UNCHANGED handles)
              /\ \E before \in SUBSET (ids \ unknown) : inflightEp' = Forget(before)
              /\ UNCHANGED thread
        /\ UNCHANGED <<usage, ops, status, freed, nextWrid, inflight, entry, table, live,
                       abandoned, reported>>

----------------------------------------------------------------------------
(***************************************************************************)
(* UCXEndpoint::waitWrId and waitWrIdMulti                                 *)
(***************************************************************************)
\* The requests filed at endpoint e under ids.
Filed(e, ids) == {o \in inflight[e] : ops[o].id \in ids}

\* A request that is taken out of inflight_ is erased from it.
MutUnfile(e, os) == inflight
Unfile(e, os) == [inflight EXCEPT ![e] = @ \ os]

\* waitWrId takes its request out; an id it does not know is an error.
Take(t) ==
    \E p \in thread[t].todo :
        LET found == Filed(p[1], {p[2]})
        IN  /\ thread[t].at = "take"
            /\ inflight' = Unfile(p[1], found)
            /\ IF found = {}
               THEN Fail(t)
               ELSE Enter(t, "drive", p[1], thread[t].asked, {}, found) /\ UNCHANGED reported
            /\ UNCHANGED <<usage, ops, status, freed, nextWrid, inflightEp, entry, table, live,
                           handles, abandoned>>

\* ucs_to_status: a request that failed is told from one that is done.
MutGood(o) == TRUE
Good(o) == status[o] = "ok"

\* The request has ended: it is freed and its status returned.  A blocking
\* transfer releases the entry.
Drive(t) ==
    /\ thread[t].at = "drive"
    /\ \E o \in thread[t].held :
          /\ status[o] # "busy"
          /\ freed' = freed \cup {o}
          /\ IF Good(o) THEN Succeed(t) ELSE Fail(t)
    /\ entry' = [e \in Ep |-> IF entry[e] = t THEN None ELSE entry[e]]
    /\ UNCHANGED <<usage, ops, status, nextWrid, inflight, inflightEp, table, live, handles,
                   abandoned>>

\* waitWrIdMulti for the next endpoint of the list takes all its requests out;
\* at an id the endpoint does not know it returns, and those it took out before
\* are in nobody's hands.  When no endpoint is left the call returns SUCCESS.
TakeAll(t) ==
    /\ thread[t].at = "takeAll"
    /\ \/ /\ thread[t].todo = {}
          /\ Succeed(t)
          /\ UNCHANGED <<inflight, abandoned>>
       \/ \E e \in {p[1] : p \in thread[t].todo} :
             LET here == {p \in thread[t].todo : p[1] = e}
                 found == Filed(e, {p[2] : p \in here})
             IN  IF Cardinality(found) < Cardinality(here)
                 THEN \E before \in SUBSET found :
                          /\ inflight' = Unfile(e, before)
                          /\ abandoned' = abandoned \cup before
                          /\ Fail(t)
                 ELSE /\ inflight' = Unfile(e, found)
                      /\ Enter(t, "driveAll", e, thread[t].asked, thread[t].todo \ here, found)
                      /\ UNCHANGED <<abandoned, reported>>
    /\ UNCHANGED <<usage, ops, status, freed, nextWrid, inflightEp, entry, table, live, handles>>

\* A round over the requests frees those that have ended, in whatever status.
Poll(t) ==
    LET ended == {o \in thread[t].held : status[o] # "busy"}
    IN  /\ thread[t].at = "driveAll"
        /\ ended # {}
        /\ freed' = freed \cup ended
        /\ thread' = [thread EXCEPT ![t].held = @ \ ended,
                                    ![t].at = IF thread[t].held = ended THEN "takeAll" ELSE @]
        /\ UNCHANGED <<usage, ops, status, nextWrid, inflight, inflightEp, entry, table, live,
                       handles, abandoned, reported>>

\* A round without progress after the 1000 ms returns TIMEOUT.  The application
\* may wait for the same wr_ids again.
Timeout(t) ==
    /\ thread[t].at = "driveAll"
    /\ \A o \in thread[t].held : status[o] = "busy"
    /\ abandoned' = abandoned \cup thread[t].held
    /\ \/ UNCHANGED handles
       \/ "retry" \in usage /\ handles' = handles \cup thread[t].asked
    /\ Fail(t)
    /\ UNCHANGED <<usage, ops, status, freed, nextWrid, inflight, inflightEp, entry, table, live>>

----------------------------------------------------------------------------
(***************************************************************************)
(* disConnect                                                              *)
(***************************************************************************)
\* An application without "rude" has waited for its transfers to this peer.
WaitedFor(e) == \A o \in Outstanding : ops[o].id # 0 => ops[o].ep # e

\* _removeEndpoint takes the endpoint out of its entry under the entry's mutex,
MutUnhook(e) == TRUE
Unhook(e) == entry[e] = None

DisConnect(t, e) ==
    /\ thread[t] = Idle
    /\ "rude" \in usage \/ ("close" \in usage /\ WaitedFor(e))
    /\ e \in table /\ Unhook(e)
    /\ table' = table \ {e}
    /\ Enter(t, "close", e, {}, {}, {})
    /\ UNCHANGED <<usage, ops, status, freed, nextWrid, inflight, inflightEp, entry, live,
                   handles, abandoned, reported>>

\* and destroys it.  closeEndpoint flushes the transfers or fails to; neither
\* inflight_ nor inflight_ep_ is looked at.
Close(t) ==
    /\ thread[t].at = "close"
    /\ live' = live \ {thread[t].ep}
    /\ Fail(t)
    /\ UNCHANGED <<usage, ops, status, freed, nextWrid, inflight, inflightEp, entry, table,
                   handles, abandoned>>

----------------------------------------------------------------------------
(***************************************************************************)
(* UCX: a request ends while some thread drives the worker.                *)
(***************************************************************************)
Complete(o) ==
    /\ status[o] = "busy"
    /\ \E t \in Thread : thread[t].at \in {"drive", "driveAll", "close"}
    /\ \/ status' = [status EXCEPT ![o] = "ok"]
       \/ "fail" \in usage /\ status' = [status EXCEPT ![o] = "err"]
    /\ UNCHANGED <<usage, ops, freed, nextWrid, inflight, inflightEp, entry, table, live, thread,
                   handles, abandoned, reported>>

----------------------------------------------------------------------------
Call(t) ==
    \/ \E e \in Ep : Put(t, e) \/ PutNB(t, e) \/ DisConnect(t, e)
    \/ \E o \in handles : Wait(t, o)
    \/ \E os \in SUBSET handles : WaitList(t, os)

Step(t) == Record(t) \/ Take(t) \/ Drive(t) \/ TakeAll(t) \/ Poll(t) \/ Timeout(t) \/ Close(t)

Next ==
    \/ \E t \in Thread : Call(t) \/ Step(t)
    \/ \E o \in DOMAIN ops : Complete(o)

Spec == Init /\ [][Next]_vars

----------------------------------------------------------------------------
Frame == [at : {"idle", "record", "take", "drive", "takeAll", "driveAll", "close"},
          ep : Ep \cup {None}, asked : SUBSET Op, todo : SUBSET (Ep \X Id), held : SUBSET Op]

TypeOK ==
    /\ usage \in Usages
    /\ ops \in Seq([ep : Ep, id : Id \cup {0}]) /\ Len(ops) <= MaxOps
    /\ status \in Seq({"busy", "ok", "err"}) /\ Len(status) = Len(ops)
    /\ nextWrid \in [Ep -> 0 .. MaxOps]
    /\ inflight \in [Ep -> SUBSET Op]
    /\ inflightEp \in [Id -> Ep \cup {None}]
    /\ entry \in [Ep -> Thread \cup {None}]
    /\ table \subseteq live /\ live \subseteq Ep
    /\ thread \in [Thread -> Frame]
    /\ freed \cup handles \cup abandoned \cup reported \subseteq DOMAIN ops

\* A wait or a blocking transfer that returns SUCCESS speaks of the transfer it
\* was called for: that one has ended well, not another one with the same wr_id
\* (Communicator::wait, UCXEndpoint::waitWrId).
SuccessMeansDone == \A o \in reported : status[o] = "ok"

\* Who may touch the request of a transfer.
Owners(o) ==
    {t \in Thread : o \in thread[t].held}
        \cup {e \in Ep : o \in inflight[e]}
        \cup (IF o \in freed THEN {"UCX"} ELSE {})
        \cup (IF o \in abandoned THEN {"nobody"} ELSE {})

\* A request has one owner: the table of its endpoint, the one wait that took it
\* out, or UCX once it is freed.  So no two threads wait for it, none waits for
\* it or finds it after it was freed, and only a wait that gave up loses it.
RequestsOwned ==
    \A o \in DOMAIN ops : \E w \in Thread \cup Ep \cup {"UCX", "nobody"} : Owners(o) = {w}

\* The endpoint a waiting thread found in inflight_ep_ is not destroyed and has
\* the request, although the two tables are never locked together; and an
\* endpoint is not destroyed under a thread that drives a request of it.
WaitsOnLive ==
    \A t \in Thread :
        /\ thread[t].at \in {"record", "drive", "driveAll"} => thread[t].ep \in live
        /\ \A p \in thread[t].todo : p[1] \in live /\ Filed(p[1], {p[2]}) # {}
=============================================================================
