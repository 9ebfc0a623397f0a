------------------------------- MODULE CqWait -------------------------------
(***************************************************************************)
(* The completions of one RDMA endpoint, shared by the threads of the       *)
(* application: put/get and put_nb/get_nb of the Communicator, its two      *)
(* wait calls, and the completion-queue polling behind them, waitWrId and   *)
(* waitWrIdMulti (rdma_endpoint.cpp).                                       *)
(*                                                                         *)
(* A blocking transfer holds the endpoint's entry mutex from the post to    *)
(* its completion, a non-blocking one only while it posts, a wait not at    *)
(* all.  Reads and writes complete alike; a work request is its number.     *)
(* The completion queue is never longer than cq_capacity (MaxOps is below   *)
(* it), so one ibv_poll_cq takes everything that is there.                  *)
(***************************************************************************)
EXTENDS Integers, Sequences, FiniteSets

CONSTANTS Thread,     \* application threads
          NumQPs,     \* num_qps_
          MaxOps,     \* bound: work requests of a behaviour
          Usages,     \* sets of calls an application restricts itself to
          Breakable,  \* queue pairs that may go to the error state
          None        \* no thread

ASSUME ThreadAssumption == None \notin Thread
ASSUME CqNumQPsAssumption == NumQPs \in Nat \ {0}
ASSUME MaxOpsAssumption == MaxOps \in Nat
ASSUME UsagesAssumption == Usages \subseteq SUBSET {"put", "nb", "solo", "wait", "waitAll"}
ASSUME BreakableAssumption == Breakable \subseteq 0 .. NumQPs - 1

VARIABLES
    usage,      \* the calls this application makes
    pc,         \* where each thread is
    kind,       \* "one": waitWrId, "all": waitWrIdMulti
    asked,      \* the wr_ids its call is about
    want,       \* pending of waitWrIdMulti, target_wr_id of waitWrId
    entry,      \* holder of the endpoint's entry mutex
    poller,     \* holder of cq_poll_mu_
    nextId,     \* next_wr_id_
    sq,         \* posted work requests the NIC has not executed
    cq,         \* the completion queue
    completed,  \* completed_wr_ids_
    inflight,   \* the endpoint's keys of inflight_ep_
    broken,     \* queue pairs in the error state
    executed,   \* work requests the NIC has executed successfully
    reported    \* work requests some call has returned SUCCESS for

vars == <<usage, pc, kind, asked, want, entry, poller, nextId, sq, cq, completed,
          inflight, broken, executed, reported>>

Id == 1 .. MaxOps

\* The queue pair in the low bits of a wr_id: next_qp_idx_ advances with
\* next_wr_id_.
QpOf(id) == (id - 1) % NumQPs

\* The wr_ids of a sequence of completions.
Ids(s) == {s[i].id : i \in DOMAIN s}

Init ==
    /\ usage \in Usages
    /\ pc = [t \in Thread |-> "idle"]
    /\ kind = [t \in Thread |-> "one"]
    /\ asked = [t \in Thread |-> {}]
    /\ want = [t \in Thread |-> {}]
    /\ entry = None
    /\ poller = None
    /\ nextId = 1
    /\ sq = {}
    /\ cq = <<>>
    /\ completed = {}
    /\ inflight = {}
    /\ broken = {}
    /\ executed = {}
    /\ reported = {}

----------------------------------------------------------------------------
(***************************************************************************)
(* Calls of the application                                                *)
(***************************************************************************)
Post ==
    /\ nextId <= MaxOps
    /\ nextId' = nextId + 1

\* The wr_id handed back for a signaled work request.
MutWrId == 0
WrId == nextId

\* withEndpoint keeps the entry mutex while its function runs.
MutHoldEntry(t) == UNCHANGED entry
HoldEntry(t) == entry' = t

\* Enter the wait for ids: waitWrId ("one") or waitWrIdMulti ("all").
Await(t, how, ids) ==
    /\ pc' = [pc EXCEPT ![t] = "check"]
    /\ kind' = [kind EXCEPT ![t] = how]
    /\ asked' = [asked EXCEPT ![t] = ids]
    /\ want' = [want EXCEPT ![t] = ids]

\* put, get: writeData posts and waits inside withEndpoint.
Put(t) ==
    /\ pc[t] = "idle" /\ "put" \in usage
    /\ entry = None
    /\ Post
    /\ \/ /\ sq' = sq \cup {nextId}
          /\ HoldEntry(t)
          /\ Await(t, "one", {WrId})
       \/ UNCHANGED <<pc, kind, asked, want, entry, sq>>    \* postWrite fails
    /\ UNCHANGED <<usage, poller, cq, completed, inflight, broken, executed, reported>>

\* What an application that never overlaps transfers ("solo") waits for.
NoneOutstanding == inflight = {} /\ \A t \in Thread : pc[t] = "idle"

\* putNB, getNB: the wr_id is recorded for a later wait.
PutNB(t) ==
    /\ pc[t] = "idle"
    /\ "nb" \in usage \/ ("solo" \in usage /\ NoneOutstanding)
    /\ entry = None
    /\ Post
    /\ \/ sq' = sq \cup {nextId} /\ inflight' = inflight \cup {WrId}
       \/ UNCHANGED <<sq, inflight>>                  \* postWrite fails
    /\ UNCHANGED <<usage, pc, kind, asked, want, entry, poller, cq, completed, broken, executed, reported>>

\* Communicator::wait(wr_id).
WaitId(t) ==
    /\ pc[t] = "idle" /\ "wait" \in usage
    /\ \E id \in inflight :
          /\ inflight' = inflight \ {id}
          /\ Await(t, "one", {id})
    /\ UNCHANGED <<usage, entry, poller, nextId, sq, cq, completed, broken, executed, reported>>

\* Communicator::wait(wr_ids).
WaitIds(t) ==
    /\ pc[t] = "idle" /\ "waitAll" \in usage
    /\ \E ids \in (SUBSET inflight) \ {{}} :
          /\ inflight' = inflight \ ids
          /\ Await(t, "all", ids)
    /\ UNCHANGED <<usage, entry, poller, nextId, sq, cq, completed, broken, executed, reported>>

\* Communicator::wait(wr_ids) meets a wr_id that is not in flight any more: it
\* returns NOT_FOUND and has already forgotten the ones before it.
WaitIdsNotFound(t) ==
    /\ pc[t] = "idle" /\ "waitAll" \in usage
    /\ \E id \in 1 .. nextId - 1 : id \notin inflight
    /\ \E ids \in SUBSET inflight : inflight' = inflight \ ids
    /\ UNCHANGED <<usage, pc, kind, asked, want, entry, poller, nextId, sq, cq, completed, broken,
                   executed, reported>>

----------------------------------------------------------------------------
(***************************************************************************)
(* waitWrId and waitWrIdMulti                                              *)
(***************************************************************************)
Leave(t) ==
    /\ pc' = [pc EXCEPT ![t] = "idle"]
    /\ asked' = [asked EXCEPT ![t] = {}]
    /\ want' = [want EXCEPT ![t] = {}]
    /\ entry' = IF entry = t THEN None ELSE entry
    /\ poller' = IF poller = t THEN None ELSE poller
    /\ UNCHANGED kind

Succeed(t) == Leave(t) /\ reported' = reported \cup asked[t]
Fail(t) == Leave(t) /\ UNCHANGED reported

\* Return, or go on waiting for what is left.
Continue(t, left, label) ==
    IF left = {}
    THEN Succeed(t)
    ELSE /\ pc' = [pc EXCEPT ![t] = label]
         /\ want' = [want EXCEPT ![t] = left]
         /\ poller' = IF label = "poll" THEN t ELSE poller
         /\ UNCHANGED <<kind, asked, entry, reported>>

\* The first look at completed_wr_ids_, without cq_poll_mu_.
Check(t) ==
    /\ pc[t] = "check"
    /\ completed' = completed \ want[t]
    /\ Continue(t, want[t] \ completed, "lock")
    /\ UNCHANGED <<usage, nextId, sq, cq, inflight, broken, executed>>

\* cq_poll_mu_ is taken and completed_wr_ids_ looked at again: only the holder
\* of cq_poll_mu_ adds to it, so both are one step.
MutRecheck(t) == {}
Recheck(t) == want[t] \cap completed

Lock(t) ==
    /\ pc[t] = "lock"
    /\ poller = None
    /\ completed' = completed \ Recheck(t)
    /\ Continue(t, want[t] \ Recheck(t), "poll")
    /\ UNCHANGED <<usage, nextId, sq, cq, inflight, broken, executed>>

\* The completions of a batch that end the loop over it: an error, and in
\* waitWrId the target itself.
MutStops(t, wc) == kind[t] = "one" /\ wc.id \in want[t]
Stops(t, wc) == ~wc.ok \/ (kind[t] = "one" /\ wc.id \in want[t])

\* The completions before the first one that ends the loop.
Handled(t, batch) ==
    {batch[i] : i \in {i \in DOMAIN batch : \A j \in 1 .. i : ~Stops(t, batch[j])}}

\* The completion that ends the loop, if there is one.
Last(t, batch) ==
    {batch[i] : i \in {i \in DOMAIN batch :
        Stops(t, batch[i]) /\ \A j \in 1 .. i - 1 : ~Stops(t, batch[j])}}

\* A completion nobody asked for in this call is kept for the call that did.
MutStash(t, ids) == completed
Stash(t, ids) == completed \cup (ids \ want[t])

\* One round of polling.  The batch is taken off the queue; what follows the
\* completion that ends the loop is not looked at.
Poll(t) ==
    LET done == {wc.id : wc \in Handled(t, cq)}
        last == Last(t, cq)
    IN  /\ pc[t] = "poll"
        /\ cq # <<>>
        /\ cq' = <<>>
        /\ completed' = Stash(t, done)
        /\ IF \E wc \in last : ~wc.ok
           THEN Fail(t)
           ELSE Continue(t, want[t] \ (done \cup {wc.id : wc \in last}), "poll")
        /\ UNCHANGED <<usage, nextId, sq, inflight, broken, executed>>

\* waitWrIdMulti gives up after its timeout when a round made no progress.
Timeout(t) ==
    /\ pc[t] = "poll" /\ kind[t] = "all"
    /\ cq = <<>>
    /\ Fail(t)
    /\ UNCHANGED <<usage, nextId, sq, cq, completed, inflight, broken, executed>>

----------------------------------------------------------------------------
(***************************************************************************)
(* The NIC executes each queue pair's work requests in order; those of a    *)
(* queue pair in the error state are flushed with an error status.          *)
(***************************************************************************)
Nic(id) ==
    /\ id \in sq
    /\ \A j \in sq : QpOf(j) = QpOf(id) => id <= j
    /\ sq' = sq \ {id}
    /\ cq' = Append(cq, [id |-> id, ok |-> QpOf(id) \notin broken])
    /\ executed' = IF QpOf(id) \in broken THEN executed ELSE executed \cup {id}
    /\ UNCHANGED <<usage, pc, kind, asked, want, entry, poller, nextId, completed, inflight,
                   broken, reported>>

Break(qp) ==
    /\ qp \notin broken
    /\ broken' = broken \cup {qp}
    /\ UNCHANGED <<usage, pc, kind, asked, want, entry, poller, nextId, sq, cq, completed,
                   inflight, executed, reported>>

----------------------------------------------------------------------------
Call(t) == Put(t) \/ PutNB(t) \/ WaitId(t) \/ WaitIds(t) \/ WaitIdsNotFound(t)

WaitStep(t) == Check(t) \/ Lock(t) \/ Poll(t) \/ Timeout(t)

Next ==
    \/ \E t \in Thread : Call(t) \/ WaitStep(t)
    \/ \E id \in Id : Nic(id)
    \/ \E qp \in Breakable : Break(qp)

Spec == Init /\ [][Next]_vars

\* Threads that wait are scheduled, cq_poll_mu_ is granted when it stays free,
\* and the NIC executes what is posted.
FairSpec ==
    /\ Spec
    /\ \A t \in Thread : WF_vars(WaitStep(t))
    /\ WF_vars(\E id \in Id : Nic(id))

----------------------------------------------------------------------------
TypeOK ==
    /\ usage \in Usages
    /\ pc \in [Thread -> {"idle", "check", "lock", "poll"}]
    /\ kind \in [Thread -> {"one", "all"}]
    /\ asked \in [Thread -> SUBSET Id]
    /\ want \in [Thread -> SUBSET Id]
    /\ entry \in Thread \cup {None}
    /\ poller \in Thread \cup {None}
    /\ nextId \in 1 .. MaxOps + 1
    /\ sq \subseteq Id
    /\ cq \in Seq([id : Id, ok : BOOLEAN])
    /\ completed \subseteq Id
    /\ inflight \subseteq Id
    /\ broken \subseteq Breakable
    /\ executed \subseteq Id
    /\ reported \subseteq Id

\* A call returns SUCCESS only for work requests the NIC has executed, however
\* the threads' polls hand completions to each other.
SuccessMeansExecuted == reported \subseteq executed

\* No missed wakeup: a thread never polls for a completion that another thread
\* has already polled and left in completed_wr_ids_.
NoMissedWakeup == \A t \in Thread : pc[t] = "poll" => want[t] \cap completed = {}

\* While the queue pairs work, no completion is lost: what has been executed
\* and is or can still be waited for is in the completion queue or in
\* completed_wr_ids_, whichever thread polled it.  (Checked for applications
\* that block, that wait for lists, or that never overlap transfers.)
Awaited == inflight \cup UNION {want[t] : t \in Thread}
CompletionsKept ==
    broken = {} => \A id \in Awaited \cap executed : id \in Ids(cq) \cup completed

\* Every wait returns: "Use put_nb/get_nb + wait when you need overlap or
\* concurrent transfers" (README.md).
WaitsReturn == \A t \in Thread : pc[t] # "idle" ~> pc[t] = "idle"
=============================================================================
