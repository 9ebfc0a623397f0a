------------------------- MODULE RdmaEndpointProofs -------------------------
(***************************************************************************)
(* The data path of an RDMA endpoint.                                       *)
(*                                                                         *)
(* What the completion waits guarantee for every number of threads, queue   *)
(* pairs and transfers: for every way an application mixes the calls, that  *)
(* success is genuine and no wakeup is missed; for tidy ones, that waits for *)
(* a list or has one transfer outstanding, that no completion is lost.      *)
(*                                                                         *)
(* With one queue pair the pipeline delivers what it reports and never      *)
(* overruns a send queue with room for the windows of failed calls, for     *)
(* every setting and every sequence of transfers; with any number of them   *)
(* it never posts more than a window.                                      *)
(***************************************************************************)
EXTENDS CqWait, RdmaPipeline, TLAPS

\* Successful completions, wherever they are kept, come from executed work.
Genuine ==
    /\ \A i \in DOMAIN cq : cq[i].ok => cq[i].id \in executed
    /\ completed \subseteq executed
    /\ \A t \in Thread : asked[t] \subseteq want[t] \cup executed
    /\ reported \subseteq executed

\* A thread polls only while it holds cq_poll_mu_.
PollerPolls == \A t \in Thread : pc[t] = "poll" => poller = t

IInv == TypeOK /\ Genuine /\ PollerPolls /\ NoMissedWakeup

USE ThreadAssumption, CqNumQPsAssumption, MaxOpsAssumption, UsagesAssumption,
    BreakableAssumption

LEMMA InitInv == Init => IInv
  BY DEF Init, IInv, TypeOK, Genuine, PollerPolls, NoMissedWakeup

LEMMA CqElements ==
    ASSUME TypeOK
    PROVE  \A i \in DOMAIN cq : i \in Nat /\ i >= 1 /\ cq[i] \in [id : Id, ok : BOOLEAN]
<1> DEFINE S == [id : Id, ok : BOOLEAN]
<1>1. cq \in Seq(S)
  BY DEF TypeOK
<1> HIDE DEF S
<1>2. \A i \in DOMAIN cq : i \in Nat /\ i >= 1 /\ cq[i] \in S
  BY <1>1
<1> QED
  BY <1>2 DEF S

\* What Handled and Last take out of a batch.
LEMMA BatchFacts ==
    ASSUME TypeOK, Genuine, NEW t \in Thread
    PROVE  /\ \A wc \in Handled(t, cq) : wc.ok /\ wc.id \in Id /\ wc.id \in executed
           /\ \A wc \in Last(t, cq) : wc.id \in Id /\ (wc.ok => wc.id \in executed)
           /\ {wc.id : wc \in Handled(t, cq)} \subseteq Id \cap executed
<1>1. \A i \in DOMAIN cq : i \in Nat /\ i >= 1 /\ cq[i] \in [id : Id, ok : BOOLEAN]
  BY CqElements
<1>2. ASSUME NEW i \in DOMAIN cq, \A j \in 1 .. i : ~Stops(t, cq[j])
      PROVE  cq[i].ok /\ cq[i].id \in Id /\ cq[i].id \in executed
  <2>1. i \in 1 .. i
    BY DEF TypeOK
  <2> QED
    BY <1>1, <1>2, <2>1 DEF Stops, Genuine
<1> QED
  BY <1>1, <1>2 DEF Handled, Last, Genuine

\* The part of a step that concerns the shared state: the completion queue is
\* untouched or emptied, and what is kept in completed_wr_ids_ is genuine and
\* not what another thread is polling for.
KeepsShared(t) ==
    /\ UNCHANGED <<usage, nextId, sq, inflight, broken, executed>>
    /\ cq' = cq \/ cq' = <<>>
    /\ completed' \subseteq Id \cap executed
    /\ \A u \in Thread \ {t} : pc[u] = "poll" => want[u] \cap completed' = {}

LEMMA SharedFacts ==
    ASSUME TypeOK, Genuine, NEW t \in Thread, KeepsShared(t)
    PROVE  /\ cq' \in Seq([id : Id, ok : BOOLEAN])
           /\ \A i \in DOMAIN cq' : cq'[i].ok => cq'[i].id \in executed
<1>1. CASE cq' = cq
  BY <1>1 DEF TypeOK, Genuine
<1>2. CASE cq' = <<>>
  <2>1. DOMAIN cq' = {}
    BY <1>2
  <2> QED
    BY <1>2, <2>1
<1> QED
  BY <1>1, <1>2 DEF KeepsShared

\* A call that returns keeps the invariant.
LEMMA LeaveInv ==
    ASSUME IInv, NEW t \in Thread, KeepsShared(t), Leave(t),
           reported' \subseteq Id \cap executed
    PROVE  IInv'
<1>1. TypeOK /\ Genuine /\ PollerPolls /\ NoMissedWakeup
  BY DEF IInv
<1>2. /\ \A u \in Thread \ {t} : pc'[u] = pc[u] /\ asked'[u] = asked[u] /\ want'[u] = want[u]
      /\ pc'[t] = "idle" /\ asked'[t] = {} /\ want'[t] = {}
  BY <1>1 DEF TypeOK, Leave
<1>3. TypeOK'
  BY <1>1, SharedFacts DEF TypeOK, Leave, KeepsShared
<1>4. Genuine'
  BY <1>1, <1>2, SharedFacts DEF Genuine, KeepsShared
<1>5. PollerPolls'
  BY <1>1, <1>2 DEF PollerPolls, Leave
<1>6. NoMissedWakeup'
  BY <1>1, <1>2 DEF NoMissedWakeup, KeepsShared
<1> QED
  BY <1>3, <1>4, <1>5, <1>6 DEF IInv

\* So does one that returns or goes on waiting for what is rest.
LEMMA ContinueInv ==
    ASSUME IInv, NEW t \in Thread, NEW rest, NEW label \in {"lock", "poll"},
           KeepsShared(t), Continue(t, rest, label),
           rest \subseteq want[t], want[t] \subseteq rest \cup executed,
           label = "poll" => poller \in {None, t} /\ rest \cap completed' = {}
    PROVE  IInv'
<1>1. TypeOK /\ Genuine /\ PollerPolls /\ NoMissedWakeup
  BY DEF IInv
<1>2. CASE rest = {}
  <2>1. asked[t] \subseteq Id \cap executed /\ reported \subseteq Id \cap executed
    BY <1>1, <1>2 DEF TypeOK, Genuine
  <2>2. Leave(t) /\ reported' = reported \cup asked[t]
    BY <1>2 DEF Continue, Succeed
  <2> QED
    BY <2>1, <2>2, LeaveInv
<1>3. CASE rest # {}
  <2>1. /\ pc' = [pc EXCEPT ![t] = label] /\ want' = [want EXCEPT ![t] = rest]
        /\ poller' = IF label = "poll" THEN t ELSE poller
        /\ UNCHANGED <<kind, asked, entry, reported>>
    BY <1>3 DEF Continue
  <2>2. /\ \A u \in Thread \ {t} : pc'[u] = pc[u] /\ want'[u] = want[u]
        /\ pc'[t] = label /\ want'[t] = rest
    BY <1>1, <2>1 DEF TypeOK
  <2>3. TypeOK'
    <3>1. rest \subseteq Id /\ label \in {"idle", "check", "lock", "poll"}
      BY <1>1 DEF TypeOK
    <3>2. poller' \in Thread \cup {None}
      BY <1>1, <2>1 DEF TypeOK
    <3>3. want' \in [Thread -> SUBSET Id] /\ pc' \in [Thread -> {"idle", "check", "lock", "poll"}]
      BY <1>1, <2>1, <3>1 DEF TypeOK
    <3> QED
      BY <1>1, <2>1, <3>2, <3>3, SharedFacts DEF TypeOK, KeepsShared
  <2>4. Genuine'
    <3>1. \A u \in Thread : asked'[u] \subseteq want'[u] \cup executed'
      BY <1>1, <2>1, <2>2 DEF Genuine, KeepsShared
    <3> QED
      BY <1>1, <2>1, <3>1, SharedFacts DEF Genuine, KeepsShared
  <2>5. PollerPolls'
    BY <1>1, <2>1, <2>2 DEF PollerPolls
  <2>6. NoMissedWakeup'
    BY <1>1, <2>2 DEF NoMissedWakeup, KeepsShared
  <2> QED
    BY <2>3, <2>4, <2>5, <2>6 DEF IInv
<1> QED
  BY <1>2, <1>3

\* The steps of a waiting thread.
LEMMA WaitStepInv ==
    ASSUME IInv, NEW t \in Thread, WaitStep(t)
    PROVE  IInv'
<1>1. TypeOK /\ Genuine /\ PollerPolls /\ NoMissedWakeup
  BY DEF IInv
<1>2. CASE Check(t)
  <2>1. KeepsShared(t)
    BY <1>1, <1>2 DEF Check, KeepsShared, TypeOK, Genuine, NoMissedWakeup
  <2>2. want[t] \ completed \subseteq want[t] /\ want[t] \subseteq (want[t] \ completed) \cup executed
    BY <1>1 DEF Genuine
  <2> QED
    BY <1>2, <2>1, <2>2, ContinueInv DEF Check
<1>3. CASE Lock(t)
  <2>1. KeepsShared(t)
    BY <1>1, <1>3 DEF Lock, Recheck, KeepsShared, TypeOK, Genuine, NoMissedWakeup
  <2>2. want[t] \ Recheck(t) \subseteq want[t] /\ want[t] \subseteq (want[t] \ Recheck(t)) \cup executed
        /\ (want[t] \ Recheck(t)) \cap completed' = {}
    BY <1>1, <1>3 DEF Lock, Recheck, Genuine
  <2> QED
    BY <1>3, <2>1, <2>2, ContinueInv DEF Lock
<1>4. CASE Poll(t)
  <2> DEFINE done == {wc.id : wc \in Handled(t, cq)}
             last == Last(t, cq)
  <2>1. done \subseteq Id \cap executed
    BY <1>1, BatchFacts
  <2>2. poller = t
    BY <1>1, <1>4 DEF Poll, PollerPolls
  <2>3. \A u \in Thread \ {t} : pc[u] # "poll"
    BY <1>1, <2>2 DEF PollerPolls
  <2>4. completed' = completed \cup (done \ want[t])
    BY <1>4 DEF Poll, Stash
  <2>5. KeepsShared(t)
    <3>1. UNCHANGED <<usage, nextId, sq, inflight, broken, executed>> /\ cq' = <<>>
      BY <1>4 DEF Poll
    <3> HIDE DEF done
    <3> QED
      BY <1>1, <2>1, <2>3, <2>4, <3>1 DEF KeepsShared, TypeOK, Genuine
  <2>6. CASE \E wc \in last : ~wc.ok
    BY <1>1, <1>4, <2>5, <2>6, LeaveInv DEF Poll, Fail, TypeOK, Genuine
  <2>7. CASE ~(\E wc \in last : ~wc.ok)
    <3> DEFINE rest == want[t] \ (done \cup {wc.id : wc \in last})
    <3>1. {wc.id : wc \in last} \subseteq executed
      BY <1>1, <2>7, BatchFacts
    <3>2. Continue(t, rest, "poll")
      BY <1>4, <2>7 DEF Poll
    <3>3. want[t] \cap completed = {}
      BY <1>1, <1>4 DEF Poll, NoMissedWakeup
    <3> HIDE DEF done, last
    <3>4. rest \subseteq want[t] /\ want[t] \subseteq rest \cup executed /\ rest \cap completed' = {}
      BY <2>1, <2>4, <3>1, <3>3
    <3> HIDE DEF rest
    <3> QED
      BY <2>2, <2>5, <3>2, <3>4, ContinueInv
  <2> QED
    BY <2>6, <2>7
<1>5. CASE Timeout(t)
  <2>1. KeepsShared(t)
    BY <1>1, <1>5 DEF Timeout, KeepsShared, TypeOK, Genuine, NoMissedWakeup
  <2> QED
    BY <1>1, <1>5, <2>1, LeaveInv DEF Timeout, Fail, TypeOK, Genuine
<1> QED
  BY <1>2, <1>3, <1>4, <1>5 DEF WaitStep

\* The calls of the application.
LEMMA CallInv ==
    ASSUME IInv, NEW t \in Thread, Call(t)
    PROVE  IInv'
<1>1. TypeOK /\ Genuine /\ PollerPolls /\ NoMissedWakeup
  BY DEF IInv
<1>2. ASSUME NEW how \in {"one", "all"}, NEW ids \in SUBSET Id, Await(t, how, ids),
             entry' \in Thread \cup {None}, nextId' \in 1 .. MaxOps + 1,
             sq' \subseteq Id, inflight' \subseteq Id,
             UNCHANGED <<usage, poller, cq, completed, broken, executed, reported>>
      PROVE  IInv'
  <2>1. /\ \A u \in Thread \ {t} : pc'[u] = pc[u] /\ asked'[u] = asked[u] /\ want'[u] = want[u]
        /\ pc'[t] = "check" /\ asked'[t] = ids /\ want'[t] = ids
    BY <1>1, <1>2 DEF TypeOK, Await
  <2>2. TypeOK'
    BY <1>1, <1>2 DEF TypeOK, Await
  <2>3. Genuine' /\ PollerPolls' /\ NoMissedWakeup'
    BY <1>1, <1>2, <2>1 DEF Genuine, PollerPolls, NoMissedWakeup
  <2> QED
    BY <2>2, <2>3 DEF IInv
<1>3. ASSUME nextId' \in 1 .. MaxOps + 1, sq' \subseteq Id, inflight' \subseteq Id,
             UNCHANGED <<usage, pc, kind, asked, want, entry, poller, cq, completed, broken,
                         executed, reported>>
      PROVE  IInv'
  <2>1. TypeOK'
    BY <1>1, <1>3 DEF TypeOK
  <2>2. Genuine' /\ PollerPolls' /\ NoMissedWakeup'
    BY <1>1, <1>3 DEF Genuine, PollerPolls, NoMissedWakeup
  <2> QED
    BY <2>1, <2>2 DEF IInv
<1>4. Post => nextId \in Id /\ nextId' \in 1 .. MaxOps + 1
  BY <1>1 DEF TypeOK, Post, Id
<1>5. CASE Put(t)
  <2>1. CASE sq' = sq \cup {nextId} /\ HoldEntry(t) /\ Await(t, "one", {WrId})
    BY <1>1, <1>2, <1>4, <1>5, <2>1 DEF Put, HoldEntry, WrId, TypeOK
  <2>2. CASE UNCHANGED <<pc, kind, asked, want, entry, sq>>
    BY <1>1, <1>3, <1>4, <1>5, <2>2 DEF Put, TypeOK
  <2> QED
    BY <1>5, <2>1, <2>2 DEF Put
<1>6. CASE PutNB(t)
  BY <1>1, <1>3, <1>4, <1>6 DEF PutNB, WrId, TypeOK
<1>7. CASE WaitId(t)
  <2> PICK id \in inflight : inflight' = inflight \ {id} /\ Await(t, "one", {id})
    BY <1>7 DEF WaitId
  <2>1. {id} \in SUBSET Id
    BY <1>1 DEF TypeOK
  <2> QED
    BY <1>1, <1>2, <1>7, <2>1 DEF WaitId, TypeOK
<1>8. CASE WaitIds(t)
  <2> PICK ids \in SUBSET inflight : inflight' = inflight \ ids /\ Await(t, "all", ids)
    BY <1>8 DEF WaitIds
  <2> QED
    BY <1>1, <1>2, <1>8 DEF WaitIds, TypeOK
<1>9. CASE WaitIdsNotFound(t)
  BY <1>1, <1>3, <1>9 DEF WaitIdsNotFound, TypeOK
<1> QED
  BY <1>5, <1>6, <1>7, <1>8, <1>9 DEF Call

\* The steps of the NIC.
LEMMA NicInv ==
    ASSUME IInv, (\E id \in Id : Nic(id)) \/ (\E qp \in Breakable : Break(qp))
    PROVE  IInv'
<1>1. TypeOK /\ Genuine /\ PollerPolls /\ NoMissedWakeup
  BY DEF IInv
<1>2. ASSUME NEW id \in Id, Nic(id) PROVE IInv'
  <2> DEFINE S == [id : Id, ok : BOOLEAN]
             wc == [id |-> id, ok |-> QpOf(id) \notin broken]
  <2>1. cq \in Seq(S) /\ wc \in S /\ cq' = Append(cq, wc)
    BY <1>1, <1>2 DEF TypeOK, Nic
  <2>2. executed \subseteq executed' /\ executed' \subseteq Id /\ (wc.ok => id \in executed')
    BY <1>1, <1>2 DEF Nic, TypeOK
  <2>3. wc.id = id
    OBVIOUS
  <2> HIDE DEF S, wc
  <2>4. cq' \in Seq(S)
    BY <2>1
  <2>5. \A i \in DOMAIN cq' : cq'[i] = wc \/ (i \in DOMAIN cq /\ cq'[i] = cq[i])
    BY <2>1
  <2>6. UNCHANGED <<usage, pc, kind, asked, want, entry, poller, nextId, completed, inflight,
                    broken, reported>>
    BY <1>2 DEF Nic
  <2>7. TypeOK'
    BY <1>1, <1>2, <2>2, <2>4, <2>6 DEF TypeOK, Nic, S
  <2>8. Genuine'
    BY <1>1, <2>2, <2>3, <2>5, <2>6 DEF Genuine
  <2>9. PollerPolls' /\ NoMissedWakeup'
    BY <1>1, <2>6 DEF PollerPolls, NoMissedWakeup
  <2> QED
    BY <2>7, <2>8, <2>9 DEF IInv
<1>3. ASSUME NEW qp \in Breakable, Break(qp) PROVE IInv'
  BY <1>1, <1>3 DEF Break, IInv, TypeOK, Genuine, PollerPolls, NoMissedWakeup
<1> QED
  BY <1>2, <1>3

LEMMA StepInv == IInv /\ [Next]_vars => IInv'
<1> SUFFICES ASSUME IInv, [Next]_vars PROVE IInv'
  OBVIOUS
<1>1. CASE Next
  BY <1>1, CallInv, WaitStepInv, NicInv DEF Next
<1>2. CASE UNCHANGED vars
  BY <1>2 DEF vars, IInv, TypeOK, Genuine, PollerPolls, NoMissedWakeup
<1> QED
  BY <1>1, <1>2

LEMMA Invariance == Spec => []IInv
  BY InitInv, StepInv, PTL DEF Spec

----------------------------------------------------------------------------
\* put, get and both wait calls return SUCCESS only for transfers the NIC has
\* executed, for every number of threads and every mix of calls.
THEOREM SuccessIsGenuine == Spec => []SuccessMeansExecuted
<1>1. IInv => SuccessMeansExecuted
  BY DEF IInv, Genuine, SuccessMeansExecuted
<1> QED
  BY <1>1, Invariance, PTL

\* A thread never polls the completion queue for a completion that is already
\* in completed_wr_ids_.
THEOREM NoWakeupIsMissed == Spec => []NoMissedWakeup
<1>1. IInv => NoMissedWakeup
  BY DEF IInv
<1> QED
  BY <1>1, Invariance, PTL

\* Every variable keeps its type, for every number of threads and transfers.
THEOREM CqTypeCorrect == Spec => []TypeOK
<1>1. IInv => TypeOK
  BY DEF IInv
<1> QED
  BY <1>1, Invariance, PTL

----------------------------------------------------------------------------
(***************************************************************************)
(* Completions are kept for the call that waits for them.  waitWrId drops    *)
(* what follows its own completion in a batch, so this needs applications    *)
(* that either wait only for lists, or have one transfer outstanding at a    *)
(* time: because its calls block, or because it waits for each non-blocking  *)
(* transfer before it starts the next.                                      *)
(***************************************************************************)
ListWaits(U) == U \subseteq {"nb", "solo", "waitAll"}
OneAtATime(U) == U \subseteq {"put", "wait"} \/ U \subseteq {"solo", "wait"}
Tidy == \A U \in Usages : ListWaits(U) \/ OneAtATime(U)

\* Only posted work requests are anywhere.
Older ==
    /\ \A id \in sq \cup inflight \cup executed : id < nextId
    /\ \A t \in Thread : \A id \in want[t] : id < nextId

\* A work request is in one place on its way, and no two calls wait for it.
Distinct == sq \cap executed = {} /\ Ids(cq) \cap completed = {}

Exclusive ==
    \A t \in Thread :
        /\ want[t] \cap inflight = {}
        /\ \A u \in Thread \ {t} : want[t] \cap want[u] = {}
        /\ pc[t] # "idle" <=> want[t] # {}

\* Which of the two waits an application is in.
Kinds ==
    /\ ListWaits(usage) => \A t \in Thread : pc[t] # "idle" => kind[t] = "all"
    /\ OneAtATime(usage) => \A t \in Thread : kind[t] = "one"

\* A blocking call keeps the entry mutex until it returns.
Blocking ==
    usage \subseteq {"put", "wait"} =>
        inflight = {} /\ \A t \in Thread : pc[t] # "idle" => entry = t

\* An error completion comes from a queue pair in the error state.
AllOk == broken = {} => \A i \in DOMAIN cq : cq[i].ok

\* With one transfer at a time everything is about that transfer.
Alone ==
    OneAtATime(usage) /\ broken = {} =>
        /\ sq \cup Ids(cq) \cup completed \subseteq Awaited
        /\ \A a, b \in Awaited : a = b

Calls == Older /\ Exclusive /\ Kinds /\ Blocking
KInv == Calls /\ Distinct /\ AllOk /\ Alone /\ CompletionsKept

LEMMA InitKInv == Init => KInv
  BY DEF Init, KInv, Calls, Older, Distinct, Exclusive, Kinds, Blocking, AllOk, Alone,
         CompletionsKept, Awaited, Ids

\* What a step of a wait does to the calls: it narrows what t waits for.
Narrows(t, rest) ==
    /\ \A u \in Thread \ {t} : pc'[u] = pc[u] /\ want'[u] = want[u]
    /\ want'[t] = rest
    /\ rest \subseteq want[t]
    /\ pc'[t] # "idle" <=> rest # {}
    /\ kind' = kind
    /\ entry' = IF rest = {} /\ entry = t THEN None ELSE entry
    /\ UNCHANGED <<usage, nextId, sq, inflight, broken, executed>>

LEMMA LeaveNarrows ==
    ASSUME TypeOK, NEW t \in Thread, Leave(t),
           UNCHANGED <<usage, nextId, sq, inflight, broken, executed>>
    PROVE  Narrows(t, {})
  BY DEF TypeOK, Leave, Narrows

LEMMA ContinueNarrows ==
    ASSUME TypeOK, NEW t \in Thread, NEW rest, NEW label \in {"lock", "poll"},
           Continue(t, rest, label), rest \subseteq want[t],
           UNCHANGED <<usage, nextId, sq, inflight, broken, executed>>
    PROVE  Narrows(t, rest)
<1>1. CASE rest = {}
  BY <1>1, LeaveNarrows DEF Continue, Succeed
<1>2. CASE rest # {}
  BY <1>2 DEF Continue, TypeOK, Narrows
<1> QED
  BY <1>1, <1>2

LEMMA NarrowsCalls ==
    ASSUME TypeOK, Calls, NEW t \in Thread, NEW rest, pc[t] # "idle", Narrows(t, rest)
    PROVE  /\ Calls'
           /\ Awaited' = (Awaited \ want[t]) \cup rest
<1>1. /\ \A u \in Thread \ {t} : pc'[u] = pc[u] /\ want'[u] = want[u]
      /\ want'[t] = rest /\ rest \subseteq want[t] /\ (pc'[t] # "idle" <=> rest # {})
      /\ kind' = kind /\ entry' = IF rest = {} /\ entry = t THEN None ELSE entry
      /\ UNCHANGED <<usage, nextId, sq, inflight, broken, executed>>
  BY DEF Narrows
<1>2. Older' /\ Exclusive'
  BY <1>1 DEF Calls, Older, Exclusive
<1>3. Kinds'
  BY <1>1 DEF Calls, Kinds, ListWaits, OneAtATime
<1>4. Blocking'
  BY <1>1 DEF Calls, Blocking
<1>5. Awaited' = (Awaited \ want[t]) \cup rest
  <2>1. ASSUME NEW x PROVE x \in Awaited' <=> x \in (Awaited \ want[t]) \cup rest
    BY <1>1 DEF Calls, Exclusive, Awaited
  <2> QED
    BY <2>1
<1> QED
  BY <1>2, <1>3, <1>4, <1>5 DEF Calls

\* Taking what is already in completed_wr_ids_.
LEMMA TakeKInv ==
    ASSUME IInv, KInv, NEW t \in Thread, pc[t] # "idle",
           Narrows(t, want[t] \ completed), completed' = completed \ want[t], UNCHANGED cq
    PROVE  KInv'
<1>1. Calls' /\ Awaited' = (Awaited \ want[t]) \cup (want[t] \ completed)
  BY NarrowsCalls DEF IInv, KInv
<1>2. UNCHANGED <<usage, nextId, sq, inflight, broken, executed>> /\ Ids(cq)' = Ids(cq)
  BY DEF Narrows, Ids
<1>3. Distinct'
  BY <1>2 DEF KInv, Distinct
<1>4. AllOk'
  BY <1>2 DEF KInv, AllOk
<1>5. completed \subseteq executed
  BY DEF IInv, Genuine
<1>6. Alone'
  <2> SUFFICES ASSUME OneAtATime(usage), broken = {}
               PROVE  /\ sq \cup Ids(cq) \cup (completed \ want[t]) \subseteq Awaited'
                      /\ \A a, b \in Awaited' : a = b
    BY <1>2 DEF Alone
  <2>1. sq \cup Ids(cq) \cup completed \subseteq Awaited /\ \A a, b \in Awaited : a = b
    BY DEF KInv, Alone
  <2>2. sq \cap completed = {} /\ Ids(cq) \cap completed = {}
    BY <1>5 DEF KInv, Distinct
  <2>3. want[t] \subseteq Awaited
    BY DEF Awaited
  <2> QED
    BY <1>1, <2>1, <2>2, <2>3
<1>7. CompletionsKept'
  <2> SUFFICES ASSUME broken = {}, NEW id \in Awaited' \cap executed
               PROVE  id \in Ids(cq) \cup (completed \ want[t])
    BY <1>2 DEF CompletionsKept
  <2>1. id \in Awaited /\ want[t] \subseteq Awaited
    BY <1>1 DEF Awaited
  <2>2. id \in Ids(cq) \cup completed
    BY <2>1 DEF KInv, CompletionsKept
  <2> QED
    BY <1>1, <2>2
<1> QED
  BY <1>1, <1>3, <1>4, <1>6, <1>7 DEF KInv

\* A batch without errors: waitWrIdMulti handles all of it, waitWrId all up to
\* its target, which is the whole batch when only the target is in it.
LEMMA BatchOk ==
    ASSUME TypeOK, NEW t \in Thread, \A i \in DOMAIN cq : cq[i].ok
    PROVE  /\ \A wc \in Last(t, cq) : wc.ok
           /\ kind[t] = "all" =>
                 {wc.id : wc \in Handled(t, cq)} = Ids(cq) /\ Last(t, cq) = {}
           /\ kind[t] = "one" /\ cq # <<>> /\ Ids(cq) \subseteq want[t] =>
                 /\ Handled(t, cq) = {}
                 /\ Ids(cq) \cap {wc.id : wc \in Last(t, cq)} # {}
<1>1. \A i \in DOMAIN cq : i \in Nat /\ i >= 1 /\ cq[i] \in [id : Id, ok : BOOLEAN]
  BY CqElements
<1>0. \A i \in DOMAIN cq : 1 .. i \subseteq DOMAIN cq
  BY DEF TypeOK
<1>2. \A wc \in Last(t, cq) : wc.ok
  BY DEF Last
<1>3. ASSUME kind[t] = "all"
      PROVE  {wc.id : wc \in Handled(t, cq)} = Ids(cq) /\ Last(t, cq) = {}
  <2>1. \A i \in DOMAIN cq : ~Stops(t, cq[i])
    BY <1>3 DEF Stops
  <2>2. {i \in DOMAIN cq : \A j \in 1 .. i : ~Stops(t, cq[j])} = DOMAIN cq
    BY <1>0, <2>1
  <2>3. Handled(t, cq) = {cq[i] : i \in DOMAIN cq}
    BY <2>2 DEF Handled
  <2>4. Last(t, cq) = {}
    BY <2>1 DEF Last
  <2> QED
    BY <2>3, <2>4 DEF Ids
<1>4. ASSUME kind[t] = "one", cq # <<>>, Ids(cq) \subseteq want[t]
      PROVE  Handled(t, cq) = {} /\ Ids(cq) \cap {wc.id : wc \in Last(t, cq)} # {}
  <2>1. 1 \in DOMAIN cq
    BY <1>4 DEF TypeOK
  <2>2. Stops(t, cq[1]) /\ cq[1].id \in Ids(cq)
    BY <1>4, <2>1 DEF Stops, Ids
  <2>3. \A i \in DOMAIN cq : 1 \in 1 .. i
    BY <1>1
  <2>4. Handled(t, cq) = {}
    BY <2>2, <2>3 DEF Handled
  <2>5. cq[1] \in Last(t, cq)
    BY <2>1, <2>2 DEF Last
  <2> QED
    BY <2>2, <2>4, <2>5
<1> QED
  BY <1>2, <1>3, <1>4

\* The steps of a waiting thread.
LEMMA WaitStepKInv ==
    ASSUME Tidy, IInv, KInv, NEW t \in Thread, WaitStep(t)
    PROVE  KInv'
<1>1. TypeOK /\ Calls /\ Distinct /\ AllOk /\ Alone /\ CompletionsKept
  BY DEF IInv, KInv
<1>2. CASE Check(t)
  <2>1. Narrows(t, want[t] \ completed)
    BY <1>1, <1>2, ContinueNarrows DEF Check
  <2> QED
    BY <1>2, <2>1, TakeKInv DEF Check
<1>3. CASE Lock(t)
  <2>1. Narrows(t, want[t] \ Recheck(t))
    BY <1>1, <1>3, ContinueNarrows DEF Lock
  <2>2. want[t] \ Recheck(t) = want[t] \ completed /\ completed \ Recheck(t) = completed \ want[t]
    BY DEF Recheck
  <2>3. Narrows(t, want[t] \ completed)
    BY <2>1, <2>2
  <2> QED
    BY <1>3, <2>2, <2>3, TakeKInv DEF Lock
<1>4. CASE Poll(t)
  <2> DEFINE done == {wc.id : wc \in Handled(t, cq)}
             last == Last(t, cq)
             rest == want[t] \ (done \cup {wc.id : wc \in last})
  <2>1. /\ pc[t] # "idle" /\ cq # <<>> /\ cq' = <<>>
        /\ completed' = completed \cup (done \ want[t])
        /\ UNCHANGED <<usage, nextId, sq, inflight, broken, executed>>
    BY <1>4 DEF Poll, Stash
  <2>2. (\A wc \in last : wc.ok) => Continue(t, rest, "poll")
    BY <1>4 DEF Poll
  <2>3. (\E wc \in last : ~wc.ok) => Leave(t)
    BY <1>4 DEF Poll, Fail
  <2> HIDE DEF done, last
  <2>4. PICK l : Narrows(t, l) /\ ((\A wc \in last : wc.ok) => l = rest)
    <3>1. CASE \A wc \in last : wc.ok
      BY <1>1, <2>1, <2>2, <3>1, ContinueNarrows
    <3>2. CASE \E wc \in last : ~wc.ok
      BY <1>1, <2>1, <2>3, <3>2, LeaveNarrows
    <3> QED
      BY <3>1, <3>2
  <2>5. Calls' /\ Awaited' = (Awaited \ want[t]) \cup l /\ l \subseteq want[t]
    BY <1>1, <2>1, <2>4, NarrowsCalls DEF Narrows
  <2>6. Ids(cq)' = {} /\ Distinct' /\ AllOk'
    BY <1>1, <2>1 DEF Ids, Distinct, AllOk
  <2>7. Alone' /\ CompletionsKept'
    <3>1. CASE broken # {}
      BY <2>1, <3>1 DEF Alone, CompletionsKept
    <3>2. CASE broken = {} /\ OneAtATime(usage)
      <4>1. /\ sq \cup Ids(cq) \cup completed \subseteq Awaited /\ \A a, b \in Awaited : a = b
            /\ \A i \in DOMAIN cq : cq[i].ok
            /\ kind[t] = "one"
        BY <1>1, <3>2 DEF Alone, AllOk, Calls, Kinds
      <4>2. want[t] # {} /\ want[t] \subseteq Awaited /\ want[t] \cap completed = {}
        <5>1. want[t] # {}
          BY <1>1, <2>1 DEF Calls, Exclusive
        <5>2. want[t] \cap completed = {}
          BY <1>4 DEF IInv, NoMissedWakeup, Poll
        <5> QED
          BY <5>1, <5>2 DEF Awaited
      <4>3. want[t] = Awaited
        <5>1. PICK w : w \in want[t]
          BY <4>2
        <5>2. w \in Awaited
          BY <4>2, <5>1
        <5>3. \A a \in Awaited : a = w
          BY <4>1, <5>2
        <5> QED
          BY <4>2, <5>1, <5>3
      <4>4. /\ \A wc \in last : wc.ok
            /\ done = {} /\ Ids(cq) \cap {wc.id : wc \in last} # {}
        BY <1>1, <2>1, <4>1, <4>3, BatchOk DEF done, last
      <4>5. Ids(cq) \subseteq want[t] /\ (\A a, b \in want[t] : a = b) /\ completed = {}
        BY <4>1, <4>2, <4>3
      <4>6. rest = {}
        BY <4>4, <4>5
      <4>7. Awaited' = {} /\ completed' = {}
        BY <2>1, <2>4, <2>5, <4>3, <4>4, <4>5, <4>6
      <4>8. sq = {}
        <5>1. ASSUME NEW x \in sq PROVE FALSE
          <6>1. PICK y \in Ids(cq) : TRUE
            BY <4>4
          <6>2. x = y
            BY <4>1, <6>1
          <6>3. y \in executed
            BY <4>1, <6>1 DEF Ids, IInv, Genuine
          <6> QED
            BY <1>1, <6>2, <6>3 DEF Distinct
        <5> QED
          BY <5>1
      <4> QED
        BY <2>1, <2>6, <4>7, <4>8 DEF Alone, CompletionsKept
    <3>3. CASE broken = {} /\ ~OneAtATime(usage)
      <4>1. kind[t] = "all"
        BY <1>1, <2>1, <3>3 DEF Tidy, TypeOK, Calls, Kinds
      <4>2. done = Ids(cq) /\ last = {}
        BY <1>1, <3>3, <4>1, BatchOk DEF AllOk, done, last
      <4>3. l = want[t] \ Ids(cq) /\ completed' = completed \cup (Ids(cq) \ want[t])
        BY <2>1, <2>4, <4>2
      <4>4. want[t] \subseteq Awaited
        BY DEF Awaited
      <4>5. want[t] \cap completed = {}
        BY <1>4 DEF IInv, NoMissedWakeup, Poll
      <4>6. \A id \in Awaited \cap executed : id \in Ids(cq) \cup completed
        BY <1>1, <3>3 DEF CompletionsKept
      <4>7. \A id \in Awaited' \cap executed : id \in completed'
        BY <2>5, <4>3, <4>4, <4>5, <4>6
      <4> QED
        BY <2>1, <3>3, <4>7 DEF Alone, CompletionsKept
    <3> QED
      BY <3>1, <3>2, <3>3
  <2> QED
    BY <2>5, <2>6, <2>7 DEF KInv
<1>5. CASE Timeout(t)
  <2>1. Narrows(t, {}) /\ pc[t] # "idle" /\ kind[t] = "all" /\ UNCHANGED <<cq, completed>>
    BY <1>1, <1>5, LeaveNarrows DEF Timeout, Fail
  <2>2. Calls' /\ Awaited' = Awaited \ want[t]
    BY <1>1, <2>1, NarrowsCalls
  <2>3. UNCHANGED <<usage, nextId, sq, inflight, broken, executed>> /\ Ids(cq)' = Ids(cq)
    BY <2>1 DEF Narrows, Ids
  <2>4. ~OneAtATime(usage)
    BY <1>1, <2>1 DEF Calls, Kinds
  <2> QED
    BY <1>1, <2>1, <2>2, <2>3, <2>4 DEF KInv, Distinct, AllOk, Alone, CompletionsKept
<1> QED
  BY <1>2, <1>3, <1>4, <1>5 DEF WaitStep

\* The calls of the application.
LEMMA CallKInv ==
    ASSUME Tidy, IInv, KInv, NEW t \in Thread, Call(t)
    PROVE  KInv'
<1>1. TypeOK /\ Calls /\ Distinct /\ AllOk /\ Alone /\ CompletionsKept
  BY DEF IInv, KInv
<1>2. nextId \in Nat /\ (Post => nextId' = nextId + 1) /\ nextId \notin executed
      /\ \A id \in Id : id < nextId => id < nextId + 1
  BY <1>1 DEF TypeOK, Post, Calls, Older, Id
<1>3. pc[t] = "idle" /\ want[t] = {} /\ want \in [Thread -> SUBSET Id]
      /\ inflight \subseteq Id /\ sq \subseteq Id /\ executed \subseteq Id
      /\ UNCHANGED <<usage, broken, executed, cq, completed>> /\ Ids(cq)' = Ids(cq)
  BY <1>1 DEF Call, Put, PutNB, WaitId, WaitIds, WaitIdsNotFound, Calls, Exclusive, TypeOK, Ids
<1>4. ASSUME UNCHANGED <<pc, kind, want, entry, sq, inflight>>, nextId' = nextId + 1
      PROVE  KInv'
  <2>1. Calls'
    BY <1>1, <1>2, <1>3, <1>4 DEF Calls, Older, Exclusive, Kinds, Blocking
  <2>2. Awaited' = Awaited
    BY <1>4 DEF Awaited
  <2> QED
    BY <1>1, <1>3, <1>4, <2>1, <2>2 DEF KInv, Distinct, AllOk, Alone, CompletionsKept
<1>5. CASE Put(t)
  <2>1. CASE sq' = sq \cup {nextId} /\ HoldEntry(t) /\ Await(t, "one", {WrId})
    <3>1. usage \subseteq {"put", "wait"}
      BY <1>1, <1>5 DEF Put, Tidy, TypeOK, ListWaits, OneAtATime
    <3>2. inflight = {} /\ (\A u \in Thread : pc[u] = "idle" /\ want[u] = {})
      BY <1>1, <1>5, <3>1, ThreadAssumption DEF Calls, Blocking, Exclusive, Put
    <3>3. /\ \A u \in Thread \ {t} : pc'[u] = pc[u] /\ want'[u] = want[u]
          /\ pc'[t] = "check" /\ want'[t] = {nextId} /\ kind'[t] = "one"
          /\ \A u \in Thread \ {t} : kind'[u] = kind[u]
          /\ entry' = t /\ inflight' = inflight /\ nextId' = nextId + 1
      BY <1>1, <1>2, <1>5, <2>1 DEF TypeOK, Await, WrId, HoldEntry, Put
    <3>4. Older'
      BY <1>1, <1>2, <1>3, <2>1, <3>2, <3>3 DEF Calls, Older
    <3>5. Exclusive'
      BY <3>2, <3>3 DEF Exclusive
    <3>6. Kinds' /\ Blocking'
      <4>1. OneAtATime(usage) /\ ~ListWaits(usage)
        BY <1>5, <3>1 DEF Put, ListWaits, OneAtATime
      <4>2. (\A u \in Thread : kind'[u] = "one") /\ usage' = usage
        BY <1>1, <1>3, <3>3, <4>1 DEF Calls, Kinds
      <4>3. Kinds'
        BY <4>1, <4>2 DEF Kinds
      <4>4. Blocking'
        BY <3>2, <3>3 DEF Blocking
      <4> QED
        BY <4>3, <4>4
    <3>7. Awaited = {} /\ Awaited' = {nextId}
      BY <3>2, <3>3 DEF Awaited
    <3> QED
      BY <1>1, <1>2, <1>3, <2>1, <3>4, <3>5, <3>6, <3>7
         DEF KInv, Calls, Distinct, AllOk, Alone, CompletionsKept
  <2>2. CASE UNCHANGED <<pc, kind, asked, want, entry, sq>>
    BY <1>2, <1>4, <1>5, <2>2 DEF Put
  <2> QED
    BY <1>5, <2>1, <2>2 DEF Put
<1>6. CASE PutNB(t)
  <2>1. CASE sq' = sq \cup {nextId} /\ inflight' = inflight \cup {WrId}
    <3>1. /\ UNCHANGED <<pc, kind, want, entry>> /\ nextId' = nextId + 1
          /\ inflight' = inflight \cup {nextId}
      BY <1>2, <1>6, <2>1 DEF PutNB, WrId
    <3>2. Older' /\ Exclusive'
      BY <1>1, <1>2, <1>3, <2>1, <3>1 DEF Calls, Older, Exclusive
    <3>3. Kinds' /\ Blocking'
      BY <1>1, <1>3, <1>6, <3>1 DEF Calls, Kinds, Blocking, PutNB
    <3>4. Awaited' = Awaited \cup {nextId}
      BY <3>1 DEF Awaited
    <3>5. OneAtATime(usage) => Awaited = {}
      BY <1>1, <1>6 DEF PutNB, NoneOutstanding, OneAtATime, Calls, Exclusive, Awaited
    <3> QED
      BY <1>1, <1>2, <1>3, <2>1, <3>2, <3>3, <3>4, <3>5
         DEF KInv, Calls, Distinct, AllOk, Alone, CompletionsKept
  <2>2. CASE UNCHANGED <<sq, inflight>>
    BY <1>2, <1>4, <1>6, <2>2 DEF PutNB
  <2> QED
    BY <1>6, <2>1, <2>2 DEF PutNB
<1>7. ASSUME NEW ids \in SUBSET inflight, ids # {}, NEW how \in {"one", "all"},
             inflight' = inflight \ ids, Await(t, how, ids), UNCHANGED <<nextId, sq, entry>>,
             how = "one" => "wait" \in usage, how = "all" => "waitAll" \in usage
      PROVE  KInv'
  <2>1. /\ \A u \in Thread \ {t} : pc'[u] = pc[u] /\ want'[u] = want[u] /\ kind'[u] = kind[u]
        /\ pc'[t] = "check" /\ want'[t] = ids /\ kind'[t] = how
    BY <1>1, <1>7 DEF TypeOK, Await
  <2>2. Older'
    BY <1>1, <1>3, <1>7, <2>1 DEF Calls, Older
  <2>3. Exclusive'
    BY <1>1, <1>3, <1>7, <2>1 DEF Calls, Exclusive
  <2>4. Kinds' /\ Blocking'
    BY <1>1, <1>3, <1>7, <2>1 DEF Calls, Kinds, Blocking, ListWaits, OneAtATime
  <2>5. Awaited' = Awaited
    <3>1. ASSUME NEW x PROVE x \in Awaited' <=> x \in Awaited
      BY <1>3, <1>7, <2>1 DEF Awaited
    <3> QED
      BY <3>1
  <2> QED
    BY <1>1, <1>3, <1>7, <2>2, <2>3, <2>4, <2>5
       DEF KInv, Calls, Distinct, AllOk, Alone, CompletionsKept
<1>8. CASE WaitId(t)
  <2> PICK id \in inflight : inflight' = inflight \ {id} /\ Await(t, "one", {id})
    BY <1>8 DEF WaitId
  <2> QED
    BY <1>7, <1>8 DEF WaitId
<1>9. CASE WaitIds(t)
  <2>1. PICK ids \in (SUBSET inflight) \ {{}} : inflight' = inflight \ ids /\ Await(t, "all", ids)
    BY <1>9 DEF WaitIds
  <2>2. ids \in SUBSET inflight /\ ids # {}
    OBVIOUS
  <2> QED
    BY <1>7, <1>9, <2>1, <2>2 DEF WaitIds
<1>10. CASE WaitIdsNotFound(t)
  <2>1. /\ inflight' \subseteq inflight /\ UNCHANGED <<pc, kind, want, entry, nextId, sq>>
        /\ ~OneAtATime(usage) /\ ~(usage \subseteq {"put", "wait"})
    BY <1>10 DEF WaitIdsNotFound, OneAtATime
  <2>2. Calls'
    BY <1>1, <1>3, <2>1 DEF Calls, Older, Exclusive, Kinds, Blocking
  <2>3. Awaited' \subseteq Awaited
    BY <2>1 DEF Awaited
  <2> QED
    BY <1>1, <1>3, <2>1, <2>2, <2>3 DEF KInv, Distinct, AllOk, Alone, CompletionsKept
<1> QED
  BY <1>5, <1>6, <1>8, <1>9, <1>10 DEF Call

\* The steps of the NIC.
LEMMA NicKInv ==
    ASSUME IInv, KInv, (\E id \in Id : Nic(id)) \/ (\E qp \in Breakable : Break(qp))
    PROVE  KInv'
<1>1. TypeOK /\ Calls /\ Distinct /\ AllOk /\ Alone /\ CompletionsKept /\ completed \subseteq executed
  BY DEF IInv, KInv, Genuine
<1>2. ASSUME NEW id \in Id, Nic(id) PROVE KInv'
  <2> DEFINE S == [id : Id, ok : BOOLEAN]
             wc == [id |-> id, ok |-> QpOf(id) \notin broken]
  <2>1. cq \in Seq(S) /\ wc \in S /\ cq' = Append(cq, wc) /\ wc.id = id /\ (broken = {} => wc.ok)
    BY <1>1, <1>2 DEF TypeOK, Nic
  <2>2. /\ id \in sq /\ sq' = sq \ {id} /\ executed' \subseteq executed \cup {id}
        /\ UNCHANGED <<usage, pc, kind, want, entry, nextId, completed, inflight, broken>>
    BY <1>2 DEF Nic
  <2> HIDE DEF S, wc
  <2>3. \A i \in DOMAIN cq' : cq'[i] = wc \/ (i \in DOMAIN cq /\ cq'[i] = cq[i])
    BY <2>1
  <2>4. /\ \A i \in DOMAIN cq : i \in DOMAIN cq' /\ cq'[i] = cq[i]
        /\ \E i \in DOMAIN cq' : cq'[i] = wc
    BY <2>1
  <2>5. Ids(cq)' = Ids(cq) \cup {id}
    BY <2>1, <2>3, <2>4 DEF Ids
  <2>6. Calls'
    BY <1>1, <2>2 DEF Calls, Older, Exclusive, Kinds, Blocking
  <2>7. Awaited' = Awaited
    BY <2>2 DEF Awaited
  <2>8. Distinct'
    BY <1>1, <2>2, <2>5 DEF Distinct
  <2>9. AllOk'
    BY <1>1, <2>1, <2>2, <2>3 DEF AllOk
  <2>10. Alone' /\ CompletionsKept'
    BY <1>1, <2>2, <2>5, <2>7 DEF Alone, CompletionsKept
  <2> QED
    BY <2>6, <2>8, <2>9, <2>10 DEF KInv
<1>3. ASSUME NEW qp \in Breakable, Break(qp) PROVE KInv'
  <2>1. broken' # {} /\ UNCHANGED <<usage, pc, kind, want, entry, nextId, sq, cq, completed,
                                    inflight, executed>>
    BY <1>3 DEF Break
  <2> QED
    BY <1>1, <2>1 DEF KInv, Calls, Older, Exclusive, Kinds, Blocking, Distinct, AllOk, Alone,
                      CompletionsKept, Ids
<1> QED
  BY <1>2, <1>3

LEMMA StepKInv == Tidy => (IInv /\ KInv /\ [Next]_vars => KInv')
<1> SUFFICES ASSUME Tidy, IInv, KInv, [Next]_vars PROVE KInv'
  OBVIOUS
<1>1. CASE Next
  BY <1>1, CallKInv, WaitStepKInv, NicKInv DEF Next
<1>2. CASE UNCHANGED vars
  BY <1>2 DEF vars, KInv, Calls, Older, Exclusive, Kinds, Blocking, Distinct, AllOk, Alone,
              CompletionsKept, Ids, Awaited
<1> QED
  BY <1>1, <1>2

\* While the queue pairs work, what a call waits for, or may still be asked to
\* wait for, is never dropped by the thread that happened to poll it: for
\* applications that wait for lists only, or that have one transfer
\* outstanding at a time.
THEOREM NoCompletionIsLost == Tidy => (Spec => []CompletionsKept)
<1> SUFFICES ASSUME Tidy PROVE Spec => []CompletionsKept
  OBVIOUS
<1>1. Init => KInv
  BY InitKInv
<1>2. IInv /\ KInv /\ [Next]_vars => KInv'
  BY StepKInv
<1>3. KInv => CompletionsKept
  BY DEF KInv
<1> QED
  BY <1>1, <1>2, <1>3, Invariance, PTL DEF Spec

----------------------------------------------------------------------------
(***************************************************************************)
(* Pipelined transfers                                                     *)
(***************************************************************************)
\* The single queue pair.
sent0 == sent[0]
awaited0 == awaited[0]
freed0 == freed[0]

\* What is still occupied: an unsignaled tail, the windows of the calls that
\* failed since the last successful wait, and the posts of this window.
Occupied ==
    /\ ran[0] <= sent0
    /\ freed0 <= sent0
    /\ sent0 - freed0 <= Interval - 1 + MaxInflight * fails + inflight_posts
    /\ since < Interval
    /\ awaited0 = 0 => inflight_posts <= since
    /\ awaited0 > 0 => awaited0 = sent0 - since

\* Where the call is.
Place ==
    /\ phase = "post" => inflight_posts < MaxInflight /\ left > 0
    /\ phase = "wait" => awaited0 > 0 /\ (left = 0 => since = 0)
    /\ phase \in {"idle", "ok"} => sent0 = freed0 /\ ran[0] = sent0 /\ fails = 0

\* A send queue that fits was never found full.
NotFull == Fits => phase # "full"

PipeInv == PipelineTypeOK /\ Occupied /\ Place /\ NotFull

USE PipeQPsAssumption, MaxWrAssumption, PipeSettingsAssumption, SizesAssumption,
    MaxPostsAssumption

LEMMA SettingFacts ==
    ASSUME PipelineTypeOK
    PROVE  MaxInflight \in Nat \ {0} /\ Interval \in Nat \ {0} /\ Interval <= MaxInflight
  BY DEF PipelineTypeOK, MaxInflight, Interval

\* The windows of one more failed call.
LEMMA OneMoreWindow ==
    ASSUME NEW m \in Nat, NEW k \in Nat
    PROVE  m * (k + 1) = m * k + m /\ m * k \in Nat /\ m * 0 = 0
  OBVIOUS

LEMMA InitPipeInv == PipeQPs = 1 /\ PipelineInit => PipeInv
<1> SUFFICES ASSUME PipeQPs = 1, PipelineInit PROVE PipeInv
  OBVIOUS
<1>1. QP = {0}
  BY DEF QP
<1>2. setting \in Settings /\ setting[2] \in Nat \ {0} /\ setting[1] \in Nat \ {0}
  BY DEF PipelineInit
<1>3. PipelineTypeOK
  BY <1>2 DEF PipelineInit, PipelineTypeOK, MaxInflight
<1>4. since < Interval /\ MaxInflight \in Nat /\ Interval \in Nat
  BY <1>3, SettingFacts DEF PipelineInit
<1>5. MaxInflight * fails = 0
  BY <1>4, OneMoreWindow DEF PipelineInit
<1> QED
  BY <1>1, <1>3, <1>4, <1>5 DEF PipelineInit, PipeInv, Occupied, Place, NotFull, sent0, awaited0, freed0

LEMMA StepPipeInv == PipeQPs = 1 /\ PipeInv /\ [PipelineNext]_pipelineVars => PipeInv'
<1> SUFFICES ASSUME PipeQPs = 1, PipeInv, [PipelineNext]_pipelineVars PROVE PipeInv'
  OBVIOUS
<1> USE DEF sent0, awaited0, freed0
<1>1. QP = {0}
  BY DEF QP
<1>2. /\ PipelineTypeOK /\ MaxInflight \in Nat \ {0} /\ Interval \in Nat \ {0} /\ Interval <= MaxInflight
      /\ sent0 \in Nat /\ awaited0 \in Nat /\ freed0 \in Nat /\ ran[0] \in Nat
      /\ left \in Nat /\ inflight_posts \in Nat /\ inflight_posts <= MaxInflight
      /\ since \in Nat /\ next \in Nat /\ fails \in Nat
  BY <1>1, SettingFacts DEF PipeInv, PipelineTypeOK
<1>3. setting' = setting
  BY DEF PipelineNext, Start, PostChunk, PostFull, Wait, WaitFails, PipelineNic, QpFails, pipelineVars
<1>4. MaxInflight' = MaxInflight /\ Interval' = Interval
  BY <1>3 DEF MaxInflight, Interval
<1> DEFINE windows == MaxInflight * fails
<1>5. /\ windows \in Nat
      /\ MaxInflight * (fails + 1) = windows + MaxInflight
      /\ MaxInflight * 0 = 0
  BY <1>2, OneMoreWindow
<1>occ. /\ ran[0] <= sent0 /\ freed0 <= sent0 /\ since < Interval
        /\ sent0 - freed0 <= Interval - 1 + windows + inflight_posts
        /\ awaited0 = 0 => inflight_posts <= since
        /\ awaited0 > 0 => awaited0 = sent0 - since
  BY DEF PipeInv, Occupied
<1>fit. ASSUME fails' = fails PROVE MaxInflight' * fails' = windows /\ (Fits' <=> Fits)
  BY <1>4, <1>fit DEF Fits
<1>wait. ASSUME NEW f, f \in [QP -> 0 .. next], Polled(f)
         PROVE  /\ freed' = f /\ freed0' = f[0] /\ freed0' \in Nat /\ freed' \in [QP -> Nat]
                /\ signals' \in [QP -> SUBSET Nat]
  BY <1>1, <1>2, <1>wait DEF Polled, PipelineTypeOK
<1> HIDE DEF windows
<1>6. CASE Start
  <2>1. PICK n \in Sizes : left' = n
    BY <1>6 DEF Start
  <2>2. n \in Nat /\ n > 0
    OBVIOUS
  <2>3. /\ phase \in {"idle", "ok", "full", "error"} /\ phase' = "post" /\ inflight_posts' = 0 /\ since' = 0
        /\ fails' = IF phase \in {"full", "error"} THEN fails + 1 ELSE fails
        /\ awaited' = [q \in QP |-> 0] /\ UNCHANGED <<setting, next, sent, ran, freed, signals, dead>>
    BY <1>6 DEF Start
  <2>4. PipelineTypeOK'
    BY <1>2, <1>4, <2>1, <2>2, <2>3 DEF PipelineTypeOK
  <2>5. awaited0' = 0
    BY <1>1, <2>3
  <2>6. sent0' - freed0' <= Interval - 1 + MaxInflight' * fails' + inflight_posts'
    <3>1. CASE phase \in {"full", "error"}
      <4>1. MaxInflight' * fails' = windows + MaxInflight
        BY <1>4, <1>5, <2>3, <3>1
      <4> QED
        BY <1>2, <1>5, <1>occ, <2>3, <4>1
    <3>2. CASE phase \in {"idle", "ok"}
      <4>1. sent0 = freed0 /\ fails' = fails
        BY <2>3, <3>2 DEF PipeInv, Place
      <4> QED
        BY <1>2, <1>5, <1>fit, <2>3, <4>1
    <3> QED
      BY <2>3, <3>1, <3>2
  <2>7. Occupied' /\ Place'
    BY <1>2, <1>4, <1>occ, <2>1, <2>2, <2>3, <2>5, <2>6 DEF Occupied, Place
  <2> QED
    BY <2>3, <2>4, <2>7 DEF PipeInv, NotFull
<1>7. CASE PostChunk
  <2>1. Turn = 0
    BY <1>2 DEF Turn
  <2>2. /\ phase = "post" /\ sent0' = sent0 + 1 /\ freed0' = freed0 /\ ran' = ran /\ left' = left - 1 /\ next' = next + 1
        /\ inflight_posts' = inflight_posts + 1 /\ freed' = freed /\ dead' = dead /\ fails' = fails
        /\ since' = IF Signaled THEN 0 ELSE since + 1
        /\ awaited0' = IF Signaled THEN sent0 + 1 ELSE awaited0
        /\ phase' = IF MustWait THEN "wait" ELSE "post"
    BY <1>1, <1>7, <2>1 DEF PostChunk, PipeInv, PipelineTypeOK
  <2>3. inflight_posts < MaxInflight /\ left > 0
    BY <2>2 DEF PipeInv, Place
  <2>4. PipelineTypeOK'
    <3>1. sent' \in [QP -> Nat] /\ awaited' \in [QP -> Nat]
      BY <1>1, <1>2, <1>7, <2>1 DEF PostChunk, PipelineTypeOK
    <3>2. signals' \in [QP -> SUBSET Nat]
      BY <1>1, <1>2, <1>7, <2>1 DEF PostChunk, PipelineTypeOK
    <3>3. left' \in Nat /\ inflight_posts' \in 0 .. MaxInflight' /\ since' \in Nat /\ next' \in Nat
      BY <1>2, <1>4, <2>2, <2>3
    <3>4. phase' \in {"wait", "post"}
      BY <2>2
    <3> QED
      BY <1>2, <1>3, <2>2, <3>1, <3>2, <3>3, <3>4 DEF PipelineTypeOK
  <2>5. MaxInflight' * fails' = windows
    BY <1>fit, <2>2
  <2>6. CASE Signaled
    <3>1. Occupied'
      BY <1>2, <1>4, <1>5, <1>occ, <2>2, <2>5, <2>6 DEF Occupied
    <3>2. Place'
      BY <1>2, <1>4, <2>2, <2>3, <2>6 DEF Place, MustWait
    <3> QED
      BY <2>2, <2>4, <3>1, <3>2 DEF PipeInv, NotFull
  <2>7. CASE ~Signaled
    <3>1. left # 1 /\ since + 1 < Interval
      BY <1>2, <2>7 DEF Signaled
    <3>2. Occupied'
      BY <1>2, <1>4, <1>5, <1>occ, <2>2, <2>5, <2>7, <3>1 DEF Occupied
    <3>3. MustWait => awaited0 > 0
      BY <1>2, <1>occ, <2>3, <3>1 DEF MustWait
    <3>4. Place'
      BY <1>2, <1>4, <2>2, <2>3, <2>7, <3>1, <3>3 DEF Place, MustWait
    <3> QED
      BY <2>2, <2>4, <3>2, <3>4 DEF PipeInv, NotFull
  <2> QED
    BY <2>6, <2>7
<1>8. CASE PostFull
  <2>1. /\ phase = "post" /\ phase' = "full" /\ next' = next + 1
        /\ UNCHANGED <<setting, left, inflight_posts, since, awaited, sent, ran, freed, signals, dead, fails>>
    BY <1>8 DEF PostFull
  <2>2. PipelineTypeOK'
    BY <1>2, <1>4, <2>1 DEF PipelineTypeOK
  <2>3. MaxInflight' * fails' = windows /\ (Fits' <=> Fits)
    BY <1>fit, <2>1
  <2>4. ~Fits
    <3>1. sent0 - freed0 >= MaxWr /\ inflight_posts < MaxInflight
      BY <1>1, <1>2, <1>8 DEF PostFull, Turn, PipeInv, Place
    <3>2. Interval - 1 + (windows + MaxInflight) > MaxWr
      BY <1>2, <1>5, <1>occ, <3>1
    <3> QED
      BY <1>2, <1>5, <3>2 DEF Fits
  <2>5. Occupied'
    BY <1>4, <1>occ, <2>1, <2>3 DEF Occupied
  <2> QED
    BY <2>1, <2>2, <2>3, <2>4, <2>5 DEF PipeInv, Place, NotFull
<1>9. CASE Wait
  <2>1. phase = "wait" /\ awaited0 > 0 /\ awaited0 <= ran[0] /\ (left = 0 => since = 0)
    BY <1>1, <1>2, <1>9 DEF Wait, AllCompleted, PipeInv, Place
  <2>2. PICK f \in [QP -> 0 .. next] :
          /\ \A q \in QP : f[q] \in {freed[q]} \cup Completed(q) /\ f[q] >= awaited[q]
          /\ Polled(f)
    BY <1>9 DEF Wait
  <2>3. /\ freed0' \in Nat /\ freed0' <= sent0 /\ awaited0 <= freed0'
    BY <1>1, <1>2, <1>occ, <1>wait, <2>2 DEF Completed
  <2>4. /\ awaited0' = 0 /\ inflight_posts' = 0 /\ fails' = 0 /\ UNCHANGED <<setting, left, since, next, sent, ran, dead>>
        /\ phase' = IF left = 0 THEN "ok" ELSE "post"
    BY <1>1, <1>9 DEF Wait, Restart
  <2>5. PipelineTypeOK'
    <3>1. freed' \in [QP -> Nat] /\ awaited' \in [QP -> Nat] /\ signals' \in [QP -> SUBSET Nat]
      BY <1>2, <1>9, <1>wait, <2>2 DEF Wait, PipelineTypeOK
    <3>2. inflight_posts' \in 0 .. MaxInflight' /\ phase' \in {"ok", "post"}
      BY <1>2, <1>4, <2>4
    <3> QED
      BY <1>2, <2>4, <3>1, <3>2 DEF PipelineTypeOK
  <2>6. MaxInflight' * fails' = 0
    BY <1>4, <1>5, <2>4
  <2>7. Occupied'
    BY <1>2, <1>4, <1>occ, <2>1, <2>3, <2>4, <2>6 DEF Occupied
  <2>8. Place'
    BY <1>2, <1>4, <1>occ, <2>1, <2>3, <2>4 DEF Place
  <2> QED
    BY <2>4, <2>5, <2>7, <2>8 DEF PipeInv, NotFull
<1>10. CASE WaitFails
  <2>1. PICK f \in [QP -> 0 .. next] :
          /\ \A q \in QP : f[q] \in {freed[q]} \cup Completed(q) \cup Flushed(q) /\ f[q] >= freed[q]
          /\ Polled(f)
    BY <1>10 DEF WaitFails
  <2>2. /\ phase' = "error"
        /\ UNCHANGED <<setting, left, inflight_posts, since, next, awaited, sent, ran, dead, fails>>
    BY <1>10 DEF WaitFails
  <2>3. freed0' \in Nat /\ freed0 <= freed0' /\ freed0' <= sent0
    BY <1>1, <1>2, <1>occ, <1>wait, <2>1 DEF Completed, Flushed
  <2>4. PipelineTypeOK'
    BY <1>2, <1>4, <1>wait, <2>1, <2>2 DEF PipelineTypeOK
  <2>5. Occupied'
    BY <1>2, <1>4, <1>5, <1>occ, <1>fit, <2>2, <2>3 DEF Occupied
  <2> QED
    BY <2>2, <2>4, <2>5 DEF PipeInv, Place, NotFull
<1>11. CASE \E q \in QP : PipelineNic(q)
  <2>1. /\ ran[0] < sent0 /\ ran'[0] = ran[0] + 1 /\ ran' \in [QP -> Nat]
        /\ UNCHANGED <<phase, setting, left, inflight_posts, since, next, awaited, sent, freed,
                       signals, dead, fails>>
    BY <1>1, <1>2, <1>11 DEF PipelineNic, PipelineTypeOK
  <2>2. PipelineTypeOK'
    BY <1>2, <1>4, <2>1 DEF PipelineTypeOK
  <2>3. MaxInflight' * fails' = windows /\ (Fits' <=> Fits)
    BY <1>fit, <2>1
  <2>4. Occupied'
    BY <1>2, <1>4, <1>occ, <2>1, <2>3 DEF Occupied
  <2> QED
    BY <1>2, <1>4, <2>1, <2>2, <2>3, <2>4 DEF PipeInv, Place, NotFull
<1>12. CASE \E q \in QP : QpFails(q)
  <2>1. /\ dead' \subseteq QP
        /\ UNCHANGED <<phase, setting, left, inflight_posts, since, next, awaited, sent, ran, freed,
                       signals, fails>>
    BY <1>2, <1>12 DEF QpFails, PipelineTypeOK
  <2>2. PipelineTypeOK'
    BY <1>2, <1>4, <2>1 DEF PipelineTypeOK
  <2>3. MaxInflight' * fails' = windows /\ (Fits' <=> Fits)
    BY <1>fit, <2>1
  <2>4. Occupied'
    BY <1>4, <1>occ, <2>1, <2>3 DEF Occupied
  <2> QED
    BY <1>4, <2>1, <2>2, <2>3, <2>4 DEF PipeInv, Place, NotFull
<1>13. CASE UNCHANGED pipelineVars
  BY <1>4, <1>13 DEF pipelineVars, PipeInv, PipelineTypeOK, Occupied, Place, NotFull, Fits
<1> QED
  BY <1>6, <1>7, <1>8, <1>9, <1>10, <1>11, <1>12, <1>13 DEF PipelineNext

LEMMA PipeInvariance == PipeQPs = 1 => (PipelineSpec => []PipeInv)
<1> SUFFICES ASSUME PipeQPs = 1 PROVE PipelineSpec => []PipeInv
  OBVIOUS
<1>1. PipelineInit => PipeInv
  BY InitPipeInv
<1>2. PipeInv /\ [PipelineNext]_pipelineVars => PipeInv'
  BY StepPipeInv
<1> QED
  BY <1>1, <1>2, PTL DEF PipelineSpec

----------------------------------------------------------------------------
\* putPipeline and getPipeline over one queue pair report SUCCESS only when
\* every chunk of every call has been executed.
THEOREM DeliveredOnSuccess == PipeQPs = 1 => (PipelineSpec => []AllDelivered)
<1> SUFFICES ASSUME PipeQPs = 1 PROVE PipelineSpec => []AllDelivered
  OBVIOUS
<1>1. PipeInv => AllDelivered
  <2> SUFFICES ASSUME PipeInv, phase = "ok" PROVE ran = sent
    BY DEF AllDelivered
  <2>1. QP = {0}
    BY DEF QP
  <2>2. ran \in [QP -> Nat] /\ sent \in [QP -> Nat] /\ ran[0] = sent[0]
    BY DEF PipeInv, PipelineTypeOK, Place, sent0
  <2> QED
    BY <2>1, <2>2
<1> QED
  BY <1>1, PipeInvariance, PTL

\* On one queue pair ibv_post_send never finds the send queue full, for every
\* setting and every sequence of calls, failed ones included, as long as the
\* queue holds the unsignaled tail, a window for every call that failed since
\* the last successful wait, and a window for the call itself (Fits).
THEOREM NeverFull == PipeQPs = 1 => (PipelineSpec => []SlotsSuffice)
<1> SUFFICES ASSUME PipeQPs = 1 PROVE PipelineSpec => []SlotsSuffice
  OBVIOUS
<1>1. PipeInv => SlotsSuffice
  BY DEF PipeInv, NotFull, SlotsSuffice
<1> QED
  BY <1>1, PipeInvariance, PTL

----------------------------------------------------------------------------
\* For every number of queue pairs: a chunk is posted only while the window is
\* open and something is left to post.
Window == phase = "post" => inflight_posts < MaxInflight /\ left > 0

LEMMA TurnIsQP == ASSUME PipelineTypeOK PROVE Turn \in QP
  BY SMTT(30) DEF PipelineTypeOK, Turn, QP

LEMMA StepPipeType ==
    ASSUME PipelineTypeOK, Window, [PipelineNext]_pipelineVars
    PROVE  PipelineTypeOK' /\ Window'
<1>1. MaxInflight \in Nat \ {0} /\ (setting' = setting => MaxInflight' = MaxInflight)
  BY SettingFacts DEF MaxInflight
<1>2. CASE Start
  BY <1>1, <1>2 DEF Start, PipelineTypeOK, Window
<1>3. CASE PostChunk
  <2>1. Turn \in QP /\ inflight_posts < MaxInflight /\ left > 0
    BY <1>3, TurnIsQP DEF PostChunk, Window
  <2>2. sent' \in [QP -> Nat] /\ awaited' \in [QP -> Nat] /\ signals' \in [QP -> SUBSET Nat]
    BY <1>3, <2>1 DEF PostChunk, PipelineTypeOK
  <2>3. /\ left' \in Nat /\ since' \in Nat /\ next' \in Nat /\ inflight_posts' \in 0 .. MaxInflight
        /\ phase' \in {"wait", "post"} /\ setting' = setting /\ ran' = ran /\ freed' = freed
        /\ dead' = dead /\ fails' = fails
    BY <1>1, <1>3, <2>1 DEF PostChunk, PipelineTypeOK
  <2>4. Window'
    BY <1>1, <1>3, <2>1, <2>3 DEF PostChunk, Window, MustWait, PipelineTypeOK
  <2> QED
    BY <1>1, <2>2, <2>3, <2>4 DEF PipelineTypeOK
<1>4. CASE PostFull
  BY <1>1, <1>4 DEF PostFull, PipelineTypeOK, Window
<1>5. CASE Wait
  <2>1. freed' \in [QP -> Nat] /\ awaited' \in [QP -> Nat] /\ signals' \in [QP -> SUBSET Nat]
    BY <1>5 DEF Wait, Polled, PipelineTypeOK
  <2> QED
    BY <1>1, <1>5, <2>1 DEF Wait, Restart, PipelineTypeOK, Window
<1>6. CASE WaitFails
  <2>1. freed' \in [QP -> Nat] /\ signals' \in [QP -> SUBSET Nat]
    BY <1>6 DEF WaitFails, Polled, PipelineTypeOK
  <2> QED
    BY <1>1, <1>6, <2>1 DEF WaitFails, PipelineTypeOK, Window
<1>7. CASE \E q \in QP : PipelineNic(q)
  <2>1. /\ ran' \in [QP -> Nat]
        /\ UNCHANGED <<phase, setting, left, inflight_posts, since, next, awaited, sent, freed,
                       signals, dead, fails>>
    BY <1>7 DEF PipelineNic, PipelineTypeOK
  <2> QED
    BY <1>1, <2>1 DEF PipelineTypeOK, Window
<1>8. CASE \E q \in QP : QpFails(q)
  <2>1. /\ dead' \subseteq QP
        /\ UNCHANGED <<phase, setting, left, inflight_posts, since, next, awaited, sent, ran, freed,
                       signals, fails>>
    BY <1>8 DEF QpFails, PipelineTypeOK
  <2> QED
    BY <1>1, <2>1 DEF PipelineTypeOK, Window
<1>9. CASE UNCHANGED pipelineVars
  BY <1>1, <1>9 DEF pipelineVars, PipelineTypeOK, Window
<1> QED
  BY <1>2, <1>3, <1>4, <1>5, <1>6, <1>7, <1>8, <1>9 DEF PipelineNext

\* Every variable keeps its type for every number of queue pairs: a window
\* never holds more than max_inflight posts, and no more chunks are posted than
\* the transfer has.
THEOREM PipelineTypeCorrect == PipelineSpec => []PipelineTypeOK
<1>1. PipelineInit => PipelineTypeOK /\ Window
  BY DEF PipelineInit, PipelineTypeOK, Window, MaxInflight
<1>2. PipelineTypeOK /\ Window /\ [PipelineNext]_pipelineVars => PipelineTypeOK' /\ Window'
  BY StepPipeType
<1> QED
  BY <1>1, <1>2, PTL DEF PipelineSpec
=============================================================================
